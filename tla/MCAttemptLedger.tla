---------------------------- MODULE MCAttemptLedger ----------------------------
(***************************************************************************)
(* Three attempts, two actions and two circuits: long enough for a retry   *)
(* of a failure that another action reuses, and for a parent of a parent.  *)
(* Actions, attempts and circuits are interchangeable.                     *)
(***************************************************************************)
EXTENDS AttemptLedger, TLC

CONSTANTS a1, a2, a3, x1, x2, c1, c2, k, s, o, Nil

MCAttemptId == {a1, a2, a3}
MCAction == {x1, x2}
MCCircuit == {c1, c2}

MCOutcomes ==
  { [state |-> "SUCCESS", verified |-> TRUE, artifact |-> o],
    [state |-> "FAILED", verified |-> FALSE, artifact |-> Nil],   \* rejected
    [state |-> "TIMEOUT", verified |-> FALSE, artifact |-> Nil],
    [state |-> "CANCELLED", verified |-> TRUE, artifact |-> Nil] }

Interchangeable ==
  Permutations(MCAttemptId) \cup Permutations(MCAction)
    \cup Permutations(MCCircuit)
=============================================================================
