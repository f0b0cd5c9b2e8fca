--------------------------- MODULE MCLifecycleJournal ---------------------------
(***************************************************************************)
(* Two attempts, so that identities can be reused, clock sessions change   *)
(* and time run backwards between one attempt and the next.                *)
(***************************************************************************)
EXTENDS LifecycleJournal, TLC

CONSTANTS a1, a2, h, p1, p2, s1, s2, success, failure, None

\* Neither the code nor a property tells one identifier from another.
Symmetry ==
  Permutations(Aid) \cup Permutations(Pid) \cup Permutations(Session) \cup
  Permutations(Profile)

\* Bound: an interrupt in the first attempt is followed through one more run
\* to its end, one in the second attempt to the end of that run.
FewAfterInterrupt == linterrupted => Len(ldisk) <= 4

\* Bound: at most two of the four troubles at once.
Troubles ==
  Cardinality({n \in 1 .. 4 : <<lpoisoned, lwriter # "open",
                               lfile = "changed", linterrupted>>[n]})
FewTroubles == Troubles <= 2
=============================================================================
