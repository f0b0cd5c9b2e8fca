----------------------------- MODULE AttemptLedger -----------------------------
(***************************************************************************)
(* The prospective attempt ledger (Ledger of                               *)
(* src/data/prospective_attempt_ledger_v1.py): logical actions refer to    *)
(* physical attempts, which have parents and retries, so that the cost of  *)
(* an action is that of everything its result rests on, each attempt once. *)
(*                                                                         *)
(* A clock session is fixed by the plan of an attempt, and START and END   *)
(* readings of another one are rejected: readings here are those of the    *)
(* session of their attempt.  The five semantic fields of a provenance are *)
(* one value.                                                              *)
(***************************************************************************)
EXTENDS Naturals, FiniteSets, Functions

CONSTANTS
  AttemptId, Action, Circuit,
  Call,        \* call_key
  Semantics,   \* the provenance a retry or a cache hit must share
  Artifact,    \* digests of output artifacts
  Outcomes,    \* bounds the outcomes an END may report
  Time,        \* readings of monotonic_ns
  MaxEvents,   \* MAX_EVENTS
  None

ASSUME LedgerAssumption ==
  /\ Time \subseteq Nat
  /\ MaxEvents \in Nat
  /\ None \notin AttemptId \cup Circuit \cup Artifact \cup Nat

VARIABLES
  attempts,   \* every attempt planned so far
  refs,       \* actions: the attempts an action refers to
  bound,      \* action_circuits
  seq,        \* the number of events applied
  cached      \* history: the providers of cache hits, as they were

vars == <<attempts, refs, bound, seq, cached>>

Terminal == {"SUCCESS", "FAILED", "TIMEOUT", "CANCELLED"}
State == {"PLANNED", "RUNNING"} \cup Terminal

Outcome == [state : Terminal, verified : BOOLEAN,
            artifact : Artifact \cup {None}]

ASSUME OutcomeAssumption == Outcomes \subseteq Outcome

Attempt ==
  [circuit : Circuit, call : Call, sem : Semantics,
   parents : SUBSET AttemptId, retry : AttemptId \cup {None}, state : State,
   start : Time \cup {None}, end : Time \cup {None},
   verified : BOOLEAN, artifact : Artifact \cup {None}]

\* An id that is no key of attempts.
Absent == [state |-> "ABSENT"]

Planned == {a \in AttemptId : attempts[a] # Absent}

Init ==
  /\ attempts = [a \in AttemptId |-> Absent]
  /\ refs = [x \in Action |-> {}]
  /\ bound = [x \in Action |-> None]
  /\ seq = 0
  /\ cached = {}

\* EVENT_SEQUENCE_BOUND, in apply().
OneEvent == seq < MaxEvents /\ seq' = seq + 1

\* bind_action(): an action stays with one circuit.
Bind(x, circuit) ==
  /\ bound[x] \in {None, circuit}
  /\ bound' = [bound EXCEPT ![x] = circuit]

\* Mutant: the parents may belong to any circuit.
ParentsAnyCircuitOK(parents, circuit) == parents \subseteq Planned

ParentsOK(parents, circuit) ==
  \A p \in parents : p \in Planned /\ attempts[p].circuit = circuit

\* Mutant: a retry of whatever has not succeeded yet.
RetryOfUnfinishedOK(retry, circuit, call, sem) ==
  retry # None =>
    /\ retry \in Planned
    /\ attempts[retry].state # "SUCCESS"
    /\ attempts[retry].circuit = circuit
    /\ attempts[retry].call = call
    /\ attempts[retry].sem = sem

\* Only an observed failure is retried, and only as the same operation.
RetryOK(retry, circuit, call, sem) ==
  retry # None =>
    /\ retry \in Planned
    /\ attempts[retry].state \in {"FAILED", "TIMEOUT", "CANCELLED"}
    /\ attempts[retry].circuit = circuit
    /\ attempts[retry].call = call
    /\ attempts[retry].sem = sem

\* PLAN.  A parent or a retried attempt is one planned before.
PlanAttempt(a, x, circuit, call, sem, parents, retry) ==
  /\ OneEvent
  /\ a \notin Planned
  /\ ParentsOK(parents, circuit)
  /\ RetryOK(retry, circuit, call, sem)
  /\ Bind(x, circuit)
  /\ attempts' = [attempts EXCEPT ![a] =
       [circuit |-> circuit, call |-> call, sem |-> sem, parents |-> parents,
        retry |-> retry, state |-> "PLANNED", start |-> None, end |-> None,
        verified |-> FALSE, artifact |-> None]]
  /\ refs' = [refs EXCEPT ![x] = @ \cup {a}]
  /\ UNCHANGED cached

\* START.
StartAttempt(a, ns) ==
  /\ OneEvent
  /\ attempts[a].state = "PLANNED"
  /\ attempts' = [attempts EXCEPT ![a].state = "RUNNING", ![a].start = ns]
  /\ UNCHANGED <<refs, bound, cached>>

\* Mutant: a terminal state can be reported again.
EndsTwice(a, o, ns) ==
  \/ /\ attempts[a].state \in {"RUNNING"} \cup Terminal
     /\ attempts[a].start # None
     /\ attempts[a].start <= ns
     /\ o.state \in {"TIMEOUT", "CANCELLED"} \/ o.verified
  \/ /\ attempts[a].state = "PLANNED"
     /\ o.state = "CANCELLED" /\ o.verified /\ o.artifact = None

\* Success and failure are verified ends; an attempt that never started can
\* only be cancelled, with no result.
Ends(a, o, ns) ==
  \/ /\ attempts[a].state = "RUNNING"
     /\ attempts[a].start <= ns
     /\ o.state \in {"TIMEOUT", "CANCELLED"} \/ o.verified
  \/ /\ attempts[a].state = "PLANNED"
     /\ o.state = "CANCELLED" /\ o.verified /\ o.artifact = None

\* END.
EndAttempt(a, o, ns) ==
  /\ OneEvent
  /\ Ends(a, o, ns)
  /\ attempts' = [attempts EXCEPT ![a].state = o.state, ![a].end = ns,
                                  ![a].verified = o.verified,
                                  ![a].artifact = o.artifact]
  /\ UNCHANGED <<refs, bound, cached>>

\* The common part of LINK and CACHE: one more reference of an action.
Refer(x, a) ==
  /\ Bind(x, attempts[a].circuit)
  /\ a \notin refs[x]
  /\ refs' = [refs EXCEPT ![x] = @ \cup {a}]
  /\ UNCHANGED attempts

\* LINK.
Link(x, a) ==
  /\ OneEvent
  /\ a \in Planned
  /\ Refer(x, a)
  /\ UNCHANGED cached

\* CACHE: a hit names a verified success of the same operation, and the very
\* artifact it left.
CacheHit(x, a, circuit, call, sem, artifact) ==
  /\ OneEvent
  /\ a \in Planned
  /\ attempts[a].state = "SUCCESS"
  /\ attempts[a].verified
  /\ attempts[a].circuit = circuit
  /\ attempts[a].call = call
  /\ attempts[a].sem = sem
  /\ attempts[a].artifact = artifact
  /\ Refer(x, a)
  /\ cached' = cached \cup {<<a, attempts[a]>>}

Next ==
  \/ \E a \in AttemptId, x \in Action, circuit \in Circuit, call \in Call,
        sem \in Semantics, parents \in SUBSET AttemptId,
        retry \in AttemptId \cup {None} :
        PlanAttempt(a, x, circuit, call, sem, parents, retry)
  \/ \E a \in AttemptId, ns \in Time : StartAttempt(a, ns)
  \/ \E a \in AttemptId, o \in Outcomes, ns \in Time : EndAttempt(a, o, ns)
  \/ \E a \in AttemptId, x \in Action : Link(x, a)
  \/ \E a \in AttemptId, x \in Action, circuit \in Circuit, call \in Call,
        sem \in Semantics, artifact \in Artifact :
        CacheHit(x, a, circuit, call, sem, artifact)

Spec == Init /\ [][Next]_vars

-----------------------------------------------------------------------------
\* aggregate(): the cost of a set of actions.

Prerequisites(a) ==
  attempts[a].parents \cup ({attempts[a].retry} \ {None})

Closed(S) == \A a \in S : Prerequisites(a) \subseteq S

Referred(X) == UNION {refs[x] : x \in X}

\* What the worklist of aggregate() selects: the least closed set of attempts
\* that contains those the actions refer to.
Lineage(X) ==
  {a \in Planned : \A S \in SUBSET Planned :
                      Referred(X) \subseteq S /\ Closed(S) => a \in S}

Elapsed(a) ==
  IF attempts[a].start = None \/ attempts[a].end = None THEN 0
  ELSE attempts[a].end - attempts[a].start

\* physical_atpg_wall_ns_sum.
Cost(X) ==
  FoldFunctionOnSet(LAMBDA x, y : x + y, 0,
                    [a \in AttemptId |-> Elapsed(a)], Lineage(X))

CompleteCost(X) ==
  \A a \in Lineage(X) : attempts[a].end # None /\ attempts[a].verified

-----------------------------------------------------------------------------
TypeOK ==
  /\ attempts \in [AttemptId -> Attempt \cup {Absent}]
  /\ refs \in [Action -> SUBSET AttemptId]
  /\ bound \in [Action -> Circuit \cup {None}]
  /\ seq \in 0 .. MaxEvents
  /\ cached \subseteq AttemptId \X Attempt

\* An action is charged for attempts of its own circuit only, however long the
\* way to them over references, cache hits, parents and retries: a cost can be
\* attributed to one circuit.
LineageInOneCircuit ==
  \A x \in Action : \A a \in Lineage({x}) : attempts[a].circuit = bound[x]

\* The events an attempt rests on stay what they were when it was planned: a
\* retried attempt is a failure of the same operation, and the provider of a
\* cache hit still is the verified success that was consumed.
BasisStands ==
  /\ \A a \in Planned : attempts[a].retry # None =>
        LET prior == attempts[attempts[a].retry]
        IN  /\ prior.state \in Terminal \ {"SUCCESS"}
            /\ prior.call = attempts[a].call
            /\ prior.sem = attempts[a].sem
  /\ \A hit \in cached : attempts[hit[1]] = hit[2]

\* A cost never shrinks as events are added; and the cost of complete actions
\* is final until one of them refers to another attempt.
CostIsFinal ==
  [][\A X \in SUBSET Action :
        /\ Cost(X) <= Cost(X)'
        /\ CompleteCost(X) /\ Referred(X)' = Referred(X) =>
              CompleteCost(X)' /\ Cost(X)' = Cost(X)]_vars
=============================================================================
