----------------------------- MODULE Attempts_proofs -----------------------------
(***************************************************************************)
(* Proofs about the attempt ledger, its journal, and the adapter that      *)
(* records a child in such journals, each by itself.                       *)
(*                                                                         *)
(* The ledger: what is planned keeps its circuit, its operation and its    *)
(* prerequisites, and what is terminal keeps all (PlansKept): so the       *)
(* attempts of one circuit are closed under the prerequisites, and the     *)
(* lineage of an action, the least closed set, cannot leave them.  A cost  *)
(* is final: a lineage that has ended stays what it is, and a sum over a   *)
(* larger one is not smaller; a least cardinality takes the place of the   *)
(* induction over a finite set.                                            *)
(*                                                                         *)
(* The journal: the row of an append is in the buffer, in the file, or     *)
(* synced, according to its step, until it is published; and, as long as   *)
(* no append was interrupted, the file is at most that row ahead.          *)
(*                                                                         *)
(* The adapter: a process whose flag is down has no child, so that a run   *)
(* which was admitted stays alone with the child it starts until it has    *)
(* recorded its END.                                                       *)
(***************************************************************************)
EXTENDS AttemptLedger, AttemptJournal, DummyAdapter, Integers, FiniteSetTheorems,
        SequenceTheorems, NaturalsInduction, TLAPS

\* What an attempt rests on was planned, in its own circuit.
Rooted ==
  \A a \in Planned : \A p \in Prerequisites(a) :
     p \in Planned /\ attempts[p].circuit = attempts[a].circuit

\* An action refers to planned attempts of the circuit it is bound to.
Charged ==
  \A x \in Action : \A a \in refs[x] :
     a \in Planned /\ attempts[a].circuit = bound[x]

\* BasisStands, with what makes it inductive: the attempts it speaks of are
\* planned, and a provider was a success.
Basis ==
  /\ \A a \in Planned : attempts[a].retry # None =>
        /\ attempts[a].retry \in Planned
        /\ attempts[attempts[a].retry].state \in Terminal \ {"SUCCESS"}
        /\ attempts[attempts[a].retry].call = attempts[a].call
        /\ attempts[attempts[a].retry].sem = attempts[a].sem
  /\ \A hit \in cached :
        /\ hit[1] \in Planned
        /\ attempts[hit[1]] = hit[2]
        /\ hit[2].state = "SUCCESS"

\* The inductive invariant of the ledger.
Inv == TypeOK /\ Rooted /\ Charged /\ Basis

\* An entry is planned when its state is one of an attempt.
LEMMA PlannedState ==
  ASSUME TypeOK, NEW a \in AttemptId
  PROVE  /\ a \in Planned <=> attempts[a] \in Attempt
         /\ a \in Planned <=> attempts[a].state \in State
BY DEF TypeOK, Planned, Attempt, Absent, State, Terminal

\* The types hold in the beginning.
LEMMA InitTyped == Init => TypeOK
BY LedgerAssumption DEF Init, TypeOK

\* Every step keeps the types.
LEMMA NextTyped == TypeOK /\ [Next]_vars => TypeOK'
<1> SUFFICES ASSUME TypeOK, [Next]_vars PROVE TypeOK'
  OBVIOUS
<1> USE LedgerAssumption, OutcomeAssumption
<1>1. ASSUME NEW a \in AttemptId, NEW x \in Action, NEW circuit \in Circuit,
             NEW call \in Call, NEW sem \in Semantics,
             NEW parents \in SUBSET AttemptId,
             NEW retry \in AttemptId \cup {None},
             PlanAttempt(a, x, circuit, call, sem, parents, retry)
      PROVE  TypeOK'
  <2> DEFINE new == [circuit |-> circuit, call |-> call, sem |-> sem,
                     parents |-> parents, retry |-> retry, state |-> "PLANNED",
                     start |-> None, end |-> None, verified |-> FALSE,
                     artifact |-> None]
  <2>1. new \in Attempt
    BY DEF Attempt, State
  <2>2. attempts' = [attempts EXCEPT ![a] = new]
    BY <1>1 DEF PlanAttempt
  <2> HIDE DEF new
  <2>3. attempts' \in [AttemptId -> Attempt \cup {Absent}]
    BY <2>1, <2>2 DEF TypeOK
  <2>4. refs' \in [Action -> SUBSET AttemptId] /\ bound' \in [Action -> Circuit \cup {None}]
    BY <1>1 DEF TypeOK, PlanAttempt, Bind
  <2>5. seq' \in 0 .. MaxEvents /\ cached' \subseteq AttemptId \X Attempt
    BY <1>1 DEF TypeOK, PlanAttempt, OneEvent
  <2> QED BY <2>3, <2>4, <2>5 DEF TypeOK
<1>2. ASSUME NEW a \in AttemptId, NEW ns \in Time, StartAttempt(a, ns)
      PROVE  TypeOK'
  <2>1. attempts[a] \in Attempt
    BY <1>2, PlannedState DEF StartAttempt, State
  <2>2. attempts'[a] \in Attempt
    BY <1>2, <2>1 DEF StartAttempt, TypeOK, Attempt, State
  <2>3. attempts' \in [AttemptId -> Attempt \cup {Absent}]
    BY <1>2, <2>2 DEF StartAttempt, TypeOK
  <2>4. seq' \in 0 .. MaxEvents
    BY <1>2 DEF TypeOK, StartAttempt, OneEvent
  <2> QED BY <1>2, <2>3, <2>4 DEF StartAttempt, TypeOK
<1>3. ASSUME NEW a \in AttemptId, NEW o \in Outcomes, NEW ns \in Time,
             EndAttempt(a, o, ns)
      PROVE  TypeOK'
  <2>1. attempts[a] \in Attempt
    BY <1>3, PlannedState DEF EndAttempt, Ends, State
  <2>2. attempts'[a] \in Attempt
    BY <1>3, <2>1 DEF EndAttempt, TypeOK, Attempt, State, Outcome
  <2>3. attempts' \in [AttemptId -> Attempt \cup {Absent}]
    BY <1>3, <2>2 DEF EndAttempt, TypeOK
  <2>4. seq' \in 0 .. MaxEvents
    BY <1>3 DEF TypeOK, EndAttempt, OneEvent
  <2> QED BY <1>3, <2>3, <2>4 DEF EndAttempt, TypeOK
<1>4. ASSUME NEW a \in AttemptId, NEW x \in Action, Link(x, a)
      PROVE  TypeOK'
  <2>1. attempts[a] \in Attempt
    BY <1>4, PlannedState DEF Link
  <2>2. attempts[a].circuit \in Circuit
    BY <2>1 DEF Attempt
  <2> QED BY <1>4, <2>2 DEF Link, Refer, Bind, OneEvent, TypeOK
<1>5. ASSUME NEW a \in AttemptId, NEW x \in Action, NEW circuit \in Circuit,
             NEW call \in Call, NEW sem \in Semantics, NEW artifact \in Artifact,
             CacheHit(x, a, circuit, call, sem, artifact)
      PROVE  TypeOK'
  <2>1. attempts[a] \in Attempt
    BY <1>5, PlannedState DEF CacheHit
  <2>2. attempts[a].circuit \in Circuit
    BY <2>1 DEF Attempt
  <2>3. cached' \subseteq AttemptId \X Attempt
    BY <1>5, <2>1 DEF CacheHit, TypeOK
  <2> QED BY <1>5, <2>2, <2>3 DEF CacheHit, Refer, Bind, OneEvent, TypeOK
<1>6. CASE UNCHANGED vars
  BY <1>6 DEF vars, TypeOK
<1> QED BY <1>1, <1>2, <1>3, <1>4, <1>5, <1>6 DEF Next
-----------------------------------------------------------------------------
\* What step leaves of an entry that is planned: its circuit, its operation and
\* its prerequisites, and all of it once it is terminal.
Kept(a) ==
  /\ a \in Planned'
  /\ attempts'[a].circuit = attempts[a].circuit
  /\ attempts'[a].call = attempts[a].call
  /\ attempts'[a].sem = attempts[a].sem
  /\ attempts'[a].parents = attempts[a].parents
  /\ attempts'[a].retry = attempts[a].retry
  /\ attempts[a].state \in Terminal => attempts'[a] = attempts[a]

\* No step of the ledger rewrites the plan of an attempt or a terminal state.
LEMMA PlansKept ==
  ASSUME TypeOK, TypeOK', [Next]_vars, NEW b \in Planned
  PROVE  Kept(b)
<1> b \in AttemptId /\ attempts[b] \in Attempt /\ attempts[b] # Absent
  BY PlannedState DEF Planned
<1>1. ASSUME NEW a \in AttemptId, NEW x \in Action, NEW circuit \in Circuit,
             NEW call \in Call, NEW sem \in Semantics,
             NEW parents \in SUBSET AttemptId,
             NEW retry \in AttemptId \cup {None},
             PlanAttempt(a, x, circuit, call, sem, parents, retry)
      PROVE  Kept(b)
  <2>1. a # b
    BY <1>1 DEF PlanAttempt
  <2>2. attempts'[b] = attempts[b]
    BY <1>1, <2>1 DEF PlanAttempt, TypeOK
  <2> QED BY <2>2 DEF Kept, Planned
<1>2. ASSUME NEW a \in AttemptId, NEW ns \in Time, StartAttempt(a, ns)
      PROVE  Kept(b)
  <2>1. CASE a # b
    <3>1. attempts'[b] = attempts[b]
      BY <1>2, <2>1 DEF StartAttempt, TypeOK
    <3> QED BY <3>1 DEF Kept, Planned
  <2>2. CASE a = b
    <3>1. /\ attempts[b].state = "PLANNED"
          /\ attempts'[b] = [attempts[b] EXCEPT !.state = "RUNNING", !.start = ns]
      BY <1>2, <2>2 DEF StartAttempt, TypeOK
    <3>2. /\ attempts'[b].circuit = attempts[b].circuit
          /\ attempts'[b].call = attempts[b].call
          /\ attempts'[b].sem = attempts[b].sem
          /\ attempts'[b].parents = attempts[b].parents
          /\ attempts'[b].retry = attempts[b].retry
          /\ attempts'[b].state = "RUNNING"
      BY <3>1 DEF Attempt
    <3>3. b \in Planned'
      BY <3>2 DEF Planned, Absent
    <3> QED BY <3>1, <3>2, <3>3 DEF Kept, Terminal
  <2> QED BY <2>1, <2>2
<1>3. ASSUME NEW a \in AttemptId, NEW o \in Outcomes, NEW ns \in Time,
             EndAttempt(a, o, ns)
      PROVE  Kept(b)
  <2>1. CASE a # b
    <3>1. attempts'[b] = attempts[b]
      BY <1>3, <2>1 DEF EndAttempt, TypeOK
    <3> QED BY <3>1 DEF Kept, Planned
  <2>2. CASE a = b
    <3>1. /\ attempts[b].state \in {"PLANNED", "RUNNING"}
          /\ attempts'[b] = [attempts[b] EXCEPT !.state = o.state, !.end = ns,
                               !.verified = o.verified, !.artifact = o.artifact]
      BY <1>3, <2>2 DEF EndAttempt, Ends, TypeOK
    <3>2. o.state \in Terminal
      BY OutcomeAssumption DEF Outcome
    <3>3. /\ attempts'[b].circuit = attempts[b].circuit
          /\ attempts'[b].call = attempts[b].call
          /\ attempts'[b].sem = attempts[b].sem
          /\ attempts'[b].parents = attempts[b].parents
          /\ attempts'[b].retry = attempts[b].retry
          /\ attempts'[b].state = o.state
      BY <3>1 DEF Attempt
    <3>4. b \in Planned'
      BY <3>2, <3>3 DEF Planned, Absent, Terminal
    <3> QED BY <3>1, <3>3, <3>4 DEF Kept, Terminal
  <2> QED BY <2>1, <2>2
<1>4. ASSUME UNCHANGED attempts
      PROVE  Kept(b)
  BY <1>4 DEF Kept, Planned
<1> QED
  BY <1>1, <1>2, <1>3, <1>4 DEF Next, Link, CacheHit, Refer, vars

\* The only new entry of a step is the attempt of a PLAN, whose prerequisites
\* are planned in the same circuit; a retried one is a failure of the same kind.
LEMMA PlansRooted ==
  ASSUME TypeOK, TypeOK', [Next]_vars,
         NEW b \in Planned', b \notin Planned
  PROVE  /\ \A p \in Prerequisites(b)' :
               p \in Planned /\ attempts[p].circuit = attempts'[b].circuit
         /\ attempts'[b].retry # None =>
               /\ attempts'[b].retry \in Planned
               /\ attempts[attempts'[b].retry].state \in Terminal \ {"SUCCESS"}
               /\ attempts[attempts'[b].retry].call = attempts'[b].call
               /\ attempts[attempts'[b].retry].sem = attempts'[b].sem
<1> b \in AttemptId /\ attempts[b] = Absent
  BY DEF Planned
<1>1. ASSUME NEW a \in AttemptId, NEW x \in Action, NEW circuit \in Circuit,
             NEW call \in Call, NEW sem \in Semantics,
             NEW parents \in SUBSET AttemptId,
             NEW retry \in AttemptId \cup {None},
             PlanAttempt(a, x, circuit, call, sem, parents, retry)
      PROVE  /\ attempts'[b].circuit = circuit
             /\ attempts'[b].call = call
             /\ attempts'[b].sem = sem
             /\ attempts'[b].parents = parents
             /\ attempts'[b].retry = retry
             /\ ParentsOK(parents, circuit)
             /\ RetryOK(retry, circuit, call, sem)
  <2>1. a = b
    BY <1>1 DEF PlanAttempt, TypeOK, Planned
  <2>2. attempts'[b] =
          [circuit |-> circuit, call |-> call, sem |-> sem, parents |-> parents,
           retry |-> retry, state |-> "PLANNED", start |-> None, end |-> None,
           verified |-> FALSE, artifact |-> None]
    BY <1>1, <2>1 DEF PlanAttempt, TypeOK
  <2> QED BY <1>1, <2>2 DEF PlanAttempt
<1>2. ASSUME NEW a \in AttemptId, NEW ns \in Time, StartAttempt(a, ns)
      PROVE  FALSE
  <2>1. a # b
    BY <1>2 DEF StartAttempt, Absent
  <2>2. attempts'[b] = attempts[b]
    BY <1>2, <2>1 DEF StartAttempt, TypeOK
  <2> QED BY <2>2 DEF Planned
<1>3. ASSUME NEW a \in AttemptId, NEW o \in Outcomes, NEW ns \in Time,
             EndAttempt(a, o, ns)
      PROVE  FALSE
  <2>1. a # b
    BY <1>3 DEF EndAttempt, Ends, Absent
  <2>2. attempts'[b] = attempts[b]
    BY <1>3, <2>1 DEF EndAttempt, TypeOK
  <2> QED BY <2>2 DEF Planned
<1>4. ~ UNCHANGED attempts
  BY DEF Planned
<1>5. PICK a \in AttemptId, x \in Action, circuit \in Circuit, call \in Call,
           sem \in Semantics, parents \in SUBSET AttemptId,
           retry \in AttemptId \cup {None} :
           PlanAttempt(a, x, circuit, call, sem, parents, retry)
  BY <1>2, <1>3, <1>4 DEF Next, Link, CacheHit, Refer, vars
<1>6. /\ attempts'[b].circuit = circuit
      /\ attempts'[b].call = call
      /\ attempts'[b].sem = sem
      /\ attempts'[b].parents = parents
      /\ attempts'[b].retry = retry
      /\ ParentsOK(parents, circuit)
      /\ RetryOK(retry, circuit, call, sem)
  BY <1>1, <1>5
<1>7. \A p \in Prerequisites(b)' : p \in parents \/ (p = retry /\ retry # None)
  BY <1>6 DEF Prerequisites
<1> QED
  BY <1>6, <1>7 DEF ParentsOK, RetryOK, Terminal

\* Prerequisites are planned in the circuit of the attempt that rests on them,
\* and remain so.
LEMMA NextRooted ==
  ASSUME TypeOK, TypeOK', [Next]_vars, Rooted
  PROVE  Rooted'
<1> SUFFICES ASSUME NEW b \in Planned', NEW p \in Prerequisites(b)'
             PROVE  p \in Planned' /\ attempts'[p].circuit = attempts'[b].circuit
  BY DEF Rooted
<1>1. CASE b \in Planned
  <2>1. Kept(b)
    BY <1>1, PlansKept
  <2>2. p \in Prerequisites(b)
    BY <2>1 DEF Kept, Prerequisites
  <2>3. p \in Planned /\ attempts[p].circuit = attempts[b].circuit
    BY <1>1, <2>2 DEF Rooted
  <2>4. Kept(p)
    BY <2>3, PlansKept
  <2> QED BY <2>1, <2>3, <2>4 DEF Kept
<1>2. CASE b \notin Planned
  <2>1. p \in Planned /\ attempts[p].circuit = attempts'[b].circuit
    BY <1>2, PlansRooted
  <2>2. Kept(p)
    BY <2>1, PlansKept
  <2> QED BY <2>1, <2>2 DEF Kept
<1> QED BY <1>1, <1>2

\* An action stays with its circuit, and every new reference is of that circuit.
LEMMA NextCharged ==
  ASSUME TypeOK, TypeOK', [Next]_vars, Charged
  PROVE  Charged'
<1> USE LedgerAssumption
<1> SUFFICES ASSUME NEW y \in Action, NEW b \in refs'[y]
             PROVE  b \in Planned' /\ attempts'[b].circuit = bound'[y]
  BY DEF Charged
<1>1. \A a \in Planned : attempts[a].circuit \in Circuit
  BY PlannedState DEF Planned, Attempt
<1>2. CASE UNCHANGED <<refs, bound>>
  <2>1. b \in Planned /\ attempts[b].circuit = bound[y]
    BY <1>2 DEF Charged
  <2> QED BY <1>2, <2>1, PlansKept DEF Kept
<1>3. ASSUME NEW x \in Action, NEW circuit \in Circuit, NEW a \in AttemptId,
             Bind(x, circuit),
             refs' = [refs EXCEPT ![x] = @ \cup {a}],
             a \in Planned' /\ attempts'[a].circuit = circuit
      PROVE  b \in Planned' /\ attempts'[b].circuit = bound'[y]
  <2>1. CASE b \in refs[y]
    <3>1. b \in Planned /\ attempts[b].circuit = bound[y]
      BY <2>1 DEF Charged
    <3>2. bound[y] # None
      BY <1>1, <3>1
    <3>3. bound'[y] = bound[y]
      BY <1>3, <3>2 DEF Bind, TypeOK
    <3> QED BY <3>1, <3>3, PlansKept DEF Kept
  <2>2. CASE b \notin refs[y]
    <3>1. b = a /\ y = x
      BY <1>3, <2>2 DEF TypeOK
    <3>2. bound'[y] = circuit
      BY <1>3, <3>1 DEF Bind, TypeOK
    <3> QED BY <1>3, <3>1, <3>2
  <2> QED BY <2>1, <2>2
<1>4. ASSUME NEW a \in AttemptId, NEW x \in Action, NEW circuit \in Circuit,
             NEW call \in Call, NEW sem \in Semantics,
             NEW parents \in SUBSET AttemptId,
             NEW retry \in AttemptId \cup {None},
             PlanAttempt(a, x, circuit, call, sem, parents, retry)
      PROVE  b \in Planned' /\ attempts'[b].circuit = bound'[y]
  <2>1. attempts'[a] =
          [circuit |-> circuit, call |-> call, sem |-> sem, parents |-> parents,
           retry |-> retry, state |-> "PLANNED", start |-> None, end |-> None,
           verified |-> FALSE, artifact |-> None]
    BY <1>4 DEF PlanAttempt, TypeOK
  <2>2. a \in Planned' /\ attempts'[a].circuit = circuit
    BY <2>1 DEF Planned, Absent
  <2> QED BY <1>3, <1>4, <2>2 DEF PlanAttempt
<1>5. ASSUME NEW a \in Planned, NEW x \in Action, Refer(x, a)
      PROVE  b \in Planned' /\ attempts'[b].circuit = bound'[y]
  <2>1. a \in Planned' /\ attempts'[a].circuit = attempts[a].circuit
    BY PlansKept DEF Kept
  <2>2. a \in AttemptId /\ attempts[a].circuit \in Circuit
    BY <1>1 DEF Planned
  <2> QED BY <1>3, <1>5, <2>1, <2>2 DEF Refer
<1> QED
  BY <1>2, <1>4, <1>5 DEF Next, StartAttempt, EndAttempt, Link, CacheHit, vars

\* Retried failures and consumed successes are terminal, so no step alters them.
LEMMA NextBasis ==
  ASSUME TypeOK, TypeOK', [Next]_vars, Basis
  PROVE  Basis'
<1>1. ASSUME NEW b \in Planned', attempts'[b].retry # None
      PROVE  /\ attempts'[b].retry \in Planned'
             /\ attempts'[attempts'[b].retry].state \in Terminal \ {"SUCCESS"}
             /\ attempts'[attempts'[b].retry].call = attempts'[b].call
             /\ attempts'[attempts'[b].retry].sem = attempts'[b].sem
  <2> DEFINE r == attempts'[b].retry
  <2>1. /\ r \in Planned
        /\ attempts[r].state \in Terminal \ {"SUCCESS"}
        /\ attempts[r].call = attempts'[b].call
        /\ attempts[r].sem = attempts'[b].sem
    <3>1. CASE b \in Planned
      <4>1. Kept(b)
        BY <3>1, PlansKept
      <4> QED BY <1>1, <3>1, <4>1 DEF Kept, Basis
    <3>2. CASE b \notin Planned
      BY <1>1, <3>2, PlansRooted
    <3> QED BY <3>1, <3>2
  <2> HIDE DEF r
  <2>2. Kept(r)
    BY <2>1, PlansKept
  <2>3. attempts'[r] = attempts[r] /\ r \in Planned'
    BY <2>1, <2>2 DEF Kept
  <2> QED BY <2>1, <2>3 DEF r
<1>2. ASSUME NEW hit \in cached'
      PROVE  /\ hit[1] \in Planned'
             /\ attempts'[hit[1]] = hit[2]
             /\ hit[2].state = "SUCCESS"
  <2>1. /\ hit[1] \in Planned
        /\ attempts[hit[1]] = hit[2]
        /\ hit[2].state = "SUCCESS"
    <3>1. CASE hit \in cached
      BY <3>1 DEF Basis
    <3>2. CASE hit \notin cached
      <4>1. PICK a \in AttemptId, x \in Action, circuit \in Circuit,
                 call \in Call, sem \in Semantics, artifact \in Artifact :
                 CacheHit(x, a, circuit, call, sem, artifact)
        <5>1. \A a \in AttemptId, x \in Action, circuit \in Circuit, call \in Call,
                 sem \in Semantics, parents \in SUBSET AttemptId,
                 retry \in AttemptId \cup {None} :
                 PlanAttempt(a, x, circuit, call, sem, parents, retry) =>
                    cached' = cached
          BY DEF PlanAttempt
        <5>2. \A a \in AttemptId, ns \in Time :
                 StartAttempt(a, ns) => cached' = cached
          BY DEF StartAttempt
        <5>3. \A a \in AttemptId, o \in Outcomes, ns \in Time :
                 EndAttempt(a, o, ns) => cached' = cached
          BY DEF EndAttempt
        <5>4. \A a \in AttemptId, x \in Action : Link(x, a) => cached' = cached
          BY DEF Link
        <5>5. UNCHANGED vars => cached' = cached
          BY DEF vars
        <5> QED BY <3>2, <5>1, <5>2, <5>3, <5>4, <5>5 DEF Next
      <4> QED BY <3>2, <4>1 DEF CacheHit
    <3> QED BY <3>1, <3>2
  <2>2. Kept(hit[1])
    BY <2>1, PlansKept
  <2> QED BY <2>1, <2>2 DEF Kept, Terminal
<1> QED BY <1>1, <1>2 DEF Basis

-----------------------------------------------------------------------------
\* The inductive invariant of the ledger.
THEOREM LedgerInvariant == Spec => []Inv
<1>1. Init => Inv
  BY InitTyped DEF Init, Inv, Rooted, Charged, Basis, Planned
<1>2. Inv /\ [Next]_vars => Inv'
  BY NextTyped, NextRooted, NextCharged, NextBasis DEF Inv
<1> QED BY <1>1, <1>2, PTL DEF Spec

\* The records of the ledger keep their types, whatever the ids and the bounds.
THEOREM LedgerTyped == Spec => []TypeOK
<1>1. Inv => TypeOK
  BY DEF Inv
<1> QED BY <1>1, LedgerInvariant, PTL

\* The lineage of an action is within any closed set of planned attempts that
\* holds what the action refers to: the worklist of aggregate() selects no more.
LEMMA LineageIsLeast ==
  ASSUME NEW X \in SUBSET Action, NEW S \in SUBSET Planned,
         Referred(X) \subseteq S, Closed(S)
  PROVE  Lineage(X) \subseteq S
BY DEF Lineage

\* For every number of attempts, actions and circuits: nothing an action is
\* charged for belongs to another circuit.
THEOREM OneCircuit == Spec => []LineageInOneCircuit
<1>1. Inv => LineageInOneCircuit
  <2> SUFFICES ASSUME Inv, NEW x \in Action, NEW a \in Lineage({x})
               PROVE  attempts[a].circuit = bound[x]
    BY DEF LineageInOneCircuit
  <2> DEFINE S == {b \in Planned : attempts[b].circuit = bound[x]}
  <2>1. Referred({x}) \subseteq S
    BY DEF Inv, Charged, Referred
  <2>2. Closed(S)
    BY DEF Inv, Rooted, Closed
  <2>3. Lineage({x}) \subseteq S
    BY <2>1, <2>2, LineageIsLeast
  <2> QED BY <2>3
<1> QED BY <1>1, LedgerInvariant, PTL

\* Retries rest on failures of the same operation and cache hits on the very
\* success they consumed, for ever.
THEOREM BasisForEver == Spec => []BasisStands
<1>1. Inv => BasisStands
  BY DEF Inv, Basis, BasisStands
<1> QED BY <1>1, LedgerInvariant, PTL

-----------------------------------------------------------------------------
\* Sums over finite sets.  A least number takes the place of an induction.
Less == {ss \in Nat \X Nat : ss[1] < ss[2]}

\* The order on numbers has no infinite descent.
LEMMA NatLessFounded == IsWellFoundedOn(Less, Nat)
BY NatLessThanWellFounded, Zenon DEF OpToRel, Less

\* Some numbers have a least one.
LEMMA LeastNumber ==
  ASSUME NEW T \in SUBSET Nat, T # {}
  PROVE  \E m \in T : \A n \in T : m <= n
<1>1. PICK m \in T : \A n \in T : ~(<<n, m>> \in Less)
  BY NatLessFounded, WFMin
<1>2. \A n \in T : ~(n < m)
  BY <1>1 DEF Less
<1> QED
  BY <1>2

\* Of some finite sets, one has the fewest elements.
LEMMA SmallestSet ==
  ASSUME NEW C, C # {}, \A s \in C : IsFiniteSet(s)
  PROVE  \E s \in C : \A t \in C : Cardinality(s) <= Cardinality(t)
<1> DEFINE N == {Cardinality(s) : s \in C}
<1>1. N \in SUBSET Nat /\ N # {}
  BY FS_CardinalityType
<1>2. PICK m \in N : \A n \in N : m <= n
  <2> HIDE DEF N
  <2> QED BY <1>1, LeastNumber
<1> QED BY <1>2

\* A set without one of its elements.
LEMMA OneLess ==
  ASSUME NEW S, IsFiniteSet(S), NEW s \in SUBSET S, NEW x \in s
  PROVE  /\ s \ {x} \in SUBSET S /\ IsFiniteSet(s) /\ IsFiniteSet(s \ {x})
         /\ Cardinality(s) \in Nat /\ Cardinality(s \ {x}) \in Nat
         /\ Cardinality(s) = Cardinality(s \ {x}) + 1
<1>1. IsFiniteSet(s)
  BY FS_Subset
<1>2. IsFiniteSet(s \ {x}) /\ Cardinality(s \ {x}) = Cardinality(s) - 1
  BY <1>1, FS_RemoveElement
<1>3. Cardinality(s) \in Nat /\ Cardinality(s \ {x}) \in Nat
  BY <1>1, <1>2, FS_CardinalityType
<1> QED BY <1>1, <1>2, <1>3

\* The sum that Cost() takes.
Sum(f, S) == FoldFunctionOnSet(LAMBDA x, y : x + y, 0, f, S)

\* The element that the fold takes next.
Picked(s) == CHOOSE x \in s : TRUE

\* g holds the sums of f over the subsets of S, in the order a fold takes them.
Adds(g, f, s) == g[s] = IF s = {} THEN 0 ELSE f[Picked(s)] + g[s \ {Picked(s)}]
\* g sums f over every subset of S.
Sums(g, f, S) == \A s \in SUBSET S : Adds(g, f, s)

\* The same as one equation, as the definition of a fold has it.
AddsUp(g, f, S) == g = [s \in SUBSET S |->
  IF s = {} THEN 0 ELSE f[Picked(s)] + g[s \ {Picked(s)}]]
\* The function that TLA+ chooses for the fold.
SumChoice(f, S) == CHOOSE g : AddsUp(g, f, S)

\* The sum is its value.
LEMMA SumIsChoice ==
  ASSUME NEW f, NEW S
  PROVE  Sum(f, S) = SumChoice(f, S)[S]
BY DEF Sum, SumChoice, AddsUp, Picked, FoldFunctionOnSet, MapThenFoldSet

\* What is taken next is an element.
LEMMA PickedIsIn ==
  ASSUME NEW s, s # {}
  PROVE  Picked(s) \in s
BY DEF Picked

\* Every finite set has such sums.
LEMMA SumsExist ==
  ASSUME NEW f, NEW S, IsFiniteSet(S)
  PROVE  \E g : AddsUp(g, f, S)
<1> DEFINE N == Cardinality(S)
           Upto(g, n) == \A s \in SUBSET S : Cardinality(s) <= n => Adds(g, f, s)
           Bad == {n \in 0 .. N : ~ \E g : Upto(g, n)}
<1>0. N \in Nat /\ \A s \in SUBSET S : Cardinality(s) \in Nat /\ Cardinality(s) <= N
  BY FS_CardinalityType, FS_Subset
<1>1. Bad = {}
  <2>1. SUFFICES ASSUME Bad # {} PROVE FALSE
    OBVIOUS
  <2>2. PICK m \in Bad : \A n \in Bad : m <= n
    <3> Bad \in SUBSET Nat
      BY <1>0
    <3> HIDE DEF Bad
    <3> QED BY <2>1, LeastNumber
  <2>3. m \in 0 .. N /\ ~ \E g : Upto(g, m)
    BY <2>2
  <2> HIDE DEF N
  <2>4. PICK g : Upto(g, m - 1)
    <3>1. CASE m = 0
      BY <1>0, <3>1
    <3>2. CASE m # 0
      <4>1. m - 1 \in 0 .. N /\ ~(m <= m - 1)
        BY <1>0, <2>3, <3>2
      <4>2. m - 1 \notin Bad
        <5> HIDE DEF Bad
        <5> QED BY <2>2, <4>1
      <4> QED BY <4>1, <4>2
    <3> QED BY <3>1, <3>2
  <2> DEFINE h == [s \in SUBSET S |-> IF s = {} THEN 0 ELSE f[Picked(s)] + g[s \ {Picked(s)}]]
  <2>5. \A s \in SUBSET S : Cardinality(s) <= m - 1 => h[s] = g[s]
    BY <2>4 DEF Adds
  <2>6. ASSUME NEW s \in SUBSET S, Cardinality(s) <= m PROVE Adds(h, f, s)
    <3>1. CASE s = {}
      BY <3>1 DEF Adds
    <3>2. CASE s # {}
      <4> DEFINE r == s \ {Picked(s)}
      <4>1. r \in SUBSET S /\ Cardinality(r) <= m - 1
        <5>1. Picked(s) \in s
          BY <3>2, PickedIsIn
        <5>2. r \in SUBSET S /\ Cardinality(s) = Cardinality(r) + 1 /\ Cardinality(r) \in Nat
          BY <5>1, OneLess
        <5> HIDE DEF r
        <5> QED BY <2>3, <2>6, <5>2
      <4> HIDE DEF r
      <4>2. h[r] = g[r]
        BY <2>5, <4>1
      <4>3. h[s] = f[Picked(s)] + g[r]
        BY <3>2 DEF r
      <4> HIDE DEF h
      <4> QED BY <3>2, <4>2, <4>3 DEF Adds, r
    <3> QED BY <3>1, <3>2
  <2>7. Upto(h, m)
    BY <2>6
  <2> HIDE DEF h, Upto
  <2> QED BY <2>3, <2>7
<1>2. PICK g : Upto(g, N)
  <2> N \in 0 .. N
    BY <1>0
  <2> QED BY <1>1
<1> DEFINE h == [s \in SUBSET S |-> IF s = {} THEN 0 ELSE f[Picked(s)] + g[s \ {Picked(s)}]]
<1>3. \A s \in SUBSET S : h[s] = g[s]
  BY <1>0, <1>2 DEF Adds
<1>4. \A s \in SUBSET S : s # {} => s \ {Picked(s)} \in SUBSET S
  OBVIOUS
<1>5. h = [s \in SUBSET S |-> IF s = {} THEN 0 ELSE f[Picked(s)] + h[s \ {Picked(s)}]]
  BY <1>3, <1>4
<1> QED BY <1>5 DEF AddsUp

\* The sum over a finite set is that of a function which sums over its subsets.
LEMMA SumIsSums ==
  ASSUME NEW f, NEW S, IsFiniteSet(S)
  PROVE  \E g : Sums(g, f, S) /\ Sum(f, S) = g[S]
<1> DEFINE g == SumChoice(f, S)
<1>1. AddsUp(g, f, S)
  BY SumsExist DEF SumChoice
<1>2. Sum(f, S) = g[S]
  BY SumIsChoice
<1> HIDE DEF g
<1>3. Sums(g, f, S)
  BY <1>1 DEF Sums, Adds, AddsUp
<1> QED BY <1>2, <1>3

\* f is a number on S.
Numbers(f, S) == \A x \in S : f[x] \in Nat

\* Sums of numbers are numbers: a smallest set whose sum is none.
LEMMA SumsTyped ==
  ASSUME NEW f, NEW S, IsFiniteSet(S), Numbers(f, S), NEW g, Sums(g, f, S)
  PROVE  \A s \in SUBSET S : g[s] \in Nat
<1> DEFINE Bad == {s \in SUBSET S : g[s] \notin Nat}
<1>1. SUFFICES ASSUME Bad # {} PROVE FALSE
  OBVIOUS
<1>2. PICK s \in Bad : \A t \in Bad : Cardinality(s) <= Cardinality(t)
  <2> \A t \in Bad : IsFiniteSet(t)
    BY FS_Subset
  <2> HIDE DEF Bad
  <2> QED BY <1>1, SmallestSet
<1> DEFINE x == Picked(s)
           r == s \ {x}
<1>3. s \in SUBSET S /\ g[s] \notin Nat /\ Adds(g, f, s)
  BY <1>2 DEF Sums
<1>4. s # {}
  BY <1>3 DEF Adds
<1>5. x \in s /\ f[x] \in Nat /\ g[s] = f[x] + g[r]
  BY <1>3, <1>4, PickedIsIn DEF Adds, Numbers
<1>6. r \in SUBSET S /\ Cardinality(r) \in Nat /\ Cardinality(s) = Cardinality(r) + 1
  <2> HIDE DEF x
  <2> QED BY <1>3, <1>5, OneLess
<1> HIDE DEF x, r
<1>7. r \notin Bad
  <2> HIDE DEF Bad
  <2> QED BY <1>2, <1>6
<1> QED BY <1>3, <1>5, <1>6, <1>7

\* Any element may be added last: a smallest set and element for which not.
LEMMA SumsOfAny ==
  ASSUME NEW f, NEW S, IsFiniteSet(S), Numbers(f, S), NEW g, Sums(g, f, S)
  PROVE  \A s \in SUBSET S : \A x \in s : g[s] = f[x] + g[s \ {x}]
<1> DEFINE Bad == {s \in SUBSET S : \E x \in s : g[s] # f[x] + g[s \ {x}]}
<1>0. \A s \in SUBSET S : g[s] \in Nat
  BY SumsTyped
<1>1. SUFFICES ASSUME Bad # {} PROVE FALSE
  OBVIOUS
<1>2. PICK s \in Bad : \A t \in Bad : Cardinality(s) <= Cardinality(t)
  <2> \A t \in Bad : IsFiniteSet(t)
    BY FS_Subset
  <2> HIDE DEF Bad
  <2> QED BY <1>1, SmallestSet
<1>3. PICK x \in s : g[s] # f[x] + g[s \ {x}]
  BY <1>2
<1> DEFINE p == Picked(s)
<1>4. s \in SUBSET S /\ p \in s /\ g[s] = f[p] + g[s \ {p}]
  BY <1>2, <1>3, PickedIsIn DEF Sums, Adds
<1> HIDE DEF p
<1>5. p # x
  BY <1>3, <1>4
<1>6. ASSUME NEW y \in s, NEW z \in s \ {y}
      PROVE  g[s \ {y}] = f[z] + g[(s \ {y}) \ {z}]
  <2>1. s \ {y} \in SUBSET S /\ Cardinality(s \ {y}) \in Nat /\ Cardinality(s) = Cardinality(s \ {y}) + 1
    <3>1. s \in SUBSET S
      BY <1>4
    <3> HIDE DEF Bad
    <3> QED BY <3>1, OneLess
  <2>2. s \ {y} \notin Bad
    <3> HIDE DEF Bad
    <3> QED BY <1>2, <2>1
  <2> QED BY <2>1, <2>2
<1>7. g[s \ {p}] = f[x] + g[(s \ {p}) \ {x}] /\ g[s \ {x}] = f[p] + g[(s \ {x}) \ {p}]
  BY <1>4, <1>5, <1>6
<1>8. (s \ {p}) \ {x} = (s \ {x}) \ {p} /\ (s \ {p}) \ {x} \in SUBSET S
  BY <1>4
<1>9. f[x] \in Nat /\ f[p] \in Nat /\ g[(s \ {p}) \ {x}] \in Nat
  BY <1>0, <1>4, <1>8 DEF Numbers
<1> DEFINE q == (s \ {p}) \ {x}
<1>10. g[s] = f[p] + (f[x] + g[q]) /\ g[s \ {x}] = f[p] + g[q] /\ g[q] \in Nat
  BY <1>4, <1>7, <1>8, <1>9
<1> HIDE DEF q, Bad
<1>11. g[s] = f[x] + g[s \ {x}]
  BY <1>9, <1>10
<1> QED BY <1>3, <1>11

\* More is summed when every number is as great: a smallest set for which not.
LEMMA SumsOfMore ==
  ASSUME NEW f, NEW e, NEW S, NEW T, IsFiniteSet(T), S \subseteq T,
         Numbers(f, S), Numbers(e, T), \A x \in S : f[x] <= e[x],
         NEW g, Sums(g, f, S), NEW h, Sums(h, e, T)
  PROVE  \A s \in SUBSET S : g[s] <= h[s]
<1> DEFINE Bad == {s \in SUBSET S : ~(g[s] <= h[s])}
<1>0. /\ IsFiniteSet(S)
      /\ \A s \in SUBSET S : g[s] \in Nat
      /\ \A s \in SUBSET T : h[s] \in Nat
  <2>1. IsFiniteSet(S)
    BY FS_Subset
  <2> QED BY <2>1, SumsTyped
<1>1. SUFFICES ASSUME Bad # {} PROVE FALSE
  OBVIOUS
<1>2. PICK s \in Bad : \A t \in Bad : Cardinality(s) <= Cardinality(t)
  <2> \A t \in Bad : IsFiniteSet(t)
    BY <1>0, FS_Subset
  <2> HIDE DEF Bad
  <2> QED BY <1>1, SmallestSet
<1> DEFINE x == Picked(s)
           r == s \ {x}
<1>3. s \in SUBSET S /\ s \in SUBSET T /\ ~(g[s] <= h[s]) /\ Adds(g, f, s) /\ Adds(h, e, s)
  BY <1>2 DEF Sums
<1>4. s # {}
  BY <1>3 DEF Adds
<1>5. x \in s /\ g[s] = f[x] + g[r] /\ h[s] = e[x] + h[r]
  BY <1>3, <1>4, PickedIsIn DEF Adds
<1>6. r \in SUBSET S /\ Cardinality(r) \in Nat /\ Cardinality(s) = Cardinality(r) + 1
  <2> HIDE DEF x
  <2>1. IsFiniteSet(S) /\ s \in SUBSET S /\ x \in s
    BY <1>0, <1>3, <1>5
  <2> HIDE DEF Bad
  <2> QED BY <2>1, OneLess
<1> HIDE DEF x, r
<1>7. r \notin Bad
  <2> HIDE DEF Bad
  <2> QED BY <1>2, <1>6
<1>8. g[r] <= h[r] /\ f[x] <= e[x] /\ f[x] \in Nat /\ e[x] \in Nat /\ g[r] \in Nat /\ h[r] \in Nat
  BY <1>0, <1>3, <1>5, <1>6, <1>7 DEF Numbers
<1> QED BY <1>3, <1>5, <1>8

\* The sum over a larger set is not smaller.
LEMMA SumsOfLarger ==
  ASSUME NEW e, NEW S, NEW T, IsFiniteSet(T), S \subseteq T, Numbers(e, T),
         NEW h, Sums(h, e, T)
  PROVE  h[S] <= h[T]
<1> DEFINE Bad == {t \in SUBSET T : S \subseteq t /\ ~(h[S] <= h[t])}
<1>0. \A s \in SUBSET T : h[s] \in Nat
  BY SumsTyped
<1>1. SUFFICES ASSUME Bad # {} PROVE FALSE
  OBVIOUS
<1>2. PICK t \in Bad : \A u \in Bad : Cardinality(t) <= Cardinality(u)
  <2> \A u \in Bad : IsFiniteSet(u)
    BY FS_Subset
  <2> HIDE DEF Bad
  <2> QED BY <1>1, SmallestSet
<1>3. t \in SUBSET T /\ S \subseteq t /\ ~(h[S] <= h[t]) /\ h[t] \in Nat /\ h[S] \in Nat
  BY <1>0, <1>2
<1>4. PICK x \in t : x \notin S
  <2>1. t # S
    BY <1>3
  <2> QED BY <1>3, <2>1
<1> DEFINE r == t \ {x}
<1>5. r \in SUBSET T /\ Cardinality(r) \in Nat /\ Cardinality(t) = Cardinality(r) + 1 /\ S \subseteq r
  BY <1>3, <1>4, OneLess
<1>6. h[t] = e[x] + h[r] /\ e[x] \in Nat
  BY <1>3, <1>4, SumsOfAny DEF Numbers
<1> HIDE DEF r
<1>7. r \notin Bad
  <2> HIDE DEF Bad
  <2> QED BY <1>2, <1>5
<1> QED BY <1>0, <1>3, <1>5, <1>6, <1>7

\* What is proved of sums: they grow with the numbers and with the set, and are
\* the same for the same numbers.
LEMMA SumGrows ==
  ASSUME NEW f, NEW e, NEW S, NEW T, IsFiniteSet(T), S \subseteq T,
         Numbers(f, S), Numbers(e, T), \A x \in S : f[x] <= e[x]
  PROVE  Sum(f, S) <= Sum(e, T) /\ Sum(f, S) \in Nat
<1>0. IsFiniteSet(S)
  BY FS_Subset
<1>1. PICK g : Sums(g, f, S) /\ Sum(f, S) = g[S]
  BY <1>0, SumIsSums
<1>2. PICK h : Sums(h, e, T) /\ Sum(e, T) = h[T]
  BY SumIsSums
<1>3. g[S] \in Nat /\ h[S] \in Nat /\ h[T] \in Nat
  BY <1>0, <1>1, <1>2, SumsTyped
<1>4. g[S] <= h[S]
  BY <1>1, <1>2, SumsOfMore
<1>5. h[S] <= h[T]
  BY <1>2, SumsOfLarger
<1> QED BY <1>1, <1>2, <1>3, <1>4, <1>5

\* The sums of two functions that agree on a set.
LEMMA SumSame ==
  ASSUME NEW f, NEW e, NEW S, IsFiniteSet(S), Numbers(f, S), \A x \in S : f[x] = e[x]
  PROVE  Sum(f, S) = Sum(e, S)
<1>1. Numbers(e, S) /\ \A x \in S : f[x] <= e[x] /\ e[x] <= f[x]
  BY DEF Numbers
<1>2. Sum(f, S) <= Sum(e, S) /\ Sum(f, S) \in Nat
  BY <1>1, SumGrows
<1>3. Sum(e, S) <= Sum(f, S) /\ Sum(e, S) \in Nat
  BY <1>1, SumGrows
<1> QED BY <1>2, <1>3

-----------------------------------------------------------------------------
\* The readings of an attempt: none before it starts, no END before it is
\* terminal, and END is not before START.
Timed(e) ==
  /\ e.state = "PLANNED" => e.start = None /\ e.end = None
  /\ e.state = "RUNNING" => e.start \in Time /\ e.end = None
  /\ e.state \in Terminal => e.end \in Time /\ (e.start # None => e.start \in Time /\ e.start <= e.end)
\* There are finitely many attempts, and each has ended after it started.
Clocked == IsFiniteSet(Planned) /\ \A a \in Planned : Timed(attempts[a])

\* A step adds one attempt at most.
LEMMA NextFinite ==
  ASSUME TypeOK, TypeOK', [Next]_vars
  PROVE  \E a : Planned' \subseteq Planned \cup {a}
<1>1. ASSUME NEW a \in AttemptId, NEW x \in Action, NEW circuit \in Circuit,
             NEW call \in Call, NEW sem \in Semantics,
             NEW parents \in SUBSET AttemptId,
             NEW retry \in AttemptId \cup {None},
             PlanAttempt(a, x, circuit, call, sem, parents, retry)
      PROVE  Planned' \subseteq Planned \cup {a}
  BY <1>1 DEF PlanAttempt, Planned, TypeOK
<1>2. CASE \E a \in AttemptId, x \in Action, circuit \in Circuit, call \in Call,
              sem \in Semantics, parents \in SUBSET AttemptId,
              retry \in AttemptId \cup {None} :
              PlanAttempt(a, x, circuit, call, sem, parents, retry)
  BY <1>1, <1>2
<1>3. CASE ~ \E a \in AttemptId, x \in Action, circuit \in Circuit, call \in Call,
              sem \in Semantics, parents \in SUBSET AttemptId,
              retry \in AttemptId \cup {None} :
              PlanAttempt(a, x, circuit, call, sem, parents, retry)
  <2>1. Planned' \subseteq Planned
    <3> SUFFICES ASSUME NEW b \in Planned', b \notin Planned PROVE FALSE
      OBVIOUS
    <3>1. b \in AttemptId /\ attempts[b] = Absent /\ attempts'[b] # Absent
      BY DEF Planned
    <3>2. ASSUME NEW a \in AttemptId, NEW ns \in Time, StartAttempt(a, ns) PROVE FALSE
      <4>1. a # b
        BY <3>1, <3>2 DEF StartAttempt, Absent
      <4> QED BY <3>1, <3>2, <4>1 DEF StartAttempt, TypeOK
    <3>3. ASSUME NEW a \in AttemptId, NEW o \in Outcomes, NEW ns \in Time, EndAttempt(a, o, ns) PROVE FALSE
      <4>1. a # b
        BY <3>1, <3>3 DEF EndAttempt, Ends, Absent
      <4> QED BY <3>1, <3>3, <4>1 DEF EndAttempt, TypeOK
    <3>4. ~ UNCHANGED attempts
      BY <3>1
    <3> QED BY <1>3, <3>2, <3>3, <3>4 DEF Next, Link, CacheHit, Refer, vars
  <2> QED BY <2>1
<1> QED BY <1>2, <1>3

\* Every step keeps that.
LEMMA NextClocked ==
  ASSUME TypeOK, TypeOK', Clocked, [Next]_vars
  PROVE  Clocked'
<1>1. IsFiniteSet(Planned')
  <2>1. PICK a : Planned' \subseteq Planned \cup {a}
    BY NextFinite
  <2>2. IsFiniteSet(Planned \cup {a})
    BY FS_AddElement DEF Clocked
  <2> QED BY <2>1, <2>2, FS_Subset
<1>2. ASSUME NEW b \in Planned', attempts'[b] = attempts[b] PROVE Timed(attempts'[b])
  BY <1>2 DEF Clocked, Planned
<1>3. ASSUME NEW a \in AttemptId, NEW x \in Action, NEW circuit \in Circuit,
             NEW call \in Call, NEW sem \in Semantics,
             NEW parents \in SUBSET AttemptId,
             NEW retry \in AttemptId \cup {None},
             PlanAttempt(a, x, circuit, call, sem, parents, retry),
             NEW b \in Planned'
      PROVE  Timed(attempts'[b])
  <2>1. CASE b # a
    BY <1>2, <1>3, <2>1 DEF PlanAttempt, TypeOK, Planned
  <2>2. CASE b = a
    <3>1. attempts'[b] =
          [circuit |-> circuit, call |-> call, sem |-> sem, parents |-> parents,
           retry |-> retry, state |-> "PLANNED", start |-> None, end |-> None,
           verified |-> FALSE, artifact |-> None]
      BY <1>3, <2>2 DEF PlanAttempt, TypeOK
    <3> QED BY <3>1 DEF Timed, Terminal
  <2> QED BY <2>1, <2>2
<1>4. ASSUME NEW a \in AttemptId, NEW ns \in Time, StartAttempt(a, ns), NEW b \in Planned'
      PROVE  Timed(attempts'[b])
  <2>1. CASE b # a
    BY <1>2, <1>4, <2>1 DEF StartAttempt, TypeOK, Planned
  <2>2. CASE b = a
    <3>1. attempts[a] \in Attempt /\ a \in Planned
      BY <1>4, PlannedState DEF StartAttempt, State
    <3>2. attempts'[b] = [attempts[a] EXCEPT !.state = "RUNNING", !.start = ns]
      BY <1>4, <2>2 DEF StartAttempt, TypeOK
    <3>3. attempts[a].end = None
      BY <1>4, <3>1 DEF Clocked, Timed, StartAttempt
    <3>4. attempts'[b].state = "RUNNING" /\ attempts'[b].start = ns /\ attempts'[b].end = None
      BY <3>1, <3>2, <3>3 DEF Attempt
    <3> QED BY <3>4 DEF Timed, Terminal
  <2> QED BY <2>1, <2>2
<1>5. ASSUME NEW a \in AttemptId, NEW o \in Outcomes, NEW ns \in Time,
             EndAttempt(a, o, ns), NEW b \in Planned'
      PROVE  Timed(attempts'[b])
  <2>1. CASE b # a
    BY <1>2, <1>5, <2>1 DEF EndAttempt, TypeOK, Planned
  <2>2. CASE b = a
    <3>1. attempts[a] \in Attempt /\ a \in Planned
      BY <1>5, PlannedState DEF EndAttempt, Ends, State
    <3>2. attempts'[b] = [attempts[a] EXCEPT !.state = o.state, !.end = ns,
                             !.verified = o.verified, !.artifact = o.artifact]
      BY <1>5, <2>2 DEF EndAttempt, TypeOK
    <3>3. o.state \in Terminal
      BY OutcomeAssumption DEF Outcome
    <3>4. \/ attempts[a].start \in Time /\ attempts[a].start <= ns
          \/ attempts[a].start = None
      BY <1>5, <3>1 DEF Clocked, Timed, EndAttempt, Ends
    <3>5. attempts'[b].state = o.state /\ attempts'[b].start = attempts[a].start /\ attempts'[b].end = ns
      BY <3>1, <3>2 DEF Attempt
    <3> QED BY <3>3, <3>4, <3>5 DEF Timed, Terminal
  <2> QED BY <2>1, <2>2
<1>6. ASSUME UNCHANGED attempts, NEW b \in Planned' PROVE Timed(attempts'[b])
  BY <1>2, <1>6
<1>7. \A b \in Planned' : Timed(attempts'[b])
  BY <1>3, <1>4, <1>5, <1>6 DEF Next, Link, CacheHit, Refer, vars
<1>8. \A b \in Planned' : Timed(attempts[b])' 
  BY <1>7 DEF Timed
<1> QED BY <1>1, <1>8 DEF Clocked

-----------------------------------------------------------------------------
\* What is planned is a closed set that holds all references.
LEMMA PlannedIsClosed ==
  ASSUME Inv, NEW X \in SUBSET Action
  PROVE  Referred(X) \subseteq Planned /\ Closed(Planned)
BY DEF Inv, Charged, Rooted, Referred, Closed

\* References are only added, and prerequisites stay.
LEMMA ReferencesStay ==
  ASSUME TypeOK, [Next]_vars, NEW X \in SUBSET Action
  PROVE  Referred(X) \subseteq Referred(X)'
<1> DEFINE Stay == \A y \in Action : refs[y] \subseteq refs'[y]
<1>1. \A x \in Action, a \in AttemptId : refs' = [refs EXCEPT ![x] = @ \cup {a}] => Stay
  BY DEF TypeOK
<1>2. UNCHANGED refs => Stay
  OBVIOUS
<1>3. Stay => Referred(X) \subseteq Referred(X)'
  BY DEF Referred
<1> HIDE DEF Stay
<1>4. ASSUME NEW a \in AttemptId, NEW x \in Action, NEW circuit \in Circuit,
             NEW call \in Call, NEW sem \in Semantics,
             NEW parents \in SUBSET AttemptId,
             NEW retry \in AttemptId \cup {None},
             PlanAttempt(a, x, circuit, call, sem, parents, retry)
      PROVE  Stay
  BY <1>1, <1>4 DEF PlanAttempt
<1>5. ASSUME NEW a \in AttemptId, NEW x \in Action, Refer(x, a) PROVE Stay
  BY <1>1, <1>5 DEF Refer
<1> QED BY <1>2, <1>3, <1>4, <1>5 DEF Next, StartAttempt, EndAttempt, Link, CacheHit, vars

\* An attempt that is planned keeps its prerequisites.
LEMMA PrerequisitesStay ==
  ASSUME TypeOK, TypeOK', [Next]_vars, NEW b \in Planned
  PROVE  Prerequisites(b)' = Prerequisites(b) /\ b \in Planned'
BY PlansKept DEF Kept, Prerequisites

\* A lineage never loses an attempt, and gains none without a new reference.
LEMMA LineageGrows ==
  ASSUME Inv, TypeOK', [Next]_vars, NEW X \in SUBSET Action
  PROVE  Lineage(X) \subseteq Lineage(X)'
<1> TypeOK
  BY DEF Inv
<1>1. \A a \in Lineage(X) : a \in Planned /\ a \in Planned'
  BY PrerequisitesStay DEF Lineage
<1> SUFFICES ASSUME NEW a \in Lineage(X),
                    NEW S \in SUBSET (Planned'), Referred(X)' \subseteq S, Closed(S)'
             PROVE  a \in S
  BY <1>1 DEF Lineage
<1> DEFINE T == S \cap Planned
<1>2. Referred(X) \subseteq T
  BY PlannedIsClosed, ReferencesStay
<1>3. Closed(T)
  <2> SUFFICES ASSUME NEW b \in T PROVE Prerequisites(b) \subseteq T
    BY DEF Closed
  <2>1. Prerequisites(b) \subseteq Planned
    BY PlannedIsClosed DEF Closed
  <2>2. Prerequisites(b)' \subseteq S
    BY DEF Closed
  <2>3. Prerequisites(b)' = Prerequisites(b)
    BY PrerequisitesStay
  <2> QED BY <2>1, <2>2, <2>3
<1>4. Lineage(X) \subseteq T
  BY <1>2, <1>3, LineageIsLeast
<1> QED BY <1>4

\* The lineage of actions that refer to the same attempts stays the same.
LEMMA LineageStays ==
  ASSUME Inv, TypeOK', [Next]_vars, NEW X \in SUBSET Action, Referred(X)' = Referred(X)
  PROVE  Lineage(X)' = Lineage(X)
<1> TypeOK
  BY DEF Inv
<1>1. SUFFICES Lineage(X)' \subseteq Lineage(X)
  BY LineageGrows
<1>2. ASSUME NEW S \in SUBSET Planned, Referred(X) \subseteq S, Closed(S)
      PROVE  Lineage(X)' \subseteq S
  <2>1. S \in SUBSET (Planned')
    BY PrerequisitesStay
  <2>2. Closed(S)'
    <3> SUFFICES ASSUME NEW b \in S PROVE Prerequisites(b)' \subseteq S
      BY DEF Closed
    <3> QED BY <1>2, PrerequisitesStay DEF Closed
  <2> QED BY <1>2, <2>1, <2>2 DEF Lineage
<1>3. Lineage(X)' \subseteq Planned
  BY <1>2, PlannedIsClosed
<1> QED BY <1>2, <1>3 DEF Lineage

\* A timed attempt took a number of ticks, and has no END unless it is terminal.
LEMMA TimedTakes ==
  ASSUME NEW e \in Attempt, Timed(e)
  PROVE  /\ e.start # None /\ e.end # None => e.end - e.start \in Nat
         /\ e.state \notin Terminal => e.end = None
<1>1. e.state \notin Terminal => e.end = None
  BY DEF Timed, Attempt, State
<1>2. ASSUME e.start # None, e.end # None PROVE e.end - e.start \in Nat
  <2>1. e.start \in Time /\ e.end \in Time /\ e.start <= e.end
    BY <1>1, <1>2 DEF Timed
  <2>2. e.start \in Nat /\ e.end \in Nat
    BY <2>1, LedgerAssumption
  <2> QED BY <2>1, <2>2
<1> QED BY <1>1, <1>2

\* What an attempt took is a number, never shrinks, and is settled once it has ended.
LEMMA ElapsedGrows ==
  ASSUME TypeOK, TypeOK', Clocked, Clocked', [Next]_vars, NEW b \in Planned
  PROVE  /\ Elapsed(b) \in Nat /\ Elapsed(b)' \in Nat
         /\ Elapsed(b) <= Elapsed(b)'
         /\ attempts[b].end # None => attempts'[b] = attempts[b]
<1>1. Kept(b)
  BY PlansKept
<1>2. attempts[b] \in Attempt /\ attempts'[b] \in Attempt
  BY <1>1, PlannedState DEF Kept, Planned, TypeOK
<1>3. Timed(attempts[b]) /\ Timed(attempts'[b])
  <2>1. Timed(attempts[b])
    BY DEF Clocked
  <2>2. \A c \in Planned' : Timed(attempts[c])'
    BY DEF Clocked
  <2>3. Timed(attempts'[b])
    BY <1>1, <2>2 DEF Kept, Timed
  <2> QED BY <2>1, <2>3
<1>5. Elapsed(b) \in Nat /\ Elapsed(b)' \in Nat
  BY <1>2, <1>3, TimedTakes DEF Elapsed
<1>6. CASE attempts[b].state \in Terminal
  <2>1. attempts'[b] = attempts[b]
    BY <1>1, <1>6 DEF Kept
  <2>2. Elapsed(b)' = Elapsed(b)
    BY <2>1 DEF Elapsed
  <2> QED BY <1>5, <2>1, <2>2
<1>7. CASE attempts[b].state \notin Terminal
  <2>1. attempts[b].end = None
    BY <1>2, <1>3, <1>7, TimedTakes
  <2>2. Elapsed(b) = 0
    BY <2>1 DEF Elapsed
  <2> QED BY <1>5, <2>1, <2>2
<1> QED BY <1>6, <1>7

\* What each attempt took.
Took == [a \in AttemptId |-> Elapsed(a)]

\* The cost of actions is the sum of what the attempts of their lineage took.
LEMMA CostIsSum ==
  ASSUME NEW X
  PROVE  Cost(X) = Sum(Took, Lineage(X))
BY DEF Cost, Sum, Took

\* What a step may do to the cost of a set of actions.
LEMMA StepCost ==
  ASSUME Inv, Inv', Clocked, Clocked', [Next]_vars, NEW X \in SUBSET Action
  PROVE  /\ Cost(X) <= Cost(X)'
         /\ CompleteCost(X) /\ Referred(X)' = Referred(X) => CompleteCost(X)' /\ Cost(X)' = Cost(X)
<1> TypeOK /\ TypeOK'
  BY DEF Inv
<1> DEFINE L == Lineage(X)
           M == Lineage(X)'
           f == Took
           e == Took'
<1>1. Cost(X) = Sum(f, L)
  BY CostIsSum
<1>2. Cost(X)' = Sum(e, M)
  BY DEF Cost, Sum, Took, FoldFunctionOnSet, MapThenFoldSet
<1>3. L \subseteq M /\ L \subseteq Planned /\ M \subseteq Planned'
  BY LineageGrows DEF Lineage
<1>4. IsFiniteSet(L) /\ IsFiniteSet(M)
  BY <1>3, FS_Subset DEF Clocked
<1>5. \A a \in Planned : f[a] = Elapsed(a) /\ e[a] = Elapsed(a)' /\ f[a] \in Nat /\ f[a] <= e[a]
  BY ElapsedGrows DEF Took, Planned
<1>6. \A a \in Planned' : e[a] \in Nat
  <2> SUFFICES ASSUME NEW a \in Planned' PROVE e[a] \in Nat
    OBVIOUS
  <2>1. e[a] = Elapsed(a)'
    BY DEF Took, Planned
  <2>2. attempts'[a] \in Attempt
    BY DEF Planned, TypeOK
  <2>3. Timed(attempts'[a])
    BY DEF Clocked, Timed
  <2> QED BY <2>1, <2>2, <2>3, TimedTakes DEF Elapsed
<1>7. Numbers(f, L) /\ Numbers(e, M) /\ \A a \in L : f[a] <= e[a]
  BY <1>3, <1>5, <1>6 DEF Numbers
<1> HIDE DEF L, M, f, e
<1>8. Sum(f, L) <= Sum(e, M)
  BY <1>3, <1>4, <1>7, SumGrows
<1>9. ASSUME CompleteCost(X), Referred(X)' = Referred(X)
      PROVE  CompleteCost(X)' /\ Cost(X)' = Cost(X)
  <2>1. M = L
    BY <1>9, LineageStays DEF L, M
  <2>2. \A a \in L : attempts'[a] = attempts[a] /\ attempts[a].end # None /\ attempts[a].verified
    BY <1>3, <1>9, ElapsedGrows DEF CompleteCost, L
  <2>3. \A a \in L : e[a] = f[a]
    <3> SUFFICES ASSUME NEW a \in L PROVE e[a] = f[a]
      OBVIOUS
    <3>1. Elapsed(a)' = Elapsed(a)
      BY <2>2 DEF Elapsed
    <3> QED BY <1>3, <1>5, <3>1
  <2>4. Sum(e, L) = Sum(f, L)
    BY <1>4, <1>7, <2>3, SumSame
  <2>5. CompleteCost(X)'
    BY <2>1, <2>2 DEF CompleteCost, L, M
  <2> QED BY <1>1, <1>2, <2>1, <2>4, <2>5
<1> QED BY <1>1, <1>2, <1>8, <1>9

\* Whatever is planned, started, ended, linked or taken from the cache: no cost
\* ever shrinks, and that of complete actions is final until one of them refers
\* to another attempt.
THEOREM CostsAreFinal == Spec => CostIsFinal
<1>1. Init => Clocked
  <2> SUFFICES ASSUME Init PROVE Clocked
    OBVIOUS
  <2>1. Planned = {}
    BY DEF Init, Planned
  <2> QED BY <2>1, FS_EmptySet DEF Clocked
<1>2. Inv /\ Inv' /\ Clocked /\ [Next]_vars => Clocked'
  BY NextClocked DEF Inv
<1>3. Inv /\ Inv' /\ Clocked /\ Clocked' /\ [Next]_vars =>
        [\A X \in SUBSET Action :
           /\ Cost(X) <= Cost(X)'
           /\ CompleteCost(X) /\ Referred(X)' = Referred(X) =>
                 CompleteCost(X)' /\ Cost(X)' = Cost(X)]_vars
  BY StepCost
<1> QED BY <1>1, <1>2, <1>3, LedgerInvariant, PTL DEF Spec, CostIsFinal

-----------------------------------------------------------------------------
\* The row of the append under way, as of the published ledger.
NewRow == [after |-> ledger, event |-> event]

\* That row passes from the buffer to the file and to stable storage.
RowOnItsWay ==
  /\ pc = "flush" /\ open => \E n \in 1 .. Len(buffer) : buffer[n] = NewRow
  /\ pc = "fsync" /\ open => \E n \in 1 .. Len(disk) : disk[n] = NewRow
  /\ pc \in {"adopt", "recheck"} => \E n \in 1 .. synced : disk[n] = NewRow

\* The inductive invariant of what is on stable storage.
StableInv == JTypeOK /\ RowOnItsWay /\ PublishedOnStableStorage

\* Each of the rows follows the ones before it.
Follow(rows) ==
  \A i \in 1 .. Len(rows) : rows[i].after = Events(SubSeq(rows, 1, i - 1))

\* The file has such rows, and the published events come first.
Chained ==
  /\ Follow(disk)
  /\ Len(ledger) <= synced
  /\ \A i \in 1 .. Len(ledger) : disk[i].event = ledger[i]

\* How far the file and the buffer are ahead of the ledger, by the step of an
\* append, as long as none was interrupted; a file with a torn end gets no
\* more rows.
Ahead ==
  /\ pc # "idle" /\ open => ~torn
  /\ pc = "idle" /\ open /\ ~poisoned =>
        Len(disk) = Len(ledger) /\ buffer = <<>> /\ ~torn
  /\ pc \in {"check", "write"} /\ open =>
        Len(disk) = Len(ledger) /\ buffer = <<>>
  /\ pc = "flush" /\ open => Len(disk) = Len(ledger) /\ buffer = <<NewRow>>
  /\ pc \in {"fsync", "adopt", "recheck"} /\ open =>
        /\ Len(disk) = Len(ledger) + 1
        /\ disk[Len(ledger) + 1] = NewRow
        /\ buffer = <<>>
  /\ pc \in {"adopt", "recheck"} /\ open => synced = Len(disk)
  /\ buffer # <<>> => /\ Len(disk) = Len(ledger)
                      /\ \E e \in Event :
                            buffer = <<[after |-> ledger, event |-> e]>>

\* And of what a reader makes of the file.
LoadInv == StableInv /\ (~interrupted => Chained /\ Ahead)

\* A created journal has no rows.
LEMMA JournalInit == JInit => LoadInv
<1> SUFFICES ASSUME JInit PROVE LoadInv
  OBVIOUS
<1>1. /\ ledger = <<>> /\ buffer = <<>> /\ disk = <<>> /\ synced = 0
      /\ size = 0 /\ pc = "idle" /\ open = TRUE /\ torn = FALSE
      /\ Len(ledger) = 0 /\ Len(disk) = 0
  BY DEF JInit
<1>2. JTypeOK
  <2>1. ledger \in Seq(Event) /\ buffer \in Seq(Row) /\ disk \in Seq(Row)
    BY <1>1
  <2>2. /\ poisoned \in BOOLEAN /\ open \in BOOLEAN /\ torn \in BOOLEAN
        /\ changed \in BOOLEAN /\ interrupted \in BOOLEAN /\ event \in Event
    BY DEF JInit
  <2> QED
    BY <1>1, <2>1, <2>2 DEF JTypeOK
<1>3. RowOnItsWay /\ PublishedOnStableStorage
  BY <1>1 DEF RowOnItsWay, PublishedOnStableStorage
<1>4. Chained /\ Ahead
  BY <1>1 DEF Chained, Follow, Ahead
<1> QED
  BY <1>2, <1>3, <1>4 DEF LoadInv, StableInv

\* The types; a file never gets shorter than the journal takes it for.
LEMMA JournalTypes ==
  ASSUME JTypeOK, [JNext]_jvars
  PROVE  JTypeOK'
<1> USE DEF JTypeOK
<1>1. CASE \E e \in Event : Begin(e)
  BY <1>1 DEF Begin, ram, store
<1>2. CASE Check
  BY <1>2 DEF Check, ram, store
<1>10. CASE Fsync
  BY <1>10 DEF Fsync, ram
<1>11. CASE Adopt
  <2>1. /\ size' = size + 1 /\ Len(disk) = size + 1 /\ changed' \in BOOLEAN
        /\ pc' = "recheck"
        /\ UNCHANGED <<ledger, poisoned, open, event, buffer, disk, torn,
                       synced, interrupted>>
    BY <1>11 DEF Adopt, store
  <2> QED
    BY <2>1
<1>3. CASE Write
  <2>1. NewRow \in Row
    BY DEF NewRow, Row
  <2> QED
    BY <1>3, <2>1 DEF Write, NewRow, ram
<1>4. CASE Flush
  <2>1. /\ disk' = disk \o buffer /\ buffer' = <<>>
        /\ disk' \in Seq(Row) /\ buffer' \in Seq(Row)
        /\ Len(disk') = Len(disk) + Len(buffer)
    BY <1>4 DEF Flush
  <2> QED
    BY <1>4, <2>1 DEF Flush, ram
<1>5. CASE Publish
  BY <1>5 DEF Publish, store
<1>6. CASE Fails
  <2>1. torn' \in BOOLEAN
    BY <1>6 DEF Fails
  <2> QED
    BY <1>6, <2>1 DEF Fails
<1>12. CASE Interrupt
  BY <1>12 DEF Interrupt, ram, store
<1>13. CASE Aggregate \/ Interfere
  <2>1. /\ poisoned' \in BOOLEAN /\ changed' \in BOOLEAN
        /\ UNCHANGED <<ledger, open, size, pc, event, buffer, disk, torn,
                       synced, interrupted>>
    BY <1>13 DEF Aggregate, Interfere, ram, store
  <2> QED
    BY <2>1
<1>7. CASE Close
  <2>1. /\ disk' = disk \o buffer \/ disk' = disk
        /\ disk' \in Seq(Row) /\ buffer' = <<>> /\ buffer' \in Seq(Row)
        /\ Len(disk) <= Len(disk')
    BY <1>7 DEF Close
  <2>2. /\ open' = FALSE
        /\ UNCHANGED <<ledger, poisoned, size, pc, event, torn, synced, changed,
                       interrupted>>
    BY <1>7 DEF Close
  <2>3. synced \in 0 .. Len(disk')
    BY <2>1
  <2> QED
    BY <2>1, <2>2, <2>3
<1>8. CASE Stop
  <2>1. PICK n \in synced .. Len(disk) :
           /\ disk' = SubSeq(disk, 1, n)
           /\ torn' \in IF torn \/ n < Len(disk) THEN BOOLEAN ELSE {FALSE}
    BY <1>8 DEF Stop
  <2>2. disk' \in Seq(Row) /\ Len(disk') = n
    BY <2>1
  <2>3. torn' \in BOOLEAN
    BY <2>1
  <2>4. /\ buffer' \in Seq(Row) /\ open' = FALSE /\ pc' = "idle"
        /\ UNCHANGED <<ledger, poisoned, size, event, synced, changed,
                       interrupted>>
    <3>1. buffer' = <<>>
      BY <1>8 DEF Stop
    <3> QED
      BY <1>8, <3>1 DEF Stop
  <2>5. synced \in 0 .. Len(disk')
    BY <2>1, <2>2
  <2> QED
    BY <2>2, <2>3, <2>4, <2>5
<1>9. CASE UNCHANGED jvars
  BY <1>9 DEF jvars, ram, store
<1> QED
  BY <1>1, <1>2, <1>3, <1>4, <1>5, <1>6, <1>7, <1>8, <1>9, <1>10, <1>11,
     <1>12, <1>13 DEF JNext

\* No step takes a synced row out of the file, or changes one that stays.
LEMMA SyncedRowsStay ==
  ASSUME JTypeOK, [JNext]_jvars
  PROVE  /\ synced <= synced'
         /\ \A n \in 1 .. synced : disk'[n] = disk[n]
<1>1. synced <= synced'
  <2>1. synced' = synced \/ synced' = Len(disk)
    BY DEF JNext, Begin, Check, Write, Flush, Fsync, Adopt, Publish, Fails,
           Interrupt, Aggregate, Close, Interfere, Stop, jvars, store
  <2> QED
    BY <2>1 DEF JTypeOK
<1>2. \/ disk' = disk
      \/ disk' = disk \o buffer
      \/ \E n \in synced .. Len(disk) : disk' = SubSeq(disk, 1, n)
  BY DEF JNext, Begin, Check, Write, Flush, Fsync, Adopt, Publish,
         Fails, Interrupt, Aggregate, Close, Interfere, Stop, jvars, store
<1>3. \A n \in 1 .. synced : disk'[n] = disk[n]
  BY <1>2 DEF JTypeOK
<1> QED
  BY <1>1, <1>3

\* The row of an append stays where it got to, and a failure ends the append.
LEMMA RowMoves ==
  ASSUME JTypeOK, RowOnItsWay, [JNext]_jvars
  PROVE  RowOnItsWay'
<1> USE DEF RowOnItsWay
<1>1. CASE pc' = "idle"
  BY <1>1
<1>2. CASE (\E e \in Event : Begin(e)) \/ Check
  BY <1>2 DEF Begin, Check
<1>3. CASE Write
  <2>1. /\ buffer' = Append(buffer, NewRow) /\ pc' = "flush"
        /\ UNCHANGED <<ledger, event>>
    BY <1>3 DEF Write, NewRow, ram
  <2>2. /\ Len(buffer) + 1 \in 1 .. Len(buffer')
        /\ buffer'[Len(buffer) + 1] = NewRow
    BY <2>1 DEF JTypeOK
  <2> QED
    BY <2>1, <2>2 DEF NewRow
<1>4. CASE Flush
  <2>1. /\ disk' = disk \o buffer /\ pc' = "fsync"
        /\ pc = "flush" /\ open /\ UNCHANGED <<ledger, event>>
    BY <1>4 DEF Flush, ram
  <2>2. PICK n \in 1 .. Len(buffer) : buffer[n] = NewRow
    BY <2>1
  <2>3. /\ Len(disk) + n \in 1 .. Len(disk')
        /\ disk'[Len(disk) + n] = NewRow
    BY <2>1, <2>2 DEF JTypeOK
  <2> QED
    BY <2>1, <2>3 DEF NewRow
<1>5. CASE Fsync
  BY <1>5 DEF Fsync, ram, NewRow, JTypeOK
<1>6. CASE Adopt
  BY <1>6 DEF Adopt, store, NewRow
<1>7. CASE Close
  <2>1. /\ open' = FALSE /\ UNCHANGED <<pc, ledger, event, synced>>
    BY <1>7 DEF Close
  <2>2. \A n \in 1 .. synced : disk'[n] = disk[n]
    BY SyncedRowsStay
  <2> QED
    BY <2>1, <2>2 DEF NewRow
<1>8. CASE Aggregate \/ Interfere \/ UNCHANGED jvars
  <2>1. UNCHANGED <<pc, ledger, event, open, buffer, disk, synced>>
    BY <1>8 DEF Aggregate, Interfere, jvars, ram, store
  <2> QED
    BY <2>1 DEF NewRow
<1> QED
  BY <1>1, <1>2, <1>3, <1>4, <1>5, <1>6, <1>7, <1>8
     DEF JNext, Publish, Fails, Interrupt, Stop

\* An event is published when its row is synced, and its row stays.
LEMMA PublishedStay ==
  ASSUME JTypeOK, RowOnItsWay, PublishedOnStableStorage, [JNext]_jvars
  PROVE  PublishedOnStableStorage'
<1>1. /\ synced \in Nat /\ synced' \in Nat /\ synced <= synced'
      /\ \A n \in 1 .. synced : disk'[n] = disk[n]
  BY JournalTypes, SyncedRowsStay DEF JTypeOK
<1>2. CASE ledger' = ledger
  <2> SUFFICES ASSUME NEW i \in 1 .. Len(ledger)
               PROVE  \E n \in 1 .. synced' :
                         disk'[n] = [after |-> SubSeq(ledger, 1, i - 1),
                                     event |-> ledger[i]]
    BY <1>2 DEF PublishedOnStableStorage
  <2>1. PICK n \in 1 .. synced :
           disk[n] = [after |-> SubSeq(ledger, 1, i - 1),
                      event |-> ledger[i]]
    BY DEF PublishedOnStableStorage
  <2> QED
    BY <1>1, <2>1
<1>3. CASE Publish
  <2>1. /\ ledger' = Append(ledger, event) /\ pc = "recheck"
    BY <1>3 DEF Publish
  <2>2. ledger \in Seq(Event) /\ event \in Event
    BY DEF JTypeOK
  <2>3. ASSUME NEW i \in 1 .. Len(ledger')
        PROVE  \E n \in 1 .. synced' :
                  disk'[n] = [after |-> SubSeq(ledger', 1, i - 1),
                              event |-> ledger'[i]]
    <3>1. CASE i \in 1 .. Len(ledger)
      <4>1. PICK n \in 1 .. synced :
               disk[n] = [after |-> SubSeq(ledger, 1, i - 1),
                          event |-> ledger[i]]
        BY <3>1 DEF PublishedOnStableStorage
      <4>2. /\ SubSeq(ledger', 1, i - 1) = SubSeq(ledger, 1, i - 1)
            /\ ledger'[i] = ledger[i]
        BY <2>1, <2>2, <3>1
      <4> QED
        BY <1>1, <4>1, <4>2
    <3>2. CASE i = Len(ledger) + 1
      <4>1. SubSeq(ledger', 1, i - 1) = ledger /\ ledger'[i] = event
        BY <2>1, <2>2, <3>2
      <4>2. PICK n \in 1 .. synced : disk[n] = NewRow
        BY <2>1 DEF RowOnItsWay
      <4> QED
        BY <1>1, <4>1, <4>2 DEF NewRow
    <3>3. Len(ledger') = Len(ledger) + 1 /\ Len(ledger) \in Nat
      BY <2>1, <2>2
    <3>4. i \in 1 .. Len(ledger) \/ i = Len(ledger) + 1
      BY <3>3
    <3> QED
      BY <3>1, <3>2, <3>4
  <2> QED
    BY <2>3 DEF PublishedOnStableStorage
<1>4. ledger' = ledger \/ Publish
  <2>1. CASE (\E e \in Event : Begin(e)) \/ Check \/ Write
    BY <2>1 DEF Begin, Check, Write, ram
  <2>2. CASE Flush \/ Fsync \/ Adopt
    BY <2>2 DEF Flush, Fsync, Adopt, ram
  <2>3. CASE Fails \/ Interrupt
    BY <2>3 DEF Fails, Interrupt, ram
  <2>4. CASE Aggregate \/ Close \/ Interfere
    BY <2>4 DEF Aggregate, Close, Interfere, ram
  <2>5. CASE Stop \/ UNCHANGED jvars
    BY <2>5 DEF Stop, jvars, ram
  <2> QED
    BY <2>1, <2>2, <2>3, <2>4, <2>5 DEF JNext
<1> QED
  BY <1>2, <1>3, <1>4


\* A sequence with one more element.
LEMMA OneMore ==
  ASSUME NEW S, NEW rows \in Seq(S), NEW end \in Seq(S), Len(end) = 1
  PROVE  /\ rows \o end \in Seq(S)
         /\ Len(rows \o end) = Len(rows) + 1
         /\ (rows \o end)[Len(rows) + 1] = end[1]
         /\ \A i \in 1 .. Len(rows) : (rows \o end)[i] = rows[i]
<1>1. /\ rows \o end \in Seq(S)
      /\ Len(rows \o end) = Len(rows) + Len(end)
      /\ \A i \in 1 .. Len(rows) + Len(end) :
            (rows \o end)[i] = IF i <= Len(rows) THEN rows[i]
                                                 ELSE end[i - Len(rows)]
  BY ConcatProperties
<1>2. Len(rows) \in Nat /\ Len(rows) + 1 - Len(rows) = 1
  OBVIOUS
<1>3. (rows \o end)[Len(rows) + 1] = end[Len(rows) + 1 - Len(rows)]
  BY <1>1, <1>2
<1> QED
  BY <1>1, <1>2, <1>3

\* A row that follows the ledger may be added to a file that is not ahead.
LEMMA FollowOnAppend ==
  ASSUME JTypeOK, Chained, Len(disk) = Len(ledger), NEW e \in Event,
         NEW rows, rows = disk \o <<[after |-> ledger, event |-> e]>>
  PROVE  /\ Follow(rows)
         /\ Len(rows) = Len(ledger) + 1
         /\ rows[Len(ledger) + 1] = [after |-> ledger, event |-> e]
         /\ \A i \in 1 .. Len(disk) : rows[i] = disk[i]
<1> USE DEF JTypeOK
<1>1. [after |-> ledger, event |-> e] \in Row
  BY DEF Row
<1>2. /\ rows \in Seq(Row)
      /\ Len(rows) = Len(ledger) + 1
      /\ rows[Len(ledger) + 1] = [after |-> ledger, event |-> e]
      /\ \A i \in 1 .. Len(disk) : rows[i] = disk[i]
  <2> DEFINE end == <<[after |-> ledger, event |-> e]>>
  <2>1. end \in Seq(Row) /\ Len(end) = 1
        /\ end[1] = [after |-> ledger, event |-> e]
    BY <1>1
  <2>2. rows = disk \o end
    OBVIOUS
  <2>3. disk \in Seq(Row)
    OBVIOUS
  <2> HIDE DEF end, JTypeOK
  <2>4. /\ rows \in Seq(Row)
        /\ Len(rows) = Len(disk) + 1
        /\ rows[Len(disk) + 1] = end[1]
        /\ \A i \in 1 .. Len(disk) : rows[i] = disk[i]
    BY <2>1, <2>2, <2>3, OneMore
  <2> QED
    BY <2>1, <2>4
<1>3. Events(disk) = ledger
  BY DEF Events, Chained
<1>4. ASSUME NEW i \in 1 .. Len(rows)
      PROVE  rows[i].after = Events(SubSeq(rows, 1, i - 1))
  <2>1. SubSeq(rows, 1, i - 1) = SubSeq(disk, 1, i - 1)
    BY <1>2
  <2>4. Len(disk) \in Nat /\ disk \in Seq(Row)
    OBVIOUS
  <2>2. CASE i \in 1 .. Len(disk)
    BY <1>2, <2>1, <2>2 DEF Chained, Follow
  <2>3. CASE i = Len(ledger) + 1
    <3>1. SubSeq(disk, 1, i - 1) = disk
      BY <2>3, <2>4
    <3>2. SubSeq(rows, 1, i - 1) = disk
      BY <2>1, <3>1
    <3>3. rows[i].after = ledger
      BY <1>2, <2>3
    <3> HIDE DEF JTypeOK
    <3> QED
      BY <1>3, <3>2, <3>3
  <2> QED
    BY <1>2, <2>2, <2>3
<1> QED
  BY <1>2, <1>4 DEF Follow

\* So may the last rows be lost.
LEMMA FollowOnLoss ==
  ASSUME JTypeOK, Follow(disk), NEW n \in 0 .. Len(disk)
  PROVE  /\ Follow(SubSeq(disk, 1, n))
         /\ \A i \in 1 .. n : SubSeq(disk, 1, n)[i] = disk[i]
<1>1. /\ SubSeq(disk, 1, n) \in Seq(Row)
      /\ Len(SubSeq(disk, 1, n)) = n
      /\ \A i \in 1 .. n : SubSeq(disk, 1, n)[i] = disk[i]
  BY DEF JTypeOK
<1>2. ASSUME NEW i \in 1 .. n
      PROVE  SubSeq(SubSeq(disk, 1, n), 1, i - 1) = SubSeq(disk, 1, i - 1)
  BY DEF JTypeOK
<1> HIDE DEF JTypeOK
<1> DEFINE rows == SubSeq(disk, 1, n)
<1>3. ASSUME NEW i \in 1 .. n
      PROVE  rows[i].after = Events(SubSeq(rows, 1, i - 1))
  <2>1. i \in 1 .. Len(disk)
    BY DEF JTypeOK
  <2>2. disk[i].after = Events(SubSeq(disk, 1, i - 1))
    BY <2>1 DEF Follow
  <2>3. rows[i] = disk[i]
    BY <1>1
  <2>4. SubSeq(rows, 1, i - 1) = SubSeq(disk, 1, i - 1)
    BY <1>2
  <2> HIDE DEF rows
  <2> QED
    BY <2>2, <2>3, <2>4
<1> QED
  BY <1>1, <1>3 DEF Follow

\* The history of interrupts is never taken back.
LEMMA OnlyInterrupts ==
  ASSUME JTypeOK, [JNext]_jvars, ~interrupted'
  PROVE  ~interrupted
<1>1. interrupted' = interrupted \/ interrupted' = TRUE
  <2>1. interrupted' = interrupted \/ Interrupt
    BY DEF JNext, Begin, Check, Write, Flush, Fsync, Adopt, Publish, Fails,
           Aggregate, Close, Interfere, Stop, jvars
  <2> QED
    BY <2>1 DEF Interrupt
<1> QED
  BY <1>1

\* The rows stay chained, and the published events first.
LEMMA ChainKept ==
  ASSUME LoadInv, [JNext]_jvars, ~interrupted'
  PROVE  Chained'
<1> USE DEF StableInv, LoadInv
<1>1. ~interrupted /\ Chained /\ Ahead
  BY OnlyInterrupts
<1>2. /\ JTypeOK /\ JTypeOK'
      /\ synced \in Nat /\ synced' \in Nat /\ synced <= synced'
      /\ \A n \in 1 .. synced : disk'[n] = disk[n]
      /\ Len(ledger) \in Nat
  BY JournalTypes, SyncedRowsStay DEF JTypeOK
<1>3. ASSUME ledger' = ledger, Follow(disk')
      PROVE  Chained'
  <2> HIDE DEF LoadInv, StableInv
  <2>1. Follow(disk)'
    BY <1>3 DEF Follow, Events
  <2>2. Len(ledger) <= synced /\ \A i \in 1 .. Len(ledger) : disk[i].event = ledger[i]
    BY <1>1 DEF Chained
  <2>3. Len(ledger) <= synced' /\ \A i \in 1 .. Len(ledger) : disk'[i] = disk[i]
    BY <1>2, <2>2
  <2>4. Len(ledger') <= synced' /\ \A i \in 1 .. Len(ledger') : disk'[i].event = ledger'[i]
    BY <1>3, <2>2, <2>3
  <2> QED
    BY <2>1, <2>4 DEF Chained
<1>4. CASE UNCHANGED <<ledger, disk>>
  BY <1>1, <1>3, <1>4 DEF Chained
<1>5. CASE Flush \/ Close
  <2>1. /\ ledger' = ledger
        /\ disk' = disk \/ disk' = disk \o buffer
    BY <1>5 DEF Flush, Close, ram
  <2>2. CASE buffer = <<>>
    <3>1. disk' = disk
      BY <2>1, <2>2, <1>2 DEF JTypeOK
    <3> QED
      BY <2>1, <3>1, <1>4
  <2>3. CASE buffer # <<>> /\ disk' = disk \o buffer
    <3>1. PICK e \in Event : /\ Len(disk) = Len(ledger)
                             /\ buffer = <<[after |-> ledger, event |-> e]>>
      BY <1>1, <2>3 DEF Ahead
    <3>2. Follow(disk')
      BY <1>1, <1>2, <2>3, <3>1, FollowOnAppend
    <3> QED
      BY <2>1, <3>2, <1>3
  <2> QED
    BY <2>1, <2>2, <2>3, <1>4
<1>6. CASE Stop
  <2>1. PICK n \in synced .. Len(disk) : disk' = SubSeq(disk, 1, n)
    BY <1>6 DEF Stop
  <2>2. Follow(disk')
    BY <1>1, <1>2, <2>1, FollowOnLoss DEF Chained, JTypeOK
  <2>3. ledger' = ledger
    BY <1>6 DEF Stop
  <2> QED
    BY <2>2, <2>3, <1>3
<1>7. CASE Publish
  <2>1. /\ ledger' = Append(ledger, event)
        /\ UNCHANGED <<disk, synced>>
        /\ pc = "recheck" /\ open
    BY <1>7 DEF Publish, Own, store
  <2>2. /\ Len(disk) = Len(ledger) + 1 /\ synced = Len(disk)
        /\ disk[Len(ledger) + 1].event = event
    BY <1>1, <2>1 DEF Ahead, NewRow
  <2>3. /\ Len(ledger') = Len(ledger) + 1
        /\ ledger'[Len(ledger) + 1] = event
        /\ \A i \in 1 .. Len(ledger) : ledger'[i] = ledger[i]
    BY <1>2, <2>1 DEF JTypeOK
  <2>4. \A i \in 1 .. Len(ledger') : disk'[i].event = ledger'[i]
    BY <1>1, <1>2, <2>1, <2>2, <2>3 DEF Chained
  <2>5. Follow(disk')
    BY <1>1, <2>1 DEF Chained
  <2>6. Len(ledger') <= synced'
    BY <1>2, <2>1, <2>2, <2>3
  <2> QED
    BY <2>4, <2>5, <2>6 DEF Chained, Follow, Events
<1> QED
  BY <1>4, <1>5, <1>6, <1>7
     DEF JNext, Begin, Check, Write, Fsync, Adopt, Fails, Interrupt,
         Aggregate, Interfere, jvars, ram, store

\* Neither the file nor the buffer gets further ahead than its step allows.
LEMMA AheadKept ==
  ASSUME LoadInv, [JNext]_jvars, ~interrupted'
  PROVE  Ahead'
<1> USE DEF StableInv, LoadInv
<1>1. ~interrupted /\ Chained /\ Ahead /\ JTypeOK
  BY OnlyInterrupts
<1>2. CASE \E e \in Event : Begin(e)
  BY <1>1, <1>2 DEF Begin, Ahead, ram, store
<1>3. CASE Check
  BY <1>1, <1>3 DEF Check, Ahead, ram, store
<1>4. CASE Write
  <2>1. /\ pc = "write" /\ open /\ pc' = "flush"
        /\ buffer' = Append(buffer, NewRow)
        /\ UNCHANGED <<ram, event, disk, torn>>
    BY <1>4 DEF Write, NewRow
  <2>2. Len(disk) = Len(ledger) /\ buffer = <<>> /\ ~torn
    BY <1>1, <2>1 DEF Ahead
  <2>3. buffer' = <<NewRow>> /\ NewRow' = NewRow
    BY <2>1, <2>2 DEF NewRow, ram
  <2>4. event \in Event
    BY <1>1 DEF JTypeOK
  <2> QED
    BY <2>1, <2>2, <2>3, <2>4 DEF Ahead, NewRow, ram
<1>5. CASE Flush
  <2>1. /\ pc = "flush" /\ open /\ pc' = "fsync"
        /\ disk' = disk \o buffer /\ buffer' = <<>>
        /\ UNCHANGED <<ram, event, torn>>
    BY <1>5 DEF Flush
  <2>2. Len(disk) = Len(ledger) /\ buffer = <<NewRow>> /\ ~torn
    BY <1>1, <2>1 DEF Ahead
  <2>3. event \in Event
    BY <1>1 DEF JTypeOK
  <2>4. /\ Len(disk') = Len(ledger) + 1
        /\ disk'[Len(ledger) + 1] = NewRow
    BY <1>1, <2>1, <2>2, <2>3, FollowOnAppend DEF NewRow
  <2> QED
    BY <2>1, <2>2, <2>4 DEF Ahead, NewRow, ram
<1>6. CASE Fsync
  BY <1>1, <1>6 DEF Fsync, Ahead, NewRow, ram
<1>7. CASE Adopt
  BY <1>1, <1>7 DEF Adopt, Ahead, NewRow, store
<1>8. CASE Publish
  <2>1. /\ ledger' = Append(ledger, event) /\ pc' = "idle"
        /\ pc = "recheck" /\ open
        /\ UNCHANGED <<disk, buffer, torn>>
    BY <1>8 DEF Publish, Own, store
  <2>2. Len(disk) = Len(ledger) + 1 /\ buffer = <<>> /\ ~torn
    BY <1>1, <2>1 DEF Ahead
  <2>3. Len(ledger') = Len(ledger) + 1
    BY <1>1, <2>1 DEF JTypeOK
  <2> QED
    BY <2>1, <2>2, <2>3 DEF Ahead
<1>9. CASE Fails
  <2>1. /\ poisoned' = TRUE /\ pc' = "idle"
        /\ UNCHANGED <<ledger, buffer, disk>>
    BY <1>9 DEF Fails
  <2> QED
    BY <1>1, <2>1 DEF Ahead
<1>10. CASE Interrupt
  BY <1>10 DEF Interrupt
<1>11. CASE Aggregate
  <2>1. /\ poisoned' = TRUE /\ pc = "idle" /\ pc' = "idle"
        /\ UNCHANGED <<ledger, buffer, disk>>
    BY <1>11 DEF Aggregate, store
  <2> QED
    BY <1>1, <2>1 DEF Ahead
<1>12. CASE Close
  <2>1. open' = FALSE
    BY <1>12 DEF Close
  <2>2. buffer' = <<>>
    BY <1>12 DEF Close
  <2> QED
    BY <2>1, <2>2 DEF Ahead
<1>13. CASE Interfere \/ UNCHANGED jvars
  <2>1. UNCHANGED <<ledger, poisoned, open, pc, event, buffer, disk, torn,
                    synced>>
    BY <1>13 DEF Interfere, jvars, ram, store
  <2> QED
    BY <1>1, <2>1 DEF Ahead, NewRow
<1>14. CASE Stop
  <2>1. open' = FALSE
    BY <1>14 DEF Stop
  <2>2. buffer' = <<>>
    BY <1>14 DEF Stop
  <2> QED
    BY <2>1, <2>2 DEF Ahead
<1> QED
  BY <1>2, <1>3, <1>4, <1>5, <1>6, <1>7, <1>8, <1>9, <1>10, <1>11, <1>12,
     <1>13, <1>14 DEF JNext

\* The inductive invariant of the journal: the row of the append under way is
\* where its step says, and without an interrupt the file is at most that row
\* ahead of what is published.
THEOREM JournalInductive == JSpec => []LoadInv
<1>1. ASSUME LoadInv, [JNext]_jvars
      PROVE  LoadInv'
  BY <1>1, JournalTypes, RowMoves, PublishedStay, ChainKept, AheadKept
     DEF LoadInv, StableInv
<1> QED
  BY <1>1, JournalInit, PTL DEF JSpec

\* The attributes of a Journal keep their types, and it never takes its file
\* for longer than the file is.
THEOREM JournalTyped == JSpec => []JTypeOK
<1>1. LoadInv => JTypeOK
  BY DEF LoadInv, StableInv
<1> QED
  BY <1>1, JournalInductive, PTL

\* append() publishes an event only after the fsync of its row, and nothing
\* takes that row away: not a failure, an interrupt, a close or a power cut.
THEOREM JournalPublishesStable == JSpec => []PublishedOnStableStorage
<1>1. LoadInv => PublishedOnStableStorage
  BY DEF LoadInv, StableInv
<1> QED
  BY <1>1, JournalInductive, PTL

\* load() of a file without a torn end accepts its chain and finds every
\* published event there, in order, unless an append has been interrupted.
THEOREM JournalLoadContinues == JSpec => []LoadContinuesLedger
<1>1. ASSUME LoadInv
      PROVE  LoadContinuesLedger
  <2> SUFFICES ASSUME ~interrupted, ~torn
               PROVE  Loads /\ IsPrefix(ledger, Events(disk))
    BY DEF LoadContinuesLedger
  <2>1. JTypeOK /\ Chained
    BY <1>1 DEF LoadInv, StableInv
  <2>2. Loads
    BY <2>1 DEF Loads, Chained, Follow
  <2>3. /\ ledger \in Seq(Event) /\ Events(disk) \in Seq(Event)
        /\ Len(Events(disk)) = Len(disk) /\ Len(ledger) <= Len(disk)
        /\ \A i \in 1 .. Len(ledger) : Events(disk)[i] = ledger[i]
    <3>1. /\ disk \in Seq(Row) /\ ledger \in Seq(Event)
          /\ synced \in 0 .. Len(disk)
      BY <2>1 DEF JTypeOK
    <3>2. Events(disk) \in Seq(Event) /\ Len(Events(disk)) = Len(disk)
      <4>1. \A i \in 1 .. Len(disk) : disk[i].event \in Event
        <5>1. \A i \in 1 .. Len(disk) : disk[i] \in Row
          BY <3>1
        <5> QED
          BY <5>1 DEF Row
      <4>2. Len(disk) \in Nat
        BY <3>1
      <4> QED
        BY <4>1, <4>2 DEF Events
    <3> QED
      BY <2>1, <3>1, <3>2 DEF Chained, Events
  <2>4. SubSeq(ledger, 1, Len(ledger))
          = SubSeq(Events(disk), 1, Len(ledger))
    BY <2>3
  <2> QED
    BY <2>2, <2>3, <2>4 DEF IsPrefix
<1> QED
  BY <1>1, JournalInductive, PTL

-----------------------------------------------------------------------------
\* The flag is up as long as there is a child.
Flagged == running # {} => unreaped

\* Between its admission and its launch a run finds no child, after it its own
\* at most, and none once that was reaped.
Alone ==
  /\ dpc \in {"plan", "start", "flag", "spawn", "end", "clear"} => running = {}
  /\ dpc \in {"wait", "kill"} => running \subseteq {job}

\* The attempt of a run is on record when its child is started.
OnRecord == dpc \in {"flag", "spawn", "wait", "kill"} => state[job] = "RUNNING"

\* The inductive invariant of the adapter.
AdapterInv == DTypeOK /\ OneChild /\ ChildOnRecord /\ Flagged /\ Alone /\ OnRecord

\* No child, no journal entry: the invariant holds in the beginning.
LEMMA AdapterInit == DInit => AdapterInv
BY DEF DInit, AdapterInv, DTypeOK, OneChild, ChildOnRecord, Flagged, Alone, OnRecord, DState

\* An append changes the entry of its attempt only, and is typed.
LEMMA RecordTyped ==
  ASSUME DTypeOK, NEW from, NEW to \in DState, Record(from, to)
  PROVE  /\ state' \in [Job -> DState]
         /\ state'[job] = to
         /\ \A j \in Job \ {job} : state'[j] = state[j]
         /\ UNCHANGED <<writable, job, cause, running>>
BY DEF DTypeOK, Record

\* Every step keeps the invariant.
LEMMA AdapterStep == AdapterInv /\ [DNext]_dvars => AdapterInv'
<1> SUFFICES ASSUME AdapterInv, [DNext]_dvars PROVE AdapterInv'
  OBVIOUS
<1> USE DEF AdapterInv, DTypeOK, OneChild, ChildOnRecord, Flagged, Alone, OnRecord
<1>1. CASE Admit \/ Flag \/ Spawn \/ SpawnFails
  BY <1>1 DEF Admit, Flag, Spawn, SpawnFails
<1>2. CASE Wait \/ Clear \/ Raises \/ Release
  BY <1>2 DEF Wait, Clear, Raises, Release
<1>3. CASE Plan \/ Start
  <2>1. "PLANNED" \in DState /\ "RUNNING" \in DState
    BY DEF DState
  <2> QED
    BY <1>3, <2>1, RecordTyped DEF Plan, Start
<1>4. CASE End
  <2>1. PICK s \in {"TIMEOUT", "SUCCESS", "FAILED"} : Record("RUNNING", s)
    BY <1>4 DEF End
  <2>2. s \in DState
    BY DEF DState, DTerminal
  <2> QED
    BY <1>4, <2>1, <2>2, RecordTyped DEF End
<1>5. ASSUME NEW why \in {"timeout", "unverified", "raised"}, WaitFails(why)
      PROVE  AdapterInv'
  BY <1>5 DEF WaitFails
<1>6. CASE Kill
  BY <1>6 DEF Kill
<1>7. CASE RecordFails
  BY <1>7 DEF RecordFails
<1>8. ASSUME NEW j \in Job, RunDummy(j) PROVE AdapterInv'
  BY <1>8 DEF RunDummy
<1>9. ASSUME NEW j \in running, Exit(j) PROVE AdapterInv'
  BY <1>9 DEF Exit
<1>10. ASSUME NEW n \in writable, CloseJournal(n) PROVE AdapterInv'
  BY <1>10 DEF CloseJournal
<1>11. CASE UNCHANGED dvars
  BY <1>11 DEF dvars
<1> QED
  BY <1>1, <1>2, <1>3, <1>4, <1>5, <1>6, <1>7, <1>8, <1>9, <1>10, <1>11
  DEF DNext, DRunStep

\* The inductive invariant of the adapter.
THEOREM AdapterInvariant == DSpec => []AdapterInv
BY AdapterInit, AdapterStep, PTL DEF DSpec

\* For any journals and attempts the state keeps its types, and the flag is up
\* from before the launch of a child to after its END.
THEOREM AdapterTyped == DSpec => []DTypeOK
BY AdapterInvariant, PTL DEF AdapterInv

\* A process never has two children, whatever journals it records them in.
THEOREM AtMostOneChild == DSpec => []OneChild
BY AdapterInvariant, PTL DEF AdapterInv

\* No child exists without an acknowledged START, or past an acknowledged END.
THEOREM ChildAlwaysOnRecord == DSpec => []ChildOnRecord
BY AdapterInvariant, PTL DEF AdapterInv
=============================================================================
