-------------------------- MODULE StageBudget_proofs --------------------------
(***************************************************************************)
(* Proofs about the declared task budget, for every set of declarations    *)
(* and of elapsed times.  None of the safety properties is inductive by    *)
(* itself: each needs to know where the slots, the settlements and the     *)
(* reason for stopping stand relative to each other (Inv).                 *)
(***************************************************************************)
EXTENDS StageBudget, FiniteSetTheorems, NaturalsInduction,
        WellFoundedInduction, TLAPS

\* One slot at most is active, and it is the last debited one; every other
\* debited slot is settled.
SlotsInOrder ==
  /\ bud.index \in 0 .. Len(Plan)
  /\ bud.active \in {NoSlot, bud.index}
  /\ Len(obs) = IF bud.active = NoSlot THEN bud.index ELSE bud.index - 1

StoppedIsIdle == bud.stopped # Running => bud.active = NoSlot

SettledAreObserved ==
  \A u \in Uid : bud.settled[u] # Unsettled =>
     \E i \in 1 .. Len(obs) : Plan[i].uid = u

RunningSucceeded ==
  bud.stopped = Running =>
     \A i \in 1 .. Len(obs) :
        /\ obs[i].status = "SUCCESS"
        /\ obs[i].clean
        /\ obs[i].elapsed \in 0 .. Envelope(Plan[i])

\* What is reserved covers what was observed and what the active slot may use.
ReservedCovers ==
  /\ bud.stopped = Running =>
        bud.actual + (IF bud.active = NoSlot THEN 0
                      ELSE Envelope(Plan[bud.active])) <= bud.reserved
  /\ ObservedWithinReserved

Inv ==
  /\ TypeOK
  /\ DeclarationOK(decl)
  /\ SlotsInOrder
  /\ StoppedIsIdle
  /\ SettledAreObserved
  /\ RunningSucceeded
  /\ ReservedCovers
  /\ WithinDeclaredCaps
  /\ IncrementalAfterTranslation

-----------------------------------------------------------------------------
\* What a node contributes is a number, whatever node it is.
LEMMA NodeFields ==
  ASSUME NEW d \in Declaration, NEW i \in 1 .. Len(d.plan)
  PROVE  /\ d.plan[i] \in Node
         /\ d.plan[i].uid \in Uid
         /\ d.plan[i].kind \in Kind
         /\ d.plan[i].deps \subseteq Uid
         /\ Envelope(d.plan[i]) \in Nat \ {0}
<1>1. d.plan \in Seq(Node)
  BY DEF Declaration
<1>2. d.plan[i] \in Node
  BY <1>1
<1> QED
  BY <1>2 DEF Node, Envelope

\* A debit keeps the budget a budget, and spends exactly one slot.
LEMMA DebitFacts ==
  ASSUME NEW d \in Declaration, NEW b \in Budget, b.index < Len(d.plan)
  PROVE  /\ Debit(d, b) \in Budget
         /\ Debit(d, b).counts =
               [b.counts EXCEPT ![NextNode(d, b).kind] = @ + 1]
         /\ Debit(d, b).reserved = b.reserved + Envelope(NextNode(d, b))
         /\ Debit(d, b).index = b.index + 1
         /\ Debit(d, b).active = b.index + 1
         /\ Debit(d, b).actual = b.actual
         /\ Debit(d, b).stopped = b.stopped
         /\ Debit(d, b).settled = b.settled
<1> DEFINE k == NextNode(d, b).kind
           e == Envelope(NextNode(d, b))
           c == [b.counts EXCEPT ![k] = @ + 1]
<1>1. b.index + 1 \in 1 .. Len(d.plan) /\ b.index \in Nat
  BY DEF Budget, Declaration
<1>2. k \in Kind /\ e \in Nat
  BY <1>1, NodeFields DEF NextNode
<1>3. Debit(d, b) = [b EXCEPT !.counts = c, !.reserved = b.reserved + e,
                             !.active = b.index + 1, !.index = b.index + 1]
  BY DEF Debit, Budget
<1>4. c \in [Kind -> Nat] /\ b.reserved + e \in Nat /\ b.index + 1 \in Nat
  BY <1>1, <1>2 DEF Budget
<1> HIDE DEF k, e, c
<1>5. Debit(d, b) \in Budget
  BY <1>3, <1>4 DEF Budget
<1>6. /\ Debit(d, b).counts = c
      /\ Debit(d, b).reserved = b.reserved + e
      /\ Debit(d, b).index = b.index + 1
      /\ Debit(d, b).active = b.index + 1
      /\ Debit(d, b).actual = b.actual
      /\ Debit(d, b).stopped = b.stopped
      /\ Debit(d, b).settled = b.settled
  BY <1>3 DEF Budget
<1> QED
  BY <1>5, <1>6 DEF k, e, c

\* A settlement keeps the budget a budget and frees the active slot.
LEMMA SettlementFacts ==
  ASSUME NEW d \in Declaration, NEW b \in Budget,
         b.active \in 1 .. Len(d.plan),
         NEW status \in Status, NEW elapsed \in Elapsed, NEW clean \in BOOLEAN
  PROVE  LET s == Settlement(d, b, status, elapsed, clean)
         IN  /\ s \in Budget
             /\ s.counts = b.counts
             /\ s.reserved = b.reserved
             /\ s.index = b.index
             /\ s.active = NoSlot
             /\ s.actual = IF Opaque(status, elapsed, clean) THEN b.actual
                           ELSE b.actual + elapsed
             /\ s.stopped = StopAfter(d, b, status, elapsed, clean)
             /\ s.settled =
                   [b.settled EXCEPT ![d.plan[b.active].uid] = status]
<1> DEFINE u == d.plan[b.active].uid
           stop == StopAfter(d, b, status, elapsed, clean)
           opaque == Opaque(status, elapsed, clean)
           sum == IF opaque THEN b.actual ELSE b.actual + elapsed
           settled == [b.settled EXCEPT ![u] = status]
           s == Settlement(d, b, status, elapsed, clean)
<1>1. u \in Uid
  BY NodeFields
<1>2. stop \in Stop
  BY DEF StopAfter, Stop, Budget, Unresolved, Overrun, Failed
<1>3. sum \in Nat
  BY DEF Opaque, Elapsed, Budget
<1>4. (b.complete /\ ~opaque) \in BOOLEAN
  BY DEF Opaque
<1>5. settled \in [Uid -> Status \cup {Unsettled}]
  BY <1>1 DEF Budget
<1>6. s = [b EXCEPT !.complete = b.complete /\ ~opaque, !.actual = sum,
                    !.stopped = stop, !.settled = settled, !.active = 0]
  BY DEF Settlement, Budget, NoSlot
<1> HIDE DEF u, stop, opaque, sum, settled, s
<1>7. s \in Budget
  BY <1>2, <1>3, <1>4, <1>5, <1>6 DEF Budget
<1>8. /\ s.counts = b.counts
      /\ s.reserved = b.reserved
      /\ s.index = b.index
      /\ s.active = NoSlot
      /\ s.actual = sum
      /\ s.stopped = stop
      /\ s.settled = settled
  BY <1>6 DEF Budget, NoSlot
<1> QED
  BY <1>7, <1>8 DEF u, stop, opaque, sum, settled, s

\* What the constructor's checks say about an accepted plan: no task twice,
\* and every incremental stage names the translation it depends on.
LEMMA PlanFacts ==
  ASSUME NEW d \in Declaration, DeclarationOK(d), NEW i \in 1 .. Len(d.plan)
  PROVE  /\ \A j \in 1 .. (i - 1) : d.plan[j].uid # d.plan[i].uid
         /\ d.plan[i].kind = "TESSENT_STAGE" /\ d.plan[i].stage # "H" =>
               \E j \in 1 .. (i - 1) : Translates(d.plan, j, i)
<1>1. NodeOK(d.plan, i)
  BY DEF DeclarationOK
<1> QED
  BY <1>1 DEF NodeOK

\* The constructor builds a budget that satisfies the invariant: nothing is
\* debited or settled, and the plan has passed the constructor's checks.
LEMMA InitInv == Init => Inv
<1> SUFFICES ASSUME Init PROVE Inv
  OBVIOUS
<1>1. decl \in Declaration /\ DeclarationOK(decl)
  BY DeclarationsAssumption DEF Init
<1>2. bud \in Budget
  BY DEF Init, InitBudget, Budget, Stop, NoSlot
<1>3. obs = <<>> /\ Len(obs) = 0 /\ obs \in Seq(Observation)
  BY DEF Init
<1>4. TypeOK
  BY <1>1, <1>2, <1>3 DEF TypeOK
<1>5. SlotsInOrder
  BY <1>1, <1>3 DEF Init, InitBudget, SlotsInOrder, NoSlot, Declaration, Plan
<1>6. StoppedIsIdle /\ SettledAreObserved /\ RunningSucceeded
  BY <1>3 DEF Init, InitBudget, StoppedIsIdle, SettledAreObserved,
              RunningSucceeded, NoSlot
<1>7. ReservedCovers
  BY DEF Init, InitBudget, ReservedCovers, ObservedWithinReserved, NoSlot
<1>8. WithinDeclaredCaps
  BY <1>1 DEF Init, InitBudget, WithinDeclaredCaps, Declaration
<1>9. IncrementalAfterTranslation
  BY DEF Init, InitBudget, IncrementalAfterTranslation, Debited
<1> QED
  BY <1>1, <1>4, <1>5, <1>6, <1>7, <1>8, <1>9 DEF Inv

\* reserve() preserves the invariant when it debits: the comparison with the
\* caps keeps the books within them, and the settled dependency of an
\* incremental slot is the translation the constructor bound it to.
LEMMA ReserveInv ==
  ASSUME Inv, NEW uid \in Uid, Reserve(uid)
  PROVE  Inv'
<1> DEFINE n == bud.index + 1
           node == NextNode(decl, bud)
<1>1. /\ decl \in Declaration /\ bud \in Budget /\ DeclarationOK(decl)
      /\ obs \in Seq(Observation)
      /\ decl' = decl /\ obs' = obs /\ Plan' = Plan /\ Plan \in Seq(Node)
      /\ bud' = Debit(decl, bud) /\ bud.index < Len(decl.plan)
      /\ bud.stopped = Running /\ bud.active = NoSlot
  BY DEF Inv, TypeOK, Reserve, Reservable, Plan, Declaration
<1>2. /\ bud' \in Budget
      /\ bud'.counts = [bud.counts EXCEPT ![node.kind] = @ + 1]
      /\ bud'.reserved = bud.reserved + Envelope(node)
      /\ bud'.index = n /\ bud'.active = n
      /\ bud'.actual = bud.actual /\ bud'.stopped = bud.stopped
      /\ bud'.settled = bud.settled
  BY <1>1, DebitFacts
<1>3. /\ bud.index \in Nat /\ n \in 1 .. Len(Plan) /\ node = Plan[n]
      /\ n # NoSlot /\ Len(obs) = bud.index
  BY <1>1 DEF Budget, NextNode, NoSlot, Plan, Inv, SlotsInOrder
<1>4. node.kind \in Kind /\ Envelope(node) \in Nat /\ Envelope(Plan[n]) \in Nat
  BY <1>1, <1>3, NodeFields DEF Plan
<1> HIDE DEF n, node
<1>5. TypeOK'
  BY <1>1, <1>2 DEF TypeOK
<1>6. SlotsInOrder'
  BY <1>1, <1>2, <1>3 DEF SlotsInOrder, n
<1>7. StoppedIsIdle' /\ SettledAreObserved' /\ RunningSucceeded'
  BY <1>1, <1>2 DEF Inv, StoppedIsIdle, SettledAreObserved, RunningSucceeded
<1>8. ReservedCovers'
  BY <1>1, <1>2, <1>3, <1>4
     DEF Inv, ReservedCovers, ObservedWithinReserved, Budget
<1>9. WithinDeclaredCaps'
  <2>1. /\ bud.counts[node.kind] < decl.caps[node.kind]
        /\ bud.reserved + Envelope(node) <= decl.phase
    BY <1>1, <1>4 DEF Reserve, Exhausted, node, Budget, Declaration
  <2>2. ASSUME NEW k \in Kind
        PROVE  bud'.counts[k] <= decl.caps[k]
    <3>1. /\ bud.counts[k] \in Nat /\ decl.caps[k] \in Nat
          /\ bud.counts[k] <= decl.caps[k]
          /\ bud.counts \in [Kind -> Nat]
      BY <1>1 DEF Inv, WithinDeclaredCaps, Budget, Declaration
    <3>2. CASE k = node.kind
      BY <1>2, <2>1, <3>1, <3>2
    <3>3. CASE k # node.kind
      BY <1>2, <1>4, <3>1, <3>3
    <3> QED
      BY <3>2, <3>3
  <2> QED
    BY <1>1, <1>2, <2>1, <2>2 DEF WithinDeclaredCaps
<1>10. IncrementalAfterTranslation'
  <2> SUFFICES ASSUME NEW i \in 1 .. n,
                      Plan[i].kind = "TESSENT_STAGE", Plan[i].stage # "H"
               PROVE  \E j \in 1 .. (i - 1) :
                         /\ Plan[j].kind = "STATUS_TRANSLATION"
                         /\ Plan[j].stage = Plan[i].stage
                         /\ Plan[j].req = Plan[i].req
                         /\ bud.settled[Plan[j].uid] = "SUCCESS"
    BY <1>1, <1>2 DEF IncrementalAfterTranslation, Debited
  <2>1. CASE i \in 1 .. bud.index
    BY <2>1 DEF Inv, IncrementalAfterTranslation, Debited
  <2>2. CASE i = n
    <3>1. PICK j \in 1 .. (n - 1) : Translates(Plan, j, n)
      BY <1>1, <1>3, <2>2, PlanFacts DEF Plan
    <3>2. Plan[n].deps = {Plan[j].uid}
      BY <3>1 DEF Translates
    <3>3. bud.settled[Plan[j].uid] = "SUCCESS"
      BY <1>3, <3>2 DEF Reserve, Reservable, node
    <3> QED
      BY <2>2, <3>1, <3>3 DEF Translates
  <2> QED
    BY <1>3, <2>1, <2>2 DEF n
<1> QED
  BY <1>1, <1>5, <1>6, <1>7, <1>8, <1>9, <1>10 DEF Inv

\* reserve() preserves the invariant when it denies: only the reason for
\* stopping changes, and nothing is active.
LEMMA CensorInv ==
  ASSUME Inv, NEW uid \in Uid, Censor(uid)
  PROVE  Inv'
<1>1. /\ decl \in Declaration /\ bud \in Budget /\ DeclarationOK(decl)
      /\ obs \in Seq(Observation)
      /\ decl' = decl /\ obs' = obs /\ Plan' = Plan
      /\ bud' = [bud EXCEPT !.stopped = Censored]
      /\ bud.stopped = Running /\ bud.active = NoSlot
  BY DEF Inv, TypeOK, Censor, Reservable, Plan, Deny
<1>2. /\ bud' \in Budget
      /\ bud'.counts = bud.counts /\ bud'.reserved = bud.reserved
      /\ bud'.index = bud.index /\ bud'.active = bud.active
      /\ bud'.actual = bud.actual /\ bud'.settled = bud.settled
      /\ bud'.stopped = Censored
  BY <1>1 DEF Budget, Stop
<1>3. TypeOK' /\ SlotsInOrder' /\ StoppedIsIdle' /\ SettledAreObserved'
  BY <1>1, <1>2
     DEF Inv, TypeOK, SlotsInOrder, StoppedIsIdle, SettledAreObserved
<1>4. RunningSucceeded' /\ ReservedCovers'
  BY <1>1, <1>2 DEF Inv, RunningSucceeded, ReservedCovers, Budget,
                    ObservedWithinReserved, Censored, Running, Overrun, NoSlot
<1>5. WithinDeclaredCaps' /\ IncrementalAfterTranslation'
  BY <1>1, <1>2
     DEF Inv, WithinDeclaredCaps, IncrementalAfterTranslation, Debited
<1> QED
  BY <1>1, <1>3, <1>4, <1>5 DEF Inv

\* settle() preserves the invariant: the first settlement that is not a known
\* success within its envelope stops the plan, and a task settled before keeps
\* its status because no task has two slots.
LEMMA SettleInv ==
  ASSUME Inv, NEW status \in Status, NEW elapsed \in ElapsedChoice,
         NEW clean \in BOOLEAN, Settle(status, elapsed, clean)
  PROVE  Inv'
<1> DEFINE a == bud.active
           o == [status |-> status, elapsed |-> elapsed, clean |-> clean]
           opaque == Opaque(status, elapsed, clean)
<1>1. /\ decl \in Declaration /\ bud \in Budget /\ DeclarationOK(decl)
      /\ obs \in Seq(Observation)
      /\ decl' = decl /\ Plan' = Plan /\ Plan \in Seq(Node)
      /\ bud' = Settlement(decl, bud, status, elapsed, clean)
      /\ obs' = Append(obs, o)
      /\ a # NoSlot
  BY DEF Inv, TypeOK, Settle, Plan, Declaration
<1>2. /\ a = bud.index /\ a \in 1 .. Len(Plan) /\ Len(obs) = a - 1
      /\ bud.stopped = Running
  BY <1>1 DEF Inv, SlotsInOrder, StoppedIsIdle, NoSlot, Plan, Declaration
<1>3. elapsed \in Elapsed
  BY ElapsedChoiceAssumption
<1>4. /\ bud' \in Budget
      /\ bud'.counts = bud.counts /\ bud'.reserved = bud.reserved
      /\ bud'.index = bud.index /\ bud'.active = NoSlot
      /\ bud'.actual = IF opaque THEN bud.actual ELSE bud.actual + elapsed
      /\ bud'.stopped = StopAfter(decl, bud, status, elapsed, clean)
      /\ bud'.settled = [bud.settled EXCEPT ![Plan[a].uid] = status]
  <2>1. /\ Plan = decl.plan /\ bud.active \in 1 .. Len(decl.plan)
        /\ bud.active = a
    BY <1>2 DEF Plan
  <2> HIDE DEF a, opaque
  <2> QED
    BY <1>1, <1>3, <2>1, SettlementFacts DEF a, opaque
<1>5. /\ o \in Observation /\ obs' \in Seq(Observation)
      /\ Len(obs') = a /\ obs'[a] = o
      /\ \A i \in 1 .. (a - 1) : obs'[i] = obs[i]
  BY <1>1, <1>2, <1>3 DEF Observation
<1>6. Plan[a].uid \in Uid /\ Envelope(Plan[a]) \in Nat
  BY <1>1, <1>2, NodeFields DEF Plan
<1>7. TypeOK'
  BY <1>1, <1>4, <1>5 DEF TypeOK
<1>8. SlotsInOrder' /\ StoppedIsIdle'
  BY <1>1, <1>2, <1>4, <1>5
     DEF Inv, SlotsInOrder, StoppedIsIdle, NoSlot, Plan, Declaration
<1>9. SettledAreObserved'
  <2> SUFFICES ASSUME NEW u \in Uid, bud'.settled[u] # Unsettled
               PROVE  \E i \in 1 .. a : Plan[i].uid = u
    BY <1>1, <1>5 DEF SettledAreObserved
  <2>1. CASE u = Plan[a].uid
    BY <1>2, <2>1
  <2>2. CASE u # Plan[a].uid
    <3>1. bud.settled[u] # Unsettled
      BY <1>1, <1>4, <1>6, <2>2 DEF Budget
    <3>2. PICK i \in 1 .. Len(obs) : Plan[i].uid = u
      BY <3>1 DEF Inv, SettledAreObserved
    <3> QED
      BY <1>2, <3>2
  <2> QED
    BY <2>1, <2>2
<1>10. RunningSucceeded'
  <2> SUFFICES ASSUME bud'.stopped = Running, NEW i \in 1 .. a
               PROVE  /\ obs'[i].status = "SUCCESS"
                      /\ obs'[i].clean
                      /\ obs'[i].elapsed \in 0 .. Envelope(Plan[i])
    BY <1>1, <1>5 DEF RunningSucceeded
  <2>1. CASE i \in 1 .. (a - 1)
    BY <1>2, <1>5, <2>1 DEF Inv, RunningSucceeded
  <2>2. CASE i = a
    <3>1. ~opaque /\ elapsed <= Envelope(Plan[a]) /\ status = "SUCCESS"
      BY <1>3, <1>4, <1>6
         DEF StopAfter, Running, Unresolved, Overrun, Failed, Plan, Opaque,
             Elapsed
    <3>2. elapsed \in Nat /\ clean
      BY <1>3, <3>1 DEF Opaque, Elapsed
    <3> QED
      BY <1>5, <1>6, <2>2, <3>1, <3>2
  <2> QED
    BY <1>2, <2>1, <2>2
<1>11. ReservedCovers'
  <2>1. /\ bud.actual \in Nat /\ bud.reserved \in Nat
        /\ bud.actual + Envelope(Plan[a]) <= bud.reserved
    BY <1>1, <1>2 DEF Inv, ReservedCovers, Budget
  <2>2. CASE opaque
    BY <1>4, <1>6, <2>1, <2>2 DEF ReservedCovers, ObservedWithinReserved
  <2>3. CASE ~opaque /\ elapsed > Envelope(Plan[a])
    BY <1>4, <2>3
       DEF StopAfter, Plan, ReservedCovers, ObservedWithinReserved,
           Running, Overrun
  <2>4. CASE ~opaque /\ ~(elapsed > Envelope(Plan[a]))
    <3>1. elapsed \in Nat /\ elapsed <= Envelope(Plan[a])
      BY <1>3, <1>6, <2>4 DEF Opaque, Elapsed
    <3> QED
      BY <1>4, <1>6, <2>1, <2>4, <3>1
         DEF ReservedCovers, ObservedWithinReserved
  <2> QED
    BY <2>2, <2>3, <2>4
<1>12. WithinDeclaredCaps'
  BY <1>1, <1>4 DEF Inv, WithinDeclaredCaps
<1>13. IncrementalAfterTranslation'
  <2> SUFFICES ASSUME NEW i \in 1 .. bud.index,
                      Plan[i].kind = "TESSENT_STAGE", Plan[i].stage # "H"
               PROVE  \E j \in 1 .. (i - 1) :
                         /\ Plan[j].kind = "STATUS_TRANSLATION"
                         /\ Plan[j].stage = Plan[i].stage
                         /\ Plan[j].req = Plan[i].req
                         /\ bud'.settled[Plan[j].uid] = "SUCCESS"
    BY <1>1, <1>4 DEF IncrementalAfterTranslation, Debited
  <2>1. PICK j \in 1 .. (i - 1) :
           /\ Plan[j].kind = "STATUS_TRANSLATION"
           /\ Plan[j].stage = Plan[i].stage
           /\ Plan[j].req = Plan[i].req
           /\ bud.settled[Plan[j].uid] = "SUCCESS"
    BY DEF Inv, IncrementalAfterTranslation, Debited
  <2>2. j \in 1 .. (a - 1) /\ j \in 1 .. Len(Plan)
    BY <1>2
  <2>3. Plan[j].uid # Plan[a].uid /\ Plan[j].uid \in Uid
    BY <1>1, <1>2, <2>2, PlanFacts, NodeFields DEF Plan
  <2>4. bud'.settled[Plan[j].uid] = "SUCCESS"
    BY <1>1, <1>4, <2>1, <2>3 DEF Budget
  <2> QED
    BY <2>1, <2>4
<1> QED
  BY <1>1, <1>7, <1>8, <1>9, <1>10, <1>11, <1>12, <1>13 DEF Inv

\* Every call of the budget preserves the invariant.
LEMMA NextInv == Inv /\ [Next]_vars => Inv'
<1> SUFFICES ASSUME Inv, [Next]_vars PROVE Inv'
  OBVIOUS
<1>1. ASSUME NEW uid \in Uid, Reserve(uid) PROVE Inv'
  BY <1>1, ReserveInv
<1>2. ASSUME NEW uid \in Uid, Censor(uid) PROVE Inv'
  BY <1>2, CensorInv
<1>3. ASSUME NEW status \in Status, NEW elapsed \in ElapsedChoice,
             NEW clean \in BOOLEAN, Settle(status, elapsed, clean)
      PROVE  Inv'
  BY <1>3, SettleInv
<1>4. CASE UNCHANGED vars
  BY <1>4 DEF vars, Inv, TypeOK, SlotsInOrder, StoppedIsIdle,
     SettledAreObserved, RunningSucceeded, ReservedCovers,
     ObservedWithinReserved, WithinDeclaredCaps, IncrementalAfterTranslation,
     Debited, Plan
<1> QED
  BY <1>1, <1>2, <1>3, <1>4 DEF Next

\* The inductive invariant of the declared budget, from which every other
\* theorem of this module follows.
THEOREM BudgetInvariant == Spec => []Inv
BY InitInv, NextInv, PTL DEF Spec

\* The books always have their types: in particular a reason for stopping is
\* one of the five the code knows, and no counter goes below zero.
THEOREM BudgetTyped == Spec => []TypeOK
<1>1. Inv => TypeOK
  BY DEF Inv
<1> QED
  BY <1>1, BudgetInvariant, PTL

\* Whatever plan was declared, and in whatever order and with whatever results
\* the tasks were settled, the calls and the reserved wall time stay within
\* the declared caps.
THEOREM CapsRespected == Spec => []WithinDeclaredCaps
<1>1. Inv => WithinDeclaredCaps
  BY DEF Inv
<1> QED
  BY <1>1, BudgetInvariant, PTL

\* No incremental Tessent stage is ever debited before the translation it
\* consumes (same stage, same request) has succeeded, whatever the plan.
THEOREM TranslationFirst == Spec => []IncrementalAfterTranslation
<1>1. Inv => IncrementalAfterTranslation
  BY DEF Inv
<1> QED
  BY <1>1, BudgetInvariant, PTL

\* The cost observed stays within the reservation, or an overrun has stopped
\* the plan; this is what makes a reservation an upper bound of the cost.
THEOREM ObservationCovered == Spec => []ObservedWithinReserved
<1>1. Inv => ObservedWithinReserved
  BY DEF Inv, ReservedCovers
<1> QED
  BY <1>1, BudgetInvariant, PTL

\* A plan reported complete has every slot settled, each as a verified success
\* of known cost within its envelope.  The report counts settled uids; that no
\* more uids than settlements exist is a matter of cardinalities.
THEOREM CompleteVerified == Spec => []CompleteIsVerifiedSuccess
<1>1. Inv => CompleteIsVerifiedSuccess
  <2> SUFFICES ASSUME Inv, DeclaredPlanComplete(decl, bud)
               PROVE  /\ Len(obs) = Len(Plan)
                      /\ \A i \in 1 .. Len(obs) :
                            /\ obs[i].status = "SUCCESS"
                            /\ obs[i].clean
                            /\ obs[i].elapsed \in 0 .. Envelope(Plan[i])
    BY DEF CompleteIsVerifiedSuccess
  <2> DEFINE uid == [i \in 1 .. Len(obs) |-> Plan[i].uid]
             images == {uid[i] : i \in 1 .. Len(obs)}
  <2>1. /\ Len(obs) \in Nat /\ Len(Plan) \in Nat /\ Len(obs) <= Len(Plan)
        /\ bud.stopped = Running /\ Cardinality(SettledUids(bud)) = Len(Plan)
    BY DEF Inv, TypeOK, SlotsInOrder, DeclaredPlanComplete, Plan, Declaration,
           NoSlot
  <2>2. SettledUids(bud) \subseteq images
    BY DEF SettledUids, Inv, SettledAreObserved
  <2>3. IsFiniteSet(1 .. Len(obs)) /\ Cardinality(1 .. Len(obs)) = Len(obs)
    <3>1. \A n \in Nat : IsFiniteSet(1 .. n) /\ Cardinality(1 .. n) = n
      BY FS_Interval, SMTT(30)
    <3> QED
      BY <2>1, <3>1
  <2>4. IsFiniteSet(images) /\ Cardinality(images) <= Len(obs)
    <3>1. uid \in Surjection(1 .. Len(obs), images)
      BY DEF Surjection
    <3> HIDE DEF uid, images
    <3> QED
      BY <2>3, <3>1, FS_Surjection
  <2>5. Cardinality(SettledUids(bud)) <= Cardinality(images)
    BY <2>2, <2>4, FS_Subset
  <2>6. Cardinality(images) \in Nat
    BY <2>4, FS_CardinalityType
  <2>7. Len(obs) = Len(Plan)
    <3> HIDE DEF uid, images
    <3> QED
      BY <2>1, <2>4, <2>5, <2>6
  <2> QED
    BY <2>1, <2>7 DEF Inv, RunningSucceeded
<1> QED
  BY <1>1, BudgetInvariant, PTL

\* The first reason for stopping is the last event of a budget.
THEOREM StopFinal == Spec => StopIsFinal
<1>1. Inv /\ [Next]_vars => [bud.stopped # Running => UNCHANGED bud]_vars
  <2> SUFFICES ASSUME Inv, Next, bud.stopped # Running
               PROVE  UNCHANGED bud
    OBVIOUS
  <2>1. bud.active = NoSlot
    BY DEF Inv, StoppedIsIdle
  <2>2. \A uid \in Uid : ~Reserve(uid) /\ ~Censor(uid)
    BY DEF Reserve, Censor, Reservable
  <2> QED
    BY <2>1, <2>2 DEF Next, Settle
<1> QED
  BY <1>1, BudgetInvariant, PTL DEF Spec, StopIsFinal

-----------------------------------------------------------------------------
\* The order on numbers as a relation.
Less == {ss \in Nat \X Nat : ss[1] < ss[2]}

\* The order on numbers is well-founded.
LEMMA NatLessFounded == IsWellFoundedOn(Less, Nat)
  BY NatLessThanWellFounded, Zenon DEF OpToRel, Less

\* Every set of numbers that is not empty has a least element: what stands in
\* for induction in the proofs about sums and about replays.
LEMMA LeastNumber ==
  ASSUME NEW T \in SUBSET Nat, T # {}
  PROVE  \E m \in T : \A n \in T : m <= n
<1>1. PICK m \in T : \A n \in T : ~(<<n, m>> \in Less)
  BY NatLessFounded, WFMin
<1>2. \A n \in T : ~(n < m)
  BY <1>1 DEF Less
<1> QED
  BY <1>2

\* f holds the sums of the prefixes of s.
IsSum(f, s) ==
  f = [i \in 0 .. Len(s) |-> IF i = 0 THEN 0 ELSE f[i - 1] + s[i]]

\* The sums of a sequence are those of any sequence it is a prefix of: least
\* index at which they would differ.
LEMMA SumsAgree ==
  ASSUME NEW s, NEW t, NEW f, NEW g, Len(s) \in Nat, Len(t) \in Nat,
         IsSum(f, s), IsSum(g, t), Len(s) <= Len(t),
         \A i \in 1 .. Len(s) : s[i] = t[i]
  PROVE  \A i \in 0 .. Len(s) : f[i] = g[i]
<1> DEFINE T == {i \in 0 .. Len(s) : f[i] # g[i]}
<1>0. /\ \A i \in 0 .. Len(s) : f[i] = IF i = 0 THEN 0 ELSE f[i - 1] + s[i]
      /\ \A i \in 0 .. Len(t) : g[i] = IF i = 0 THEN 0 ELSE g[i - 1] + t[i]
  BY DEF IsSum
<1>1. SUFFICES ASSUME T # {} PROVE FALSE
  OBVIOUS
<1>2. PICK m \in T : \A n \in T : m <= n
  <2>1. T \in SUBSET Nat
    OBVIOUS
  <2> QED
    BY <1>1, <2>1, LeastNumber
<1>3. CASE m = 0
  BY <1>0, <1>2, <1>3
<1>4. CASE m # 0
  <2>1. m - 1 \in 0 .. Len(s) /\ m - 1 \notin T
    BY <1>2, <1>4
  <2>2. f[m - 1] = g[m - 1]
    BY <2>1
  <2> QED
    BY <1>0, <1>2, <1>4, <2>2
<1> QED
  BY <1>3, <1>4

\* Every sequence has sums: a shortest prefix without them would extend one
\* that has them.
LEMMA SumExists ==
  ASSUME NEW S, NEW s \in Seq(S)
  PROVE  \E f : IsSum(f, s)
<1> DEFINE T == {n \in 0 .. Len(s) : ~ \E f : IsSum(f, SubSeq(s, 1, n))}
<1>1. SUFFICES ASSUME T # {} PROVE FALSE
  <2>1. Len(s) \notin T
    BY <1>1
  <2>2. SubSeq(s, 1, Len(s)) = s
    OBVIOUS
  <2>3. Len(s) \in 0 .. Len(s)
    OBVIOUS
  <2>4. \E f : IsSum(f, SubSeq(s, 1, Len(s)))
    BY <2>1, <2>3, Zenon
  <2> QED
    BY <2>2, <2>4, Zenon
<1>2. PICK m \in T : \A n \in T : m <= n
  <2>1. T \in SUBSET Nat
    OBVIOUS
  <2> QED
    BY <1>1, <2>1, LeastNumber
<1>3. CASE m = 0
  <2>1. Len(SubSeq(s, 1, 0)) = 0
    OBVIOUS
  <2>2. IsSum([i \in 0 .. 0 |-> 0], SubSeq(s, 1, 0))
    BY <2>1 DEF IsSum
  <2> QED
    BY <1>2, <1>3, <2>2
<1>4. CASE m # 0
  <2>1. m - 1 \in 0 .. Len(s) /\ m - 1 \notin T /\ m \in 1 .. Len(s)
    BY <1>2, <1>4
  <2>2. PICK f : IsSum(f, SubSeq(s, 1, m - 1))
    BY <2>1
  <2>3. /\ Len(SubSeq(s, 1, m - 1)) = m - 1
        /\ Len(SubSeq(s, 1, m)) = m
        /\ \A i \in 1 .. (m - 1) : SubSeq(s, 1, m - 1)[i] = SubSeq(s, 1, m)[i]
    BY <2>1
  <2> DEFINE u == SubSeq(s, 1, m - 1)
             t == SubSeq(s, 1, m)
             g == [i \in 0 .. m |-> IF i = m THEN f[m - 1] + t[m] ELSE f[i]]
  <2>4. \A i \in 0 .. (m - 1) : f[i] = IF i = 0 THEN 0 ELSE f[i - 1] + u[i]
    BY <2>2, <2>3 DEF IsSum
  <2> HIDE DEF u, t
  <2>5. \A i \in 0 .. m : g[i] = IF i = 0 THEN 0 ELSE g[i - 1] + t[i]
    <3> SUFFICES ASSUME NEW i \in 0 .. m
                 PROVE  g[i] = IF i = 0 THEN 0 ELSE g[i - 1] + t[i]
      OBVIOUS
    <3>1. CASE i = m
      <4>1. i # 0 /\ i - 1 \in 0 .. m /\ i - 1 # m
        BY <2>1, <3>1
      <4> QED
        BY <3>1, <4>1
    <3>2. CASE i = 0
      BY <2>1, <2>4, <3>2
    <3>3. CASE i # m /\ i # 0
      <4>1. i \in 1 .. (m - 1) /\ i - 1 \in 0 .. (m - 1) /\ i - 1 # m
        BY <2>1, <3>3
      <4>2. u[i] = t[i]
        BY <2>3, <4>1 DEF u, t
      <4>3. f[i] = f[i - 1] + u[i]
        BY <2>4, <4>1
      <4> QED
        BY <4>1, <4>2, <4>3
    <3> QED
      BY <3>1, <3>2, <3>3
  <2>6. g = [i \in 0 .. m |-> IF i = 0 THEN 0 ELSE g[i - 1] + t[i]]
    BY <2>5
  <2>7. IsSum(g, t)
    <3> HIDE DEF g
    <3> QED
    BY <2>3, <2>6 DEF IsSum, t
  <2> QED
    BY <1>2, <2>7 DEF t
<1> QED
  BY <1>3, <1>4

\* The recursive definition of Total means what it says.
LEMMA TotalIsSum ==
  ASSUME NEW S, NEW s \in Seq(S)
  PROVE  \E f : IsSum(f, s) /\ Total(s) = f[Len(s)]
<1> DEFINE f == CHOOSE f : IsSum(f, s)
<1>1. IsSum(f, s)
  BY SumExists
<1>2. Total(s) = f[Len(s)]
  BY DEF Total, IsSum
<1> QED
  BY <1>1, <1>2

\* One more number adds its value to the total.
LEMMA TotalAppend ==
  ASSUME NEW S, NEW s \in Seq(S), NEW x \in S
  PROVE  Total(Append(s, x)) = Total(s) + x
<1> DEFINE t == Append(s, x)
<1>1. /\ t \in Seq(S) /\ Len(t) = Len(s) + 1 /\ Len(s) \in Nat
      /\ t[Len(t)] = x /\ \A i \in 1 .. Len(s) : s[i] = t[i]
  OBVIOUS
<1> HIDE DEF t
<1>2. PICK f : IsSum(f, s) /\ Total(s) = f[Len(s)]
  BY TotalIsSum
<1>3. PICK g : IsSum(g, t) /\ Total(t) = g[Len(t)]
  BY <1>1, TotalIsSum
<1>4. f[Len(s)] = g[Len(s)]
  BY <1>1, <1>2, <1>3, SumsAgree
<1>5. g[Len(t)] = g[Len(t) - 1] + t[Len(t)]
  BY <1>1, <1>3 DEF IsSum
<1> QED
  BY <1>1, <1>2, <1>3, <1>4, <1>5 DEF t

\* The total of nothing is zero.
LEMMA TotalEmpty == Total(<<>>) = 0
<1>1. <<>> \in Seq(Nat) /\ Len(<<>>) = 0
  OBVIOUS
<1>2. PICK f : IsSum(f, <<>>) /\ Total(<<>>) = f[0]
  BY <1>1, TotalIsSum
<1> QED
  BY <1>1, <1>2 DEF IsSum

-----------------------------------------------------------------------------
\* The counters of the books are the slots debited, and the reservation is the
\* sum of their envelopes.
BooksMatchSlots ==
  /\ \A k \in Kind :
        bud.counts[k] = Cardinality({i \in Debited : Plan[i].kind = k})
  /\ bud.reserved = Total([i \in Debited |-> Envelope(Plan[i])])

\* As long as no settlement was opaque, every one was measured and the actual
\* cost is the sum of them, also while a slot is active.
KnownElapsedSummed ==
  bud.complete =>
     /\ \A i \in 1 .. Len(obs) : obs[i].elapsed # Unmeasured
     /\ bud.actual = Total([i \in 1 .. Len(obs) |-> obs[i].elapsed])

Exact == BooksMatchSlots /\ KnownElapsedSummed

\* One more index is in the selection or is not.
LEMMA SelectOneMore ==
  ASSUME NEW n \in Nat, NEW S \in SUBSET (1 .. (n + 1))
  PROVE  Cardinality(S) = Cardinality(S \cap (1 .. n))
                          + (IF n + 1 \in S THEN 1 ELSE 0)
<1>0. /\ n + 1 \notin 1 .. n
      /\ \A i \in 1 .. (n + 1) : i \in 1 .. n \/ i = n + 1
  OBVIOUS
<1>1. IsFiniteSet(1 .. n) /\ IsFiniteSet(1 .. (n + 1))
  BY FS_Interval
<1>2. IsFiniteSet(S \cap (1 .. n)) /\ IsFiniteSet(S)
  BY <1>1, FS_Subset
<1>3. Cardinality(S \cap (1 .. n)) \in Nat
  BY <1>2, FS_CardinalityType
<1>4. CASE n + 1 \in S
  <2>1. S = (S \cap (1 .. n)) \cup {n + 1} /\ n + 1 \notin S \cap (1 .. n)
    BY <1>0, <1>4, Zenon
  <2>2. Cardinality((S \cap (1 .. n)) \cup {n + 1})
          = Cardinality(S \cap (1 .. n)) + 1
    BY <1>2, <2>1, FS_AddElement
  <2> QED
    BY <1>4, <2>1, <2>2
<1>5. CASE n + 1 \notin S
  <2>1. S = S \cap (1 .. n)
    BY <1>0, <1>5, Zenon
  <2> QED
    BY <1>3, <1>5, <2>1
<1> QED
  BY <1>4, <1>5

\* Nothing is debited, reserved or observed at first.
LEMMA InitExact == Init => Exact
<1> SUFFICES ASSUME Init PROVE Exact
  OBVIOUS
<1>1. /\ bud = InitBudget /\ obs = <<>> /\ bud.index = 0 /\ bud.reserved = 0
      /\ bud.actual = 0 /\ \A k \in Kind : bud.counts[k] = 0
  BY DEF Init, InitBudget
<1>2. ASSUME NEW k \in Kind
      PROVE  Cardinality({i \in Debited : Plan[i].kind = k}) = 0
  <2>1. {i \in Debited : Plan[i].kind = k} = {}
    BY <1>1 DEF Debited
  <2> QED
    BY <2>1, FS_EmptySet
<1>3. [i \in Debited |-> Envelope(Plan[i])] = <<>>
  BY <1>1 DEF Debited
<1>4. Len(obs) = 0 /\ [i \in 1 .. Len(obs) |-> obs[i].elapsed] = <<>>
  BY <1>1
<1>5. BooksMatchSlots
  BY <1>1, <1>2, <1>3, TotalEmpty DEF BooksMatchSlots
<1>6. KnownElapsedSummed
  BY <1>1, <1>4, TotalEmpty DEF KnownElapsedSummed
<1> QED
  BY <1>5, <1>6 DEF Exact

\* reserve() adds the slot it debits to the count of its kind and its envelope
\* to the reservation.
LEMMA ReserveExact ==
  ASSUME Inv, Exact, NEW uid \in Uid, Reserve(uid)
  PROVE  Exact'
<1> DEFINE n == bud.index
           node == NextNode(decl, bud)
           env == [i \in 1 .. n |-> Envelope(Plan[i])]
<1>1. /\ decl \in Declaration /\ bud \in Budget
      /\ decl' = decl /\ obs' = obs /\ Plan' = Plan
      /\ bud' = Debit(decl, bud) /\ bud.index < Len(decl.plan)
  BY DEF Inv, TypeOK, Reserve, Reservable, Plan
<1>2. /\ bud'.counts = [bud.counts EXCEPT ![node.kind] = @ + 1]
      /\ bud'.reserved = bud.reserved + Envelope(node)
      /\ bud'.index = n + 1 /\ bud'.actual = bud.actual
      /\ bud'.complete = bud.complete
  <2>1. bud'.complete = bud.complete
    BY <1>1 DEF Debit, Budget
  <2> QED
    BY <1>1, <2>1, DebitFacts
<1>3. /\ n \in Nat /\ node = Plan[n + 1] /\ n + 1 \in 1 .. Len(Plan)
      /\ bud.counts \in [Kind -> Nat]
      /\ \A i \in 1 .. (n + 1) : Envelope(Plan[i]) \in Nat
      /\ node.kind \in Kind
  <2>1. /\ n \in Nat /\ node = Plan[n + 1] /\ n + 1 \in 1 .. Len(Plan)
        /\ bud.counts \in [Kind -> Nat] /\ Len(Plan) \in Nat
    BY <1>1 DEF Budget, NextNode, Plan, Declaration
  <2>2. \A i \in 1 .. (n + 1) : i \in 1 .. Len(decl.plan)
    BY <2>1 DEF Plan
  <2> HIDE DEF n, node
  <2> QED
    BY <1>1, <2>1, <2>2, NodeFields DEF Plan
<1> HIDE DEF node
<1>4. ASSUME NEW k \in Kind
      PROVE  bud'.counts[k] =
                Cardinality({i \in 1 .. (n + 1) : Plan[i].kind = k})
  <2> DEFINE all == {i \in 1 .. (n + 1) : Plan[i].kind = k}
             old == {i \in 1 .. n : Plan[i].kind = k}
  <2>1. all \in SUBSET (1 .. (n + 1)) /\ all \cap (1 .. n) = old
        /\ (n + 1 \in all <=> Plan[n + 1].kind = k)
    BY <1>3
  <2>2. bud.counts[k] = Cardinality(old) /\ bud.counts[k] \in Nat
    BY <1>3 DEF Exact, BooksMatchSlots, Debited
  <2>3. Cardinality(all) =
          bud.counts[k] + (IF Plan[n + 1].kind = k THEN 1 ELSE 0)
    <3> HIDE DEF all, old
    <3>1. Cardinality(all) = Cardinality(all \cap (1 .. n))
                             + (IF n + 1 \in all THEN 1 ELSE 0)
      BY <1>3, <2>1, SelectOneMore
    <3> QED
      BY <2>1, <2>2, <3>1
  <2> QED
    BY <1>2, <1>3, <2>2, <2>3
<1>5. bud'.reserved = Total([i \in 1 .. (n + 1) |-> Envelope(Plan[i])])
  <2>1. env \in Seq(Nat) /\ Len(env) = n
    <3>1. \A i \in 1 .. n : Envelope(Plan[i]) \in Nat
      BY <1>3
    <3>2. n \in Nat
      BY <1>3
    <3> HIDE DEF n
    <3>3. env \in [1 .. n -> Nat]
      BY <3>1
    <3> HIDE DEF env
    <3> QED
      BY <3>2, <3>3
  <2>2. [i \in 1 .. (n + 1) |-> Envelope(Plan[i])]
           = Append(env, Envelope(node))
    BY <1>3, <2>1
  <2>3. bud.reserved = Total(env)
    BY DEF Exact, BooksMatchSlots, Debited
  <2>4. Envelope(node) \in Nat
    BY <1>3
  <2> HIDE DEF env
  <2>5. Total(Append(env, Envelope(node))) = Total(env) + Envelope(node)
    BY <2>1, <2>4, TotalAppend
  <2> QED
    BY <1>2, <2>2, <2>3, <2>5
<1>6. BooksMatchSlots'
  BY <1>1, <1>2, <1>4, <1>5 DEF BooksMatchSlots, Debited
<1>7. KnownElapsedSummed'
  BY <1>1, <1>2 DEF Exact, KnownElapsedSummed
<1> QED
  BY <1>6, <1>7 DEF Exact

\* A denial touches neither the books nor the observations.
LEMMA CensorExact ==
  ASSUME Inv, Exact, NEW uid \in Uid, Censor(uid)
  PROVE  Exact'
<1>1. /\ bud \in Budget /\ decl' = decl /\ obs' = obs /\ Plan' = Plan
      /\ bud' = [bud EXCEPT !.stopped = Censored]
  BY DEF Inv, TypeOK, Censor, Plan, Deny
<1>2. /\ bud'.counts = bud.counts /\ bud'.reserved = bud.reserved
      /\ bud'.index = bud.index /\ bud'.actual = bud.actual
      /\ bud'.complete = bud.complete
  BY <1>1 DEF Budget
<1> QED
  BY <1>1, <1>2
     DEF Exact, BooksMatchSlots, KnownElapsedSummed, Debited

\* settle() moves no counter and no reservation, and adds to the actual cost
\* what it appends to the observations, or gives up the sum.
LEMMA SettleExact ==
  ASSUME Inv, Exact, NEW status \in Status, NEW elapsed \in ElapsedChoice,
         NEW clean \in BOOLEAN, Settle(status, elapsed, clean)
  PROVE  Exact'
<1> DEFINE o == [status |-> status, elapsed |-> elapsed, clean |-> clean]
           opaque == Opaque(status, elapsed, clean)
           n == Len(obs)
<1>1. /\ decl \in Declaration /\ bud \in Budget
      /\ obs \in Seq(Observation)
      /\ decl' = decl /\ Plan' = Plan
      /\ bud' = Settlement(decl, bud, status, elapsed, clean)
      /\ obs' = Append(obs, o)
      /\ bud.active \in 1 .. Len(decl.plan)
  BY DEF Inv, TypeOK, Settle, Plan, SlotsInOrder, NoSlot, Declaration
<1>2. elapsed \in Elapsed /\ o \in Observation
  BY ElapsedChoiceAssumption DEF Observation
<1>3. /\ bud'.counts = bud.counts /\ bud'.reserved = bud.reserved
      /\ bud'.index = bud.index
      /\ bud'.actual = IF opaque THEN bud.actual ELSE bud.actual + elapsed
      /\ bud'.complete = (bud.complete /\ ~opaque)
  <2>1. bud'.complete = (bud.complete /\ ~opaque)
    BY <1>1 DEF Settlement, Budget
  <2>2. /\ bud' \in Budget
        /\ bud'.counts = bud.counts /\ bud'.reserved = bud.reserved
        /\ bud'.index = bud.index /\ bud'.active = NoSlot
        /\ bud'.actual = IF opaque THEN bud.actual ELSE bud.actual + elapsed
        /\ bud'.stopped = StopAfter(decl, bud, status, elapsed, clean)
        /\ bud'.settled =
              [bud.settled EXCEPT ![decl.plan[bud.active].uid] = status]
    <3>1. elapsed \in Elapsed
      BY <1>2
    <3> HIDE DEF o, opaque, n
    <3> QED
      BY <1>1, <3>1, SettlementFacts DEF opaque
  <2> QED
    BY <2>1, <2>2
<1>4. BooksMatchSlots'
  BY <1>1, <1>3 DEF Exact, BooksMatchSlots, Debited
<1>5. ASSUME bud'.complete
      PROVE  /\ \A i \in 1 .. Len(obs') : obs'[i].elapsed # Unmeasured
             /\ bud'.actual =
                   Total([i \in 1 .. Len(obs') |-> obs'[i].elapsed])
  <2> DEFINE old == [i \in 1 .. n |-> obs[i].elapsed]
  <2>1. bud.complete /\ ~opaque /\ bud'.actual = bud.actual + elapsed
    BY <1>3, <1>5
  <2>2. /\ \A i \in 1 .. n : obs[i].elapsed # Unmeasured
        /\ bud.actual = Total(old)
    BY <2>1 DEF Exact, KnownElapsedSummed
  <2>3. /\ n \in Nat /\ Len(obs') = n + 1 /\ obs'[n + 1] = o
        /\ \A i \in 1 .. n : obs'[i] = obs[i]
    BY <1>1, <1>2
  <2>9. \A i \in 1 .. n : obs[i].elapsed \in Elapsed
    <3>1. \A i \in 1 .. n : obs[i] \in Observation
      BY <1>1
    <3> QED
      BY <3>1 DEF Observation
  <2>4. elapsed # Unmeasured
    BY <2>1 DEF Opaque
  <2>5. \A i \in 1 .. Len(obs') : obs'[i].elapsed # Unmeasured
    <3> SUFFICES ASSUME NEW i \in 1 .. (n + 1)
                 PROVE  obs'[i].elapsed # Unmeasured
      BY <2>3
    <3>1. CASE i = n + 1
      BY <2>3, <2>4, <3>1
    <3>2. CASE i \in 1 .. n
      BY <2>2, <2>3, <3>2
    <3> QED
      BY <2>3, <3>1, <3>2
  <2>6. old \in Seq(Elapsed) /\ Len(old) = n
    BY <2>3, <2>9
  <2>7. [i \in 1 .. Len(obs') |-> obs'[i].elapsed] = Append(old, elapsed)
    <3> DEFINE new == [i \in 1 .. Len(obs') |-> obs'[i].elapsed]
    <3>1. new = [i \in 1 .. (n + 1) |-> IF i = n + 1 THEN elapsed
                                        ELSE obs[i].elapsed]
      BY <2>3
    <3>2. Append(old, elapsed) =
             [i \in 1 .. (n + 1) |-> IF i = n + 1 THEN elapsed
                                     ELSE obs[i].elapsed]
      BY <2>3, <2>6
    <3> QED
      BY <3>1, <3>2
  <2> HIDE DEF old, o, opaque, n
  <2>8. Total(Append(old, elapsed)) = Total(old) + elapsed
    BY <1>2, <2>6, TotalAppend
  <2> QED
    BY <2>1, <2>2, <2>5, <2>7, <2>8
<1> QED
  BY <1>4, <1>5 DEF Exact, KnownElapsedSummed

\* Every call of the budget keeps the books exact.
LEMMA NextExact == Inv /\ Exact /\ [Next]_vars => Exact'
<1> SUFFICES ASSUME Inv, Exact, [Next]_vars PROVE Exact'
  OBVIOUS
<1>1. ASSUME NEW uid \in Uid, Reserve(uid) PROVE Exact'
  BY <1>1, ReserveExact
<1>2. ASSUME NEW uid \in Uid, Censor(uid) PROVE Exact'
  BY <1>2, CensorExact
<1>3. ASSUME NEW status \in Status, NEW elapsed \in ElapsedChoice,
             NEW clean \in BOOLEAN, Settle(status, elapsed, clean)
      PROVE  Exact'
  BY <1>3, SettleExact
<1>4. CASE UNCHANGED vars
  BY <1>4 DEF vars, Exact, BooksMatchSlots, KnownElapsedSummed, Debited, Plan
<1> QED
  BY <1>1, <1>2, <1>3, <1>4 DEF Next

\* The books are exact in every reachable state.
THEOREM BudgetExact == Spec => []Exact
<1>1. Inv /\ Exact /\ [Next]_vars => Exact'
  BY NextExact
<1> QED
  BY <1>1, InitExact, BudgetInvariant, PTL DEF Spec

\* What was let through, counted slot by slot and at its full envelope, stays
\* within the declared caps: no outcome of a task makes room for another one.
THEOREM SlotsWithinCaps == Spec => []SpentWithinCaps
<1>1. Inv /\ Exact => SpentWithinCaps
  BY DEF Inv, WithinDeclaredCaps, Exact, BooksMatchSlots, SpentWithinCaps
<1> QED
  BY <1>1, BudgetInvariant, BudgetExact, PTL

\* An elapsed time the budget asserts is the sum of measured settlements, one
\* for each of them.
THEOREM ElapsedExact == Spec => []AssertedElapsedIsExact
<1>1. Exact => AssertedElapsedIsExact
  BY DEF Exact, KnownElapsedSummed, AssertedElapsedIsExact, AssertsElapsed
<1> QED
  BY <1>1, BudgetExact, PTL
=============================================================================
