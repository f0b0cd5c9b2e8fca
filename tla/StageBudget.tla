------------------------------ MODULE StageBudget ------------------------------
(***************************************************************************)
(* DeclaredTaskBudget (src/data/prospective_stage_budget_v1.py): a plan of *)
(* ordered task slots, debited one at a time before a token exists, never  *)
(* refunded, and stopped for good by the first thing that goes wrong.      *)
(*                                                                         *)
(* This is also the abstract specification of the durable journal: the     *)
(* acknowledged state of BudgetJournal implements it.                      *)
(***************************************************************************)
EXTENDS StageBudgetOps

CONSTANT ElapsedChoice    \* bounds the elapsed_ns a caller may report
ASSUME ElapsedChoiceAssumption == ElapsedChoice \subseteq Elapsed

VARIABLES
  decl,   \* the validated declaration: plan, caps, phase envelope
  bud,    \* the budget
  obs     \* history: the settlements in order, one per settled slot

vars == <<decl, bud, obs>>

Observation == [status : Status, elapsed : Elapsed, clean : BOOLEAN]

Init ==
  /\ decl \in {d \in Declarations : DeclarationOK(d)}
  /\ bud = InitBudget
  /\ obs = <<>>

\* reserve(): the slot is debited, and its token becomes the active one.
Reserve(uid) ==
  /\ Reservable(decl, bud, uid)
  /\ ~Exhausted(decl, bud)
  /\ bud' = Debit(decl, bud)
  /\ UNCHANGED <<decl, obs>>

\* reserve() on an exhausted budget: censored, and nothing is debited.
Censor(uid) ==
  /\ Reservable(decl, bud, uid)
  /\ Exhausted(decl, bud)
  /\ bud' = Deny(bud)
  /\ UNCHANGED <<decl, obs>>

\* settle() with the active token.
Settle(status, elapsed, clean) ==
  /\ bud.active # NoSlot
  /\ bud' = Settlement(decl, bud, status, elapsed, clean)
  /\ obs' = Append(obs, [status |-> status, elapsed |-> elapsed,
                         clean |-> clean])
  /\ UNCHANGED decl

Next ==
  \/ \E uid \in Uid : Reserve(uid) \/ Censor(uid)
  \/ \E status \in Status, elapsed \in ElapsedChoice, clean \in BOOLEAN :
        Settle(status, elapsed, clean)

Spec == Init /\ [][Next]_vars

-----------------------------------------------------------------------------
TypeOK ==
  /\ decl \in Declaration
  /\ bud \in Budget
  /\ obs \in Seq(Observation)

Debited == 1 .. bud.index

Plan == decl.plan

\* The sum of a sequence of numbers.
Total(s) ==
  LET sum[i \in 0 .. Len(s)] == IF i = 0 THEN 0 ELSE sum[i - 1] + s[i]
  IN  sum[Len(s)]

\* The books stay within the caps of the constructor.
WithinDeclaredCaps ==
  /\ \A k \in Kind : bud.counts[k] <= decl.caps[k]
  /\ bud.reserved <= decl.phase

\* What was really let through stays within the caps, whatever the books say:
\* every debited slot counts once and at its full envelope, so that a failed,
\* cancelled or unknown task never makes room for another one (reserve and
\* settle, lines 84 and 105).
SpentWithinCaps ==
  /\ \A k \in Kind :
        Cardinality({i \in Debited : Plan[i].kind = k}) <= decl.caps[k]
  /\ Total([i \in Debited |-> Envelope(Plan[i])]) <= decl.phase

\* An incremental (M or F) Tessent stage is only ever debited after the
\* translation of the same stage and the same request has succeeded: this
\* takes both the constructor's binding checks and reserve's dependency one.
IncrementalAfterTranslation ==
  \A i \in Debited :
     Plan[i].kind = "TESSENT_STAGE" /\ Plan[i].stage # "H" =>
        \E j \in 1 .. (i - 1) :
           /\ Plan[j].kind = "STATUS_TRANSLATION"
           /\ Plan[j].stage = Plan[i].stage
           /\ Plan[j].req = Plan[i].req
           /\ bud.settled[Plan[j].uid] = "SUCCESS"

\* A plan is reported complete only if every slot was settled as a verified
\* SUCCESS of known cost within its own envelope.
CompleteIsVerifiedSuccess ==
  DeclaredPlanComplete(decl, bud) =>
     /\ Len(obs) = Len(Plan)
     /\ \A i \in 1 .. Len(obs) :
           /\ obs[i].status = "SUCCESS"
           /\ obs[i].clean
           /\ obs[i].elapsed \in 0 .. Envelope(Plan[i])

\* A sum of elapsed time is asserted only when every settlement is known, and
\* then it is the sum of what was observed.
AssertedElapsedIsExact ==
  AssertsElapsed(bud) =>
     /\ \A i \in 1 .. Len(obs) : obs[i].elapsed # Unmeasured
     /\ bud.actual = Total([i \in 1 .. Len(obs) |-> obs[i].elapsed])

\* The cost observed so far stays within what was reserved for it, unless an
\* overrun was observed and has stopped the plan.
ObservedWithinReserved ==
  bud.stopped # Overrun => bud.actual <= bud.reserved

\* A stopped budget is final: no debit, no settlement, no other reason.
StopIsFinal == [][bud.stopped # Running => UNCHANGED bud]_vars
=============================================================================
