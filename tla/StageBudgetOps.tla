---------------------------- MODULE StageBudgetOps ----------------------------
(***************************************************************************)
(* The declared task budget of src/data/prospective_stage_budget_v1.py as  *)
(* pure operators: the validation of a declared plan, and the three things *)
(* that can happen to a budget (a debit, a denial, a settlement).  Both    *)
(* the in-memory budget (StageBudget) and the journal that replays it from *)
(* disk (BudgetJournal) are built from these operators, as in the code,    *)
(* where the journal copies a DeclaredTaskBudget and calls it.             *)
(*                                                                         *)
(* A definition whose comment starts with "Mutant" is no part of the model:*)
(* it is a wrong variant of the definition that follows it, kept to show   *)
(* which property notices the mistake.                                     *)
(***************************************************************************)
EXTENDS Naturals, Sequences, FiniteSets

CONSTANTS
  Uid,            \* task identifiers
  Request,        \* request digests a physical task is bound to
  Declarations,   \* the declarations offered to the constructor
  Unmeasured      \* elapsed_ns = None

Kind == {"STATUS_TRANSLATION", "TESSENT_STAGE"}
Stage == {"H", "M", "F"}
Status == {"SUCCESS", "FAILED", "TIMEOUT", "CANCELLED", "UNKNOWN"}

\* Values of _stopped; Running stands for None.
Running    == "RUNNING"
Censored   == "CENSORED_DECLARED_BUDGET_EXHAUSTED"
Unresolved == "STOP_UNRESOLVED_OBSERVATION"
Overrun    == "STOP_OBSERVED_ENVELOPE_OVERRUN"
Failed     == "STOP_FAILED_TASK_NO_RETRY"
Stop == {Running, Censored, Unresolved, Overrun, Failed}

Unsettled == "UNSETTLED"    \* a uid that is no key of _settled
NoSlot == 0                 \* _active is None; slots count from 1

Node == [uid : Uid, kind : Kind, stage : Stage, req : Request,
         deps : SUBSET Uid, timeout : Nat \ {0}, cleanup : Nat \ {0}]

Declaration == [plan : Seq(Node), caps : [Kind -> Nat], phase : Nat \ {0}]

Budget == [counts : [Kind -> Nat], reserved : Nat, actual : Nat,
           complete : BOOLEAN, index : Nat, active : Nat,
           settled : [Uid -> Status \cup {Unsettled}], stopped : Stop]

Elapsed == Nat \cup {Unmeasured}

ASSUME DeclarationsAssumption == Declarations \subseteq Declaration
ASSUME UnmeasuredAssumption == Unmeasured \notin Nat

-----------------------------------------------------------------------------
\* The constructor's checks.

\* Mutant: the translation is not bound to the same request.
TranslatesAnyRequest(plan, j, i) ==
  /\ plan[i].deps = {plan[j].uid}
  /\ plan[j].kind = "STATUS_TRANSLATION"
  /\ plan[j].stage = plan[i].stage

\* Slot j holds the translation whose output slot i consumes.
Translates(plan, j, i) ==
  /\ plan[i].deps = {plan[j].uid}
  /\ plan[j].kind = "STATUS_TRANSLATION"
  /\ plan[j].stage = plan[i].stage
  /\ plan[j].req = plan[i].req

NodeOK(plan, i) ==
  /\ \A j \in 1 .. (i - 1) :
        /\ plan[j].uid # plan[i].uid
        /\ <<plan[j].kind, plan[j].req>> # <<plan[i].kind, plan[i].req>>
  /\ \/ /\ plan[i].kind = "STATUS_TRANSLATION"
        /\ plan[i].stage # "H"
        /\ plan[i].deps = {}
     \/ /\ plan[i].kind = "TESSENT_STAGE"
        /\ plan[i].stage = "H"
        /\ plan[i].deps = {}
     \/ /\ plan[i].kind = "TESSENT_STAGE"
        /\ plan[i].stage # "H"
        /\ \E j \in 1 .. (i - 1) : Translates(plan, j, i)

DeclarationOK(d) ==
  /\ d.plan # <<>>
  /\ d.caps["TESSENT_STAGE"] > 0
  /\ \A i \in 1 .. Len(d.plan) : NodeOK(d.plan, i)

-----------------------------------------------------------------------------
\* The budget and its operations.

InitBudget ==
  [counts |-> [k \in Kind |-> 0], reserved |-> 0, actual |-> 0,
   complete |-> TRUE, index |-> 0, active |-> NoSlot,
   settled |-> [u \in Uid |-> Unsettled], stopped |-> Running]

Envelope(node) == node.timeout + node.cleanup

NextNode(d, b) == d.plan[b.index + 1]

\* reserve(uid) passes its require() calls: exactly the next slot, once
\* nothing is active, with every dependency settled as a SUCCESS.
Reservable(d, b, uid) ==
  /\ b.stopped = Running
  /\ b.active = NoSlot
  /\ b.index < Len(d.plan)
  /\ uid = NextNode(d, b).uid
  /\ \A u \in NextNode(d, b).deps : b.settled[u] = "SUCCESS"

Exhausted(d, b) ==
  LET node == NextNode(d, b)
  IN  \/ b.counts[node.kind] >= d.caps[node.kind]
      \/ b.reserved + Envelope(node) > d.phase

Deny(b) == [b EXCEPT !.stopped = Censored]

Debit(d, b) ==
  LET node == NextNode(d, b)
  IN  [b EXCEPT !.counts[node.kind] = @ + 1,
                !.reserved = @ + Envelope(node),
                !.active = b.index + 1,
                !.index = @ + 1]

\* A settlement whose cost or outcome is not known.
Opaque(status, elapsed, clean) ==
  elapsed = Unmeasured \/ ~clean \/ status = "UNKNOWN"

\* Mutant: a successful task may take longer than its envelope.
StopAfterNoOverrun(d, b, status, elapsed, clean) ==
  IF Opaque(status, elapsed, clean) THEN Unresolved
  ELSE IF status # "SUCCESS" THEN Failed
  ELSE b.stopped

\* The value of _stopped after settle(); reserve() left it at None.
StopAfter(d, b, status, elapsed, clean) ==
  IF Opaque(status, elapsed, clean) THEN Unresolved
  ELSE IF elapsed > Envelope(d.plan[b.active]) THEN Overrun
  ELSE IF status # "SUCCESS" THEN Failed
  ELSE b.stopped

\* Mutant: a task gives the time it did not use back.
SettlementRefund(d, b, status, elapsed, clean) ==
  LET known == ~Opaque(status, elapsed, clean)
      used == IF known THEN elapsed ELSE Envelope(d.plan[b.active])
  IN  [b EXCEPT
         !.reserved = @ - Envelope(d.plan[b.active]) + used,
         !.complete = @ /\ known,
         !.actual = IF known THEN @ + elapsed ELSE @,
         !.stopped = StopAfter(d, b, status, elapsed, clean),
         !.settled[d.plan[b.active].uid] = status,
         !.active = NoSlot]

\* Mutant: an unknown cost does not spoil the sum.
SettlementStaysComplete(d, b, status, elapsed, clean) ==
  [b EXCEPT
     !.actual = IF Opaque(status, elapsed, clean) THEN @ ELSE @ + elapsed,
     !.stopped = StopAfter(d, b, status, elapsed, clean),
     !.settled[d.plan[b.active].uid] = status,
     !.active = NoSlot]

Settlement(d, b, status, elapsed, clean) ==
  [b EXCEPT
     !.complete = @ /\ ~Opaque(status, elapsed, clean),
     !.actual = IF Opaque(status, elapsed, clean) THEN @ ELSE @ + elapsed,
     !.stopped = StopAfter(d, b, status, elapsed, clean),
     !.settled[d.plan[b.active].uid] = status,
     !.active = NoSlot]

-----------------------------------------------------------------------------
\* What snapshot() reports.

SettledUids(b) == {u \in Uid : b.settled[u] # Unsettled}

AssertsElapsed(b) == b.complete /\ b.active = NoSlot

DeclaredPlanComplete(d, b) ==
  /\ b.index = Len(d.plan)
  /\ Cardinality(SettledUids(b)) = Len(d.plan)
  /\ b.stopped = Running
=============================================================================
