--------------------------- MODULE TaskBridge_proofs ---------------------------
(***************************************************************************)
(* Proofs about the task bridge.  Whatever the bridge does is, for each of *)
(* its two journals, one of the journal's own steps, or at most poisons    *)
(* it.  The journals promise nothing of the file of a writer that goes on  *)
(* behind an interrupt; the bridge's run does not (Halted): what would     *)
(* carry it on asks for the budget's active slot, or for the attempt's     *)
(* end, and neither is there.  So both journals keep their invariants.     *)
(*                                                                         *)
(* What is left to prove is what joins them.  In memory: the attempts of   *)
(* the lifecycle are those of the plan, none beyond the debited slots      *)
(* (InPlan, InRun), and the bridge's count of paired tasks is theirs but   *)
(* for the task in progress (InStep).  In the files: the rows of the       *)
(* budget are the debits of the plan and the settlements in the order of   *)
(* the slots (RowsTold), and what a settlement says was measured of its    *)
(* attempt, on the one host (SettledAsReaped), also while a file is a row  *)
(* ahead of what was acknowledged.  The files are read under the condition *)
(* that nobody else wrote into them; a load() of a foreign line is refused *)
(* anyway.                                                                 *)
(***************************************************************************)
EXTENDS TaskBridge, TLAPS

JP == INSTANCE Journals_proofs WITH ElapsedChoice <- Elapsed, Aid <- Uid,
                                   Profile <- Profiles

\* What the two journals assume of their constants.
LEMMA JournalsAssumed ==
  /\ Declarations \subseteq JP!Declaration
  /\ Unmeasured \notin Nat
  /\ Elapsed \subseteq JP!Elapsed
  /\ MaxEvents \in Nat
  /\ \A d \in Declarations : 2 * Len(d.plan) <= MaxEvents
  /\ Time \subseteq Nat
  /\ MaxAttempts \in Nat
  /\ NoIdentity \notin [host : Host, pid : Pid]
BY DeclarationsAssumption, UnmeasuredAssumption, BridgeAssumption
   DEF Declaration, JP!Declaration, Node, JP!Node, Kind, JP!Kind, Stage,
       JP!Stage, Elapsed, JP!Elapsed

-----------------------------------------------------------------------------
\* The rows of one kind.  Rows is a recursive function over the rows; a least
\* prefix on which two of them differ takes the place of an induction.

IsChoice(f, rows, k) ==
  f = [n \in 0 .. Len(rows) |->
         IF n = 0 THEN <<>>
         ELSE IF rows[n].kind = k THEN Append(f[n - 1], rows[n])
         ELSE f[n - 1]]

Chosen(s, r, k) == IF r.kind = k THEN Append(s, r) ELSE s

LEMMA LeastNumber ==
  ASSUME NEW T \in SUBSET Nat, T # {}
  PROVE  \E m \in T : \A n \in T : m <= n
BY JP!P!LeastNumber, JP!BudgetAssumptions, JournalsAssumed

\* A choice, point by point.
LEMMA ChoicePoints ==
  ASSUME NEW f, NEW s, NEW k, IsChoice(f, s, k), Len(s) \in Nat
  PROVE  \A n \in 0 .. Len(s) :
            f[n] = IF n = 0 THEN <<>> ELSE Chosen(f[n - 1], s[n], k)
<1>1. \A n \in 0 .. Len(s) :
         f[n] = IF n = 0 THEN <<>>
                ELSE IF s[n].kind = k THEN Append(f[n - 1], s[n])
                ELSE f[n - 1]
  BY DEF IsChoice
<1> QED
  BY <1>1 DEF Chosen

\* What is chosen of a file is chosen of any file it is a prefix of.
LEMMA ChoicesAgree ==
  ASSUME NEW k, NEW s, NEW t, NEW f, NEW g, Len(s) \in Nat, Len(t) \in Nat,
         IsChoice(f, s, k), IsChoice(g, t, k), Len(s) <= Len(t),
         \A n \in 1 .. Len(s) : s[n] = t[n]
  PROVE  \A n \in 0 .. Len(s) : f[n] = g[n]
<1> DEFINE T == {n \in 0 .. Len(s) : f[n] # g[n]}
<1>1. /\ \A n \in 0 .. Len(s) :
            f[n] = IF n = 0 THEN <<>> ELSE Chosen(f[n - 1], s[n], k)
      /\ \A n \in 0 .. Len(t) :
            g[n] = IF n = 0 THEN <<>> ELSE Chosen(g[n - 1], t[n], k)
  BY ChoicePoints
<1>2. SUFFICES ASSUME T # {} PROVE FALSE
  OBVIOUS
<1>3. PICK m \in T : \A n \in T : m <= n
  <2>1. T \in SUBSET Nat
    OBVIOUS
  <2> QED
    BY <1>2, <2>1, LeastNumber
<1>4. CASE m = 0
  <2>1. 0 \in 0 .. Len(s) /\ 0 \in 0 .. Len(t)
    OBVIOUS
  <2>2. f[0] = <<>> /\ g[0] = <<>>
    BY <1>1, <2>1, Zenon
  <2> QED
    BY <1>3, <1>4, <2>2
<1>5. CASE m # 0
  <2>1. m - 1 \in 0 .. Len(s) /\ m - 1 \notin T
    BY <1>3, <1>5
  <2>2. f[m - 1] = g[m - 1]
    BY <2>1
  <2> QED
    BY <1>1, <1>3, <1>5, <2>2
<1> QED
  BY <1>4, <1>5

\* Every file has its choice: a shortest prefix without one would extend one
\* that has it.
LEMMA ChoiceExists ==
  ASSUME NEW k, NEW S, NEW s \in Seq(S)
  PROVE  \E f : IsChoice(f, s, k)
<1> DEFINE T == {n \in 0 .. Len(s) : ~ \E f : IsChoice(f, SubSeq(s, 1, n), k)}
<1>1. SUFFICES ASSUME T # {} PROVE FALSE
  <2>1. Len(s) \notin T
    BY <1>1
  <2>2. SubSeq(s, 1, Len(s)) = s
    OBVIOUS
  <2>3. Len(s) \in 0 .. Len(s)
    OBVIOUS
  <2>4. \E f : IsChoice(f, SubSeq(s, 1, Len(s)), k)
    BY <2>1, <2>3, Zenon
  <2> QED
    BY <2>2, <2>4, Zenon
<1>2. PICK m \in T : \A n \in T : m <= n
  <2>1. T \in SUBSET Nat
    OBVIOUS
  <2> QED
    BY <1>1, <2>1, LeastNumber
<1>3. CASE m = 0
  <2>1. Len(SubSeq(s, 1, 0)) = 0
    OBVIOUS
  <2>2. IsChoice([n \in 0 .. 0 |-> <<>>], SubSeq(s, 1, 0), k)
    BY <2>1 DEF IsChoice
  <2> QED
    BY <1>2, <1>3, <2>2
<1>4. CASE m # 0
  <2> DEFINE u == SubSeq(s, 1, m - 1)
             t == SubSeq(s, 1, m)
  <2>1. m - 1 \in 0 .. Len(s) /\ m - 1 \notin T /\ m \in 1 .. Len(s)
    BY <1>2, <1>4
  <2>2. PICK f : IsChoice(f, u, k)
    BY <2>1
  <2>3. /\ Len(u) = m - 1 /\ Len(t) = m
        /\ \A n \in 1 .. (m - 1) : u[n] = t[n]
    BY <2>1
  <2> DEFINE g == [n \in 0 .. m |-> IF n = m THEN Chosen(f[m - 1], t[m], k)
                                    ELSE f[n]]
  <2> HIDE DEF u, t
  <2>4. \A n \in 0 .. (m - 1) :
           f[n] = IF n = 0 THEN <<>> ELSE Chosen(f[n - 1], u[n], k)
    BY <2>1, <2>2, <2>3, ChoicePoints
  <2>5. \A n \in 0 .. m :
           g[n] = IF n = 0 THEN <<>> ELSE Chosen(g[n - 1], t[n], k)
    <3> SUFFICES ASSUME NEW n \in 0 .. m
                 PROVE  g[n] = IF n = 0 THEN <<>>
                               ELSE Chosen(g[n - 1], t[n], k)
      OBVIOUS
    <3>1. CASE n = m
      <4>1. n # 0 /\ n - 1 \in 0 .. m /\ n - 1 # m
        BY <2>1, <3>1
      <4> QED
        BY <3>1, <4>1
    <3>2. CASE n = 0
      BY <2>1, <2>4, <3>2
    <3>3. CASE n # m /\ n # 0
      <4>1. n \in 1 .. (m - 1) /\ n - 1 \in 0 .. (m - 1) /\ n - 1 # m
        BY <2>1, <3>3
      <4>2. u[n] = t[n]
        BY <2>3, <4>1
      <4>3. f[n] = Chosen(f[n - 1], u[n], k)
        BY <2>4, <4>1
      <4> QED
        BY <4>1, <4>2, <4>3
    <3> QED
      BY <3>1, <3>2, <3>3
  <2>6. g = [n \in 0 .. m |->
               IF n = 0 THEN <<>>
               ELSE IF t[n].kind = k THEN Append(g[n - 1], t[n])
               ELSE g[n - 1]]
    <3>1. g = [n \in 0 .. m |-> g[n]]
      OBVIOUS
    <3>2. \A n \in 0 .. m :
             g[n] = IF n = 0 THEN <<>>
                    ELSE IF t[n].kind = k THEN Append(g[n - 1], t[n])
                    ELSE g[n - 1]
      <4> HIDE DEF g
      <4> QED
        BY <2>5 DEF Chosen
    <3> HIDE DEF g
    <3> QED
      BY <3>1, <3>2
  <2>7. IsChoice(g, t, k)
    <3> HIDE DEF g
    <3> QED
      BY <2>3, <2>6 DEF IsChoice
  <2> QED
    BY <1>2, <2>7 DEF t
<1> QED
  BY <1>3, <1>4

\* The recursive definition of Rows means what it says.
LEMMA RowsIsChoice ==
  ASSUME NEW k, NEW S, NEW s \in Seq(S)
  PROVE  \E f : IsChoice(f, s, k) /\ Rows(s, k) = f[Len(s)]
<1> DEFINE f == CHOOSE f : IsChoice(f, s, k)
<1>1. IsChoice(f, s, k)
  BY ChoiceExists
<1>2. Rows(s, k) = f[Len(s)]
  BY DEF Rows, IsChoice
<1> QED
  BY <1>1, <1>2

LEMMA RowsEmpty ==
  ASSUME NEW k
  PROVE  Rows(<<>>, k) = <<>>
<1>1. <<>> \in Seq(Nat) /\ Len(<<>>) = 0
  OBVIOUS
<1>2. PICK f : IsChoice(f, <<>>, k) /\ Rows(<<>>, k) = f[0]
  BY <1>1, RowsIsChoice
<1> QED
  BY <1>1, <1>2 DEF IsChoice

\* One more row is the last of its own kind.
LEMMA RowsAppend ==
  ASSUME NEW k, NEW S, NEW s \in Seq(S), NEW r \in S
  PROVE  Rows(Append(s, r), k) = Chosen(Rows(s, k), r, k)
<1> DEFINE t == Append(s, r)
<1>1. /\ t \in Seq(S) /\ Len(t) = Len(s) + 1 /\ Len(s) \in Nat
      /\ t[Len(t)] = r /\ \A n \in 1 .. Len(s) : s[n] = t[n]
  OBVIOUS
<1> HIDE DEF t
<1>2. PICK f : IsChoice(f, s, k) /\ Rows(s, k) = f[Len(s)]
  BY RowsIsChoice
<1>3. PICK g : IsChoice(g, t, k) /\ Rows(t, k) = g[Len(t)]
  BY <1>1, RowsIsChoice
<1>4. f[Len(s)] = g[Len(s)]
  BY <1>1, <1>2, <1>3, ChoicesAgree
<1>5. g[Len(t)] = Chosen(g[Len(t) - 1], t[Len(t)], k)
  BY <1>1, <1>3, ChoicePoints
<1>6. Len(t) - 1 = Len(s)
  BY <1>1
<1> QED
  BY <1>1, <1>2, <1>3, <1>4, <1>5, <1>6 DEF t
-----------------------------------------------------------------------------
\* The steps of the bridge are steps of the journals.

Budgeted == [JP!Next]_(JP!vars)
Lived == [JP!LNext]_(JP!lvars)

LifePoison ==
  /\ lpoisoned' \in {lpoisoned, TRUE}
  /\ UNCHANGED <<lkept, lpc, run>>

\* finish() raises in the bridge, behind snapshots that may have poisoned.
LifeRefused ==
  /\ lpc = "finish"
  /\ lpoisoned' \in {lpoisoned, TRUE}
  /\ run' = [run EXCEPT !.problem = TRUE]
  /\ JP!Goto("cleanup")
  /\ UNCHANGED lkept

LEMMA SameInit ==
  ASSUME Init
  PROVE  JP!Init /\ JP!LInit
<1>1. B!Init /\ L!LInit
  BY DEF Init
<1>2. JP!Init
  BY <1>1
     DEF B!Init, JP!Init, DeclarationOK, JP!DeclarationOK, B!DeclarationOK,
         NodeOK, JP!NodeOK, B!NodeOK, Translates, JP!Translates, B!Translates,
         InitBudget, JP!InitBudget, B!InitBudget, Kind, JP!Kind, B!Kind,
         NoSlot, JP!NoSlot, B!NoSlot, Unsettled, JP!Unsettled, B!Unsettled,
         Running, JP!Running, B!Running, B!NoRow, JP!NoRow
<1>3. JP!LInit
  BY <1>1 DEF L!LInit, JP!LInit, L!NoRun, JP!NoRun, L!NoLRow, JP!NoLRow
<1> QED
  BY <1>2, <1>3

\* The operators the two journals and the bridge share.
LEMMA BeginReserveSame ==
  ASSUME NEW uid \in Uid, B!BeginReserve(uid)
  PROVE  Budgeted
<1>1. JP!BeginReserve(uid)
  BY DEF B!BeginReserve, JP!BeginReserve, B!Begin, JP!Begin, B!DebitRow,
         JP!DebitRow, B!Reservable, JP!Reservable, B!Exhausted,
         JP!Exhausted, B!NextNode, JP!NextNode, B!Envelope, JP!Envelope,
         B!Running, JP!Running, B!NoSlot, JP!NoSlot, B!ram, JP!ram, B!store,
         JP!store
<1> QED
  BY <1>1 DEF Budgeted, JP!Next

LEMMA BeginSettleSame ==
  ASSUME NEW status \in Status, NEW elapsed \in Elapsed,
         B!BeginSettle(status, elapsed, TRUE)
  PROVE  Budgeted
<1>1. JP!BeginSettle(status, elapsed, TRUE)
  BY DEF B!BeginSettle, JP!BeginSettle, B!Begin, JP!Begin, B!NoSlot,
         JP!NoSlot, B!ram, JP!ram, B!store, JP!store
<1>2. status \in JP!Status
  BY DEF Status, JP!Status
<1> QED
  BY <1>1, <1>2 DEF Budgeted, JP!Next

LEMMA BudgetStepSame ==
  ASSUME \/ B!Refuse \/ B!Write \/ B!WriteFails \/ B!Fsync \/ B!FsyncFails
         \/ B!Adopt \/ B!Count \/ B!AdoptFails
         \/ B!Recheck \/ B!RecheckFails \/ B!Commit
  PROVE  Budgeted
<1>1. CASE B!Refuse \/ B!WriteFails \/ B!FsyncFails
  BY <1>1
     DEF B!Refuse, B!WriteFails, B!FsyncFails, JP!Refuse, JP!WriteFails,
         JP!FsyncFails, B!Raise, JP!Raise, B!ram, JP!ram, B!store, JP!store,
         B!NoRow, JP!NoRow, Budgeted, JP!Next
<1>2. CASE B!AdoptFails \/ B!RecheckFails
  BY <1>2
     DEF B!AdoptFails, B!RecheckFails, JP!AdoptFails, JP!RecheckFails,
         B!Raise, JP!Raise, B!ram, JP!ram, B!store, JP!store, B!NoRow,
         JP!NoRow, Budgeted, JP!Next
<1>3. CASE B!Write \/ B!Fsync \/ B!Adopt \/ B!Count \/ B!Recheck
  BY <1>3
     DEF B!Write, B!Fsync, B!Adopt, B!Count, B!Recheck, JP!Write, JP!Fsync,
         JP!Adopt, JP!Count, JP!Recheck, B!ram, JP!ram, B!store, JP!store,
         Budgeted, JP!Next
<1>4. CASE B!Commit
  <2>1. JP!Commit
    BY <1>4
       DEF B!Commit, JP!Commit, B!After, JP!After, B!Debit, JP!Debit, B!Deny,
           JP!Deny, B!Settlement, JP!Settlement, B!StopAfter, JP!StopAfter,
           B!Opaque, JP!Opaque, B!NextNode, JP!NextNode, B!Envelope,
           JP!Envelope, B!NoSlot, JP!NoSlot, B!Censored, JP!Censored,
           B!Unresolved, JP!Unresolved, B!Overrun, JP!Overrun, B!Failed,
           JP!Failed, B!store, JP!store, B!NoRow, JP!NoRow
  <2> QED
    BY <2>1 DEF Budgeted, JP!Next
<1> QED
  BY <1>1, <1>2, <1>3, <1>4

LEMMA BudgetAsideSame ==
  ASSUME B!Interrupt \/ B!Close \/ B!Interfere \/ B!Crash
  PROVE  Budgeted
<1>1. CASE B!Interrupt \/ B!Close \/ B!Crash
  BY <1>1
     DEF B!Interrupt, B!Close, B!Crash, JP!Interrupt, JP!Close, JP!Crash,
         B!ram, JP!ram, B!store, JP!store, B!NoRow, JP!NoRow, Budgeted,
         JP!Next
<1>2. CASE B!Interfere
  <2>1. JP!Interfere
    BY <1>2
       DEF B!Interfere, JP!Interfere, B!Intact, JP!Intact, B!Overwritten,
           JP!Overwritten, B!Stray, JP!Stray, B!ram, JP!ram
  <2> QED
    BY <2>1 DEF Budgeted, JP!Next
<1> QED
  BY <1>1, <1>2

LEMMA RunStartSame ==
  ASSUME NEW aid \in Uid, NEW p \in Profiles, NEW s \in Session,
         NEW ns \in Time, L!RunStart(aid, p, s, ns)
  PROVE  Lived
<1>1. JP!RunStart(aid, p, s, ns)
  BY DEF L!RunStart, JP!RunStart, L!Available, JP!Available, L!ActiveIn,
         JP!ActiveIn, L!Aids, JP!Aids, L!Goto, JP!Goto, L!book, JP!book,
         L!aside, JP!aside, L!Last, JP!Last
<1> QED
  BY <1>1 DEF Lived, JP!LNext

\* append() of the lifecycle journal.
LEMMA AppendSame ==
  ASSUME NEW r
  PROVE  /\ L!Writes(r) => JP!Writes(r)
         /\ L!Breaks(r) => JP!Breaks(r)
         /\ L!Rejects(r) => JP!Rejects(r)
<1>1. L!LAccepts(att, r) <=> JP!LAccepts(att, r)
  BY DEF L!LAccepts, JP!LAccepts, L!ActiveIn, JP!ActiveIn, L!Aids, JP!Aids,
         L!Identity, JP!Identity, L!Last, JP!Last
<1> QED
  BY <1>1
     DEF L!Writes, JP!Writes, L!Breaks, JP!Breaks, L!Rejects, JP!Rejects,
         L!Available, JP!Available, L!book, JP!book, L!NoLRow, JP!NoLRow

LEMMA PublishesSame == L!Publishes => JP!Publishes
BY DEF L!Publishes, JP!Publishes, L!LAfter, JP!LAfter, L!NoLRow, JP!NoLRow

LEMMA CallbackSame ==
  ASSUME \/ \E ident \in L!Identity \cup {NoIdentity} : L!Launch(ident)
         \/ L!LaunchFails
         \/ \E result \in L!Result : L!Finish(result)
         \/ L!FinishRaises
         \/ L!Cleanup
         \/ L!ReapRaises
  PROVE  Lived
<1>1. JP!RunStep
  BY DEF L!Launch, L!LaunchFails, L!Finish, L!FinishRaises, L!Cleanup,
         L!ReapRaises, JP!Launch, JP!LaunchFails, JP!Finish,
         JP!FinishRaises, JP!Cleanup, JP!ReapRaises, L!Spawned, JP!Spawned,
         L!Cleaned, JP!Cleaned, L!Goto, JP!Goto, L!Leave, JP!Leave, L!NoRun,
         JP!NoRun, L!book, JP!book, L!aside, JP!aside, L!NoLRow, JP!NoLRow,
         L!Identity, JP!Identity, L!Result, JP!Result, JP!RunStep
<1> QED
  BY <1>1 DEF Lived, JP!LNext

LEMMA LifeAppendSame ==
  ASSUME \/ L!AppendIntent
         \/ L!AppendLaunched
         \/ \E ns \in Time : L!AppendReaped(BoundSession, ns)
  PROVE  Lived
<1>1. CASE L!AppendIntent
  <2>1. JP!AppendIntent
    BY <1>1, AppendSame, PublishesSame
       DEF L!AppendIntent, JP!AppendIntent, L!IntentRow, JP!IntentRow, L!Goto,
           JP!Goto, L!Leave, JP!Leave, L!NoRun, JP!NoRun, L!aside, JP!aside
  <2> QED
    BY <2>1 DEF Lived, JP!LNext, JP!RunStep
<1>2. CASE L!AppendLaunched
  <2>1. JP!AppendLaunched
    BY <1>2, AppendSame, PublishesSame
       DEF L!AppendLaunched, JP!AppendLaunched, L!LaunchedRow,
           JP!LaunchedRow, L!Goto, JP!Goto, L!aside, JP!aside
  <2> QED
    BY <2>1 DEF Lived, JP!LNext, JP!RunStep
<1>3. ASSUME NEW ns \in Time, L!AppendReaped(BoundSession, ns)
      PROVE  Lived
  <2>1. JP!AppendReaped(BoundSession, ns)
    BY <1>3, AppendSame, PublishesSame
       DEF L!AppendReaped, JP!AppendReaped, L!ReapedRow, JP!ReapedRow,
           L!Leave, JP!Leave, L!NoRun, JP!NoRun, L!aside, JP!aside
  <2>2. BoundSession \in Session
    BY BridgeAssumption
  <2> QED
    BY <2>1, <2>2 DEF Lived, JP!LNext, JP!RunStep
<1> QED
  BY <1>1, <1>2, <1>3

LEMMA LifeAsideSame ==
  ASSUME \/ L!InterruptAppend \/ L!InterruptRun
         \/ L!LClose \/ L!LInterfere \/ L!LCrash
  PROVE  Lived
<1>1. CASE L!InterruptAppend \/ L!InterruptRun
  BY <1>1
     DEF L!InterruptAppend, JP!InterruptAppend, L!InterruptRun,
         JP!InterruptRun, L!book, JP!book, L!Leave, JP!Leave, L!NoRun,
         JP!NoRun, L!NoLRow, JP!NoLRow, L!Goto, JP!Goto, Lived, JP!LNext
<1>2. CASE L!LClose \/ L!LInterfere
  BY <1>2
     DEF L!LClose, JP!LClose, L!LInterfere, JP!LInterfere, L!book, JP!book,
         L!LStray, JP!LStray, Lived, JP!LNext
<1>3. CASE L!LCrash
  <2>1. ASSUME NEW r
        PROVE  L!LAccepts(att, r) <=> JP!LAccepts(att, r)
    BY DEF L!LAccepts, JP!LAccepts, L!ActiveIn, JP!ActiveIn, L!Aids, JP!Aids,
           L!Identity, JP!Identity, L!Last, JP!Last
  <2>2. JP!LCrash
    BY <1>3, <2>1
       DEF L!LCrash, JP!LCrash, L!Leave, JP!Leave, L!NoRun, JP!NoRun,
           L!NoLRow, JP!NoLRow, L!Available, JP!Available, L!IntentRow,
           JP!IntentRow, L!LaunchedRow, JP!LaunchedRow, L!ReapedRow,
           JP!ReapedRow
  <2> QED
    BY <2>2 DEF Lived, JP!LNext
<1> QED
  BY <1>1, <1>2, <1>3

-----------------------------------------------------------------------------
\* The inductive invariant.

JournalsInv ==
  JP!BudgetJournalInv /\ JP!LInv /\ JP!LSteady /\ JP!LFile

\* reserve() is called between two slots, and settle() within one.
InCall ==
  pc # "idle" => /\ bpc = "reserve" => bud.active = NoSlot
                 /\ bpc = "settle" => bud.active # NoSlot

\* Behind an interrupt that kept a row from a journal, the run stands where
\* only an exception takes it on: the slot is not debited or not settled, or
\* its attempt is not reaped.
BudgetHalted ==
  interrupted =>
    /\ pc = "idle"
    /\ \/ bpoisoned \/ bpc = "dead"
       \/ bpc = "reserve" /\ bud.active = NoSlot
       \/ bpc = "settle" /\ bud.active # NoSlot

LifeHalted ==
  linterrupted =>
    \/ bpoisoned \/ bpc = "dead"
    \/ bpc = "life" /\ ~(L!AllReaped(att) /\ Last(att).aid = Task)

Halted == BudgetHalted /\ LifeHalted

\* An attempt, or what will be one, is that of the task of slot i: it has the
\* profile of the binding and its clock, and the slot was debited.
OfTask(e, i) ==
  /\ e.aid = Plan[i].uid
  /\ e.profile = profiles[Plan[i].uid]
  /\ e.session = BoundSession
  /\ i <= bud.index

\* The attempts follow the plan, and so does an INTENT in the file that nobody
\* acknowledged.
InPlan ==
  /\ \A i \in 1 .. Len(att) : OfTask(att[i], i)
  /\ Len(ldisk) >= lacked + 1 /\ ldisk[lacked + 1].kind = "INTENT" =>
        OfTask(ldisk[lacked + 1], Len(att) + 1)

\* A run has a task, and the lifecycle moves in it only, on the active slot.
InRun ==
  /\ bpc \in {"reserve", "life", "settle"} => next < Len(Plan)
  /\ bpc = "life" => bud.active = next + 1
  /\ lpc # "idle" => bpc = "life"
  /\ lpc = "intent" => OfTask(run, Len(att) + 1)

\* The paired tasks are the attempts, but for the one in progress.
InStep ==
  /\ bpc \in {"idle", "reserve"} /\ ~bpoisoned => Len(att) = next
  /\ bpc = "settle" => Len(att) = next + 1

\* A settlement of slot i says what the attempt of that slot was.
Measured(A, s, i) ==
  /\ i \in 1 .. Len(A)
  /\ A[i].phase = "REAPED"
  /\ s.status = StatusOf(A[i].profile)
  /\ s.elapsed = A[i].end - A[i].start
  /\ s.clean = TRUE

\* Its process was on the host of the phase.
Housed(A, h, i) == A[i].ident.host = h

Told(A, h, r) ==
  r.kind = "SETTLE" => Measured(A, r, r.slot) /\ Housed(A, h, r.slot)

\* So does every settlement that was acknowledged, is on its way to the file,
\* or was left there by a call that failed.
SettledAsReaped ==
  /\ \A i \in 1 .. Len(obs) :
        Measured(att, obs[i], i) /\ Housed(att, host, i)
  /\ Told(att, host, row)
  /\ Len(disk) >= acked + 1 => Told(att, host, disk[acked + 1])

\* The acknowledged rows are the debits of the plan and the settlements that
\* were observed, in the order of the slots, unless somebody overwrote one.
RowsTold ==
  JP!Untouched =>
    /\ Debits(JP!AckedRows) \in Seq(JP!Row)
    /\ Len(Debits(JP!AckedRows)) = bud.index
    /\ \A i \in 1 .. bud.index : Debits(JP!AckedRows)[i].uid = Plan[i].uid
    /\ Settlements(JP!AckedRows) \in Seq(JP!Row)
    /\ Len(Settlements(JP!AckedRows)) = Len(obs)
    /\ \A i \in 1 .. Len(obs) :
          LET s == Settlements(JP!AckedRows)[i]
          IN  /\ s.slot = i
              /\ s.status = obs[i].status
              /\ s.elapsed = obs[i].elapsed
              /\ s.clean = obs[i].clean

BridgeInv ==
  /\ TypeOK /\ JournalsInv /\ InCall /\ Halted
  /\ InPlan /\ InRun /\ InStep /\ RowsTold /\ SettledAsReaped

\* What the journals' invariants say of the state the bridge reads.
LEMMA Read ==
  ASSUME JournalsInv
  PROVE  /\ Plan \in Seq(Node) /\ Len(Plan) \in Nat
         /\ \A i \in 1 .. Len(Plan) : Plan[i].uid \in Uid
         /\ \A i, j \in 1 .. Len(Plan) : Plan[i].uid = Plan[j].uid => i = j
         /\ bud.index \in 0 .. Len(Plan)
         /\ bud.active # NoSlot => bud.active = bud.index
         /\ att \in Seq(JP!Attempt) /\ Len(att) \in Nat
         /\ world \in Seq(JP!Process)
<1>1. decl \in Declarations /\ JP!DeclarationOK(decl)
  BY DEF JournalsInv, JP!BudgetJournalInv, JP!JInv, JP!Frozen
<1>2. Plan \in Seq(Node) /\ Len(Plan) \in Nat
  BY <1>1, DeclarationsAssumption DEF Declaration, Plan
<1>3. \A i \in 1 .. Len(Plan) : Plan[i].uid \in Uid
  <2>1. ASSUME NEW i \in 1 .. Len(Plan) PROVE Plan[i] \in Node
    BY <1>2
  <2> QED
    BY <2>1 DEF Node
<1>4. ASSUME NEW i \in 1 .. Len(Plan), NEW j \in 1 .. Len(Plan), i < j
      PROVE  Plan[i].uid # Plan[j].uid
  <2>1. JP!NodeOK(Plan, j)
    BY <1>1 DEF JP!DeclarationOK, Plan
  <2> QED
    BY <1>2, <1>4, <2>1 DEF JP!NodeOK
<1>5. \A i, j \in 1 .. Len(Plan) : Plan[i].uid = Plan[j].uid => i = j
  BY <1>2, <1>4
<1>6. /\ bud.index \in 0 .. Len(Plan)
      /\ bud.active # NoSlot => bud.active = bud.index
  BY DEF JournalsInv, JP!BudgetJournalInv, JP!P!Inv, JP!P!SlotsInOrder,
         JP!P!Plan, JP!P!NoSlot, NoSlot, Plan
<1>7. att \in Seq(JP!Attempt) /\ world \in Seq(JP!Process)
  BY DEF JournalsInv, JP!LInv, JP!LTypeOK
<1> QED
  BY <1>2, <1>3, <1>5, <1>6, <1>7

\* A settleable attempt is the last one: reaped, of its own process, and
\* measured.
LEMMA SettleableRead ==
  ASSUME JournalsInv, Settleable
  PROVE  /\ Len(att) \in 1 .. Len(att)
         /\ Last(att) = att[Len(att)]
         /\ L!AllReaped(att)
         /\ StatusOf(Last(att).profile) \in Status
         /\ Last(att).end - Last(att).start \in Elapsed
         /\ Last(att).ident \in L!Identity
<1>1. L!AllReaped(att)
  BY DEF Settleable, L!CompleteLive
<1>2. att # <<>> /\ \A i \in 1 .. Len(att) : att[i].phase = "REAPED"
  BY <1>1 DEF L!AllReaped
<1>3. att \in Seq(JP!Attempt)
  BY Read
<1>4. Len(att) \in 1 .. Len(att) /\ Last(att) = att[Len(att)]
  BY <1>2, <1>3 DEF Last
<1> DEFINE e == att[Len(att)]
<1>5. /\ e.profile \in Profiles /\ e.start \in Nat /\ e.end \in Nat
  <2>1. e \in JP!Attempt
    BY <1>3, <1>4
  <2> HIDE DEF e
  <2> QED
    BY <2>1, JournalsAssumed DEF JP!Attempt
<1>6. e.start <= e.end
  BY <1>4 DEF JournalsInv, JP!LInv, JP!BookInv, JP!Clocked
<1>7. e.ident \in L!Identity
  BY <1>2, <1>4
     DEF JournalsInv, JP!LInv, JP!BookInv, JP!Named, L!Identity, JP!Identity
<1>8. StatusOf(e.profile) \in Status
  BY <1>5 DEF StatusOf, Profiles, Status
<1>9. e.end - e.start \in Elapsed
  BY <1>5, <1>6 DEF Elapsed
<1> QED
  BY <1>1, <1>4, <1>7, <1>8, <1>9

-----------------------------------------------------------------------------
\* Every step of the bridge is a step of each journal, or poisons it; only the
\* refusal of finish() does both.
LEMMA StepOfJournals ==
  ASSUME BridgeInv, [Next]_vars
  PROVE  /\ Budgeted \/ SnapshotsBudget
         /\ Lived \/ LifePoison \/ LifeRefused
<1>0. JournalsInv
  BY DEF BridgeInv
<1>1. UNCHANGED bvars => Budgeted
  BY DEF bvars, Budgeted, JP!vars
<1>2. UNCHANGED lvars => Lived
  BY DEF lvars, Lived, JP!lvars
<1>3. CASE Start
  <2>1. next \in Nat /\ next + 1 \in 1 .. Len(Plan)
    BY <1>0, <1>3, Read DEF Start, BridgeInv, TypeOK
  <2>2. Task \in Uid
    BY <1>0, <2>1, Read DEF Task
  <2> QED
    BY <1>2, <1>3, <2>2, BeginReserveSame DEF Start
<1>4. CASE BudgetStep
  BY <1>2, <1>4, BudgetStepSame DEF BudgetStep
<1>5. ASSUME NEW ns \in Time, BeginLife(ns)
      PROVE  Budgeted /\ Lived
  <2>1. bpc = "reserve"
    BY <1>5 DEF BeginLife, DebitAcked
  <2>2. next \in Nat /\ next + 1 \in 1 .. Len(Plan)
    BY <1>0, <2>1, Read DEF BridgeInv, TypeOK, InRun
  <2>3. Task \in Uid
    BY <1>0, <2>2, Read DEF Task
  <2>4. profiles[Task] \in Profiles /\ BoundSession \in Session
    BY <2>3, BridgeAssumption DEF BridgeInv, TypeOK
  <2> QED
    BY <1>1, <1>5, <2>3, <2>4, RunStartSame DEF BeginLife
<1>6. CASE NotReady
  <2>1. SnapshotsBudget
    BY <1>6 DEF NotReady
  <2>2. Lived \/ LifeRefused
    <3>1. CASE /\ lpc = "finish"
               /\ lpoisoned' \in {lpoisoned, TRUE}
               /\ run' = [run EXCEPT !.problem = TRUE]
               /\ L!Goto("cleanup")
               /\ UNCHANGED lkept
      BY <3>1 DEF LifeRefused, L!Goto, JP!Goto
    <3>2. CASE /\ lpc = "launch"
               /\ lpoisoned' = TRUE
               /\ L!Leave
               /\ UNCHANGED lkept
      <4>1. L!LaunchFails
        BY <3>2 DEF L!LaunchFails, L!book, lkept
      <4> QED
        BY <4>1, CallbackSame
    <3> QED
      BY <1>6, <3>1, <3>2 DEF NotReady
  <2> QED
    BY <2>1, <2>2
<1>7. CASE BackendCall
  BY <1>1, <1>7, CallbackSame DEF BackendCall
<1>8. CASE LifecycleStep
  BY <1>1, <1>8, CallbackSame, LifeAppendSame DEF LifecycleStep
<1>9. CASE BeginSettle
  <2>1. Settleable /\ UNCHANGED lvars
    BY <1>9 DEF BeginSettle
  <2>2. B!BeginSettle(StatusOf(Last(att).profile),
                      Last(att).end - Last(att).start, TRUE)
    BY <1>9 DEF BeginSettle
  <2> QED
    BY <1>0, <1>2, <2>1, <2>2, SettleableRead, BeginSettleSame
<1>10. CASE Finish \/ Snapshot
  BY <1>10 DEF Finish, Snapshot, Snapshots, LifePoison
<1>11. CASE Fail
  BY <1>1, <1>2, <1>11 DEF Fail, Raise
<1>12. CASE CheckReady \/ Reenter
  BY <1>1, <1>2, <1>12 DEF CheckReady, Reenter
<1>13. CASE Close \/ Crash
  BY <1>13, BudgetAsideSame, LifeAsideSame DEF Close, Crash
<1>14. CASE Interfere \/ Interrupt
  BY <1>1, <1>2, <1>14, BudgetAsideSame, LifeAsideSame
     DEF Interfere, Interrupt
<1>15. CASE UNCHANGED vars
  BY <1>1, <1>2, <1>15 DEF vars
<1> QED
  BY <1>3, <1>4, <1>5, <1>6, <1>7, <1>8, <1>9, <1>10, <1>11, <1>12, <1>13,
     <1>14, <1>15 DEF Next, RunStep

\* The declaration is frozen, and a debited slot stays debited.
LEMMA BudgetGrows ==
  ASSUME BridgeInv, [Next]_vars
  PROVE  decl' = decl /\ Plan' = Plan /\ bud.index <= bud'.index
<1>1. JP!JInv /\ JP!P!Inv
  BY DEF BridgeInv, JournalsInv, JP!BudgetJournalInv
<1>2. CASE Budgeted
  BY <1>1, <1>2, JP!IndexGrows, JournalsAssumed DEF Budgeted, Plan
<1>3. CASE SnapshotsBudget
  <2>1. bud.index \in Nat /\ decl' = decl /\ bud' = bud
    BY <1>1, <1>3
       DEF SnapshotsBudget, bkept, JP!P!Inv, JP!P!TypeOK, JP!P!Budget
  <2> QED
    BY <2>1 DEF Plan
<1> QED
  BY <1>2, <1>3, StepOfJournals

\* Within a call nothing but its own commit touches the budget.
LEMMA CallKept ==
  ASSUME BridgeInv, [Next]_vars
  PROVE  InCall'
<1>1. InCall
  BY DEF BridgeInv
<1>2. CASE Start
  <2>1. bud.active = NoSlot /\ bud' = bud /\ bpc' = "reserve"
    BY <1>2 DEF Start, Goto, B!BeginReserve, B!Begin, B!Reservable, B!NoSlot,
                NoSlot, B!ram
  <2> QED
    BY <2>1 DEF InCall
<1>3. CASE BudgetStep
  <2>1. /\ bpc' = bpc
        /\ pc' # "idle" => pc # "idle" /\ bud' = bud
    BY <1>3
       DEF BudgetStep, own, B!Refuse, B!Write, B!WriteFails, B!Fsync,
           B!FsyncFails, B!Adopt, B!Count, B!AdoptFails, B!Recheck,
           B!RecheckFails, B!Commit, B!Raise, B!ram
  <2> QED
    BY <1>1, <2>1 DEF InCall
<1>4. CASE BeginSettle
  <2>1. bud.active # NoSlot /\ bud' = bud /\ bpc' = "settle"
    BY <1>4 DEF BeginSettle, Goto, B!BeginSettle, B!Begin, B!NoSlot, NoSlot,
                B!ram
  <2> QED
    BY <2>1 DEF InCall
<1>5. CASE \/ \E ns \in Time : BeginLife(ns)
           \/ Finish \/ Crash \/ Interrupt
  <2>1. pc' = "idle" \/ UNCHANGED <<pc, bud, bpc>>
    BY <1>5
       DEF BeginLife, DebitAcked, Finish, Settled, Snapshots, SnapshotsBudget,
           bkept, bvars, Crash, B!Crash, Interrupt, B!Interrupt, own
  <2> QED
    BY <1>1, <2>1 DEF InCall
<1>6. CASE CheckReady \/ NotReady \/ BackendCall \/ LifecycleStep
  <2>1. UNCHANGED <<pc, bud, bpc>>
    BY <1>6 DEF CheckReady, NotReady, BackendCall, LifecycleStep,
                SnapshotsBudget, bkept, bvars, own
  <2> QED
    BY <1>1, <2>1 DEF InCall
<1>7. CASE Fail \/ Reenter \/ Snapshot
  <2>1. UNCHANGED <<pc, bud>> /\ (bpc' = bpc \/ bpc' = "idle")
    BY <1>7 DEF Fail, Raise, Goto, Reenter, Snapshot, Snapshots,
                SnapshotsBudget, bkept, bvars
  <2> QED
    BY <1>1, <2>1 DEF InCall
<1>8. CASE Close \/ Interfere
  <2>1. UNCHANGED <<pc, bud, bpc>>
    BY <1>8 DEF Close, B!Close, Interfere, B!Interfere, B!ram, bvars, own
  <2> QED
    BY <1>1, <2>1 DEF InCall
<1>9. CASE UNCHANGED vars
  BY <1>1, <1>9 DEF vars, bvars, own, InCall
<1> QED
  BY <1>2, <1>3, <1>4, <1>5, <1>6, <1>7, <1>8, <1>9 DEF Next, RunStep

\* A call that an interrupt leaves is the last of the budget journal: the
\* slot reserve() was called for is not active, the one settle() was called for
\* still is, and the bridge asks before it goes on.
LEMMA BudgetHalts ==
  ASSUME BridgeInv, [Next]_vars
  PROVE  BudgetHalted'
<1>1. BudgetHalted /\ InCall /\ next \in Nat
  <2>1. next \in 0 .. Len(Plan) /\ Len(Plan) \in Nat
    BY Read DEF BridgeInv, TypeOK
  <2> QED
    BY <2>1 DEF BridgeInv, Halted, BudgetHalted
<1>2. CASE Start \/ BeginSettle
  <2>1. interrupted' = interrupted /\ ~bpoisoned /\ bpc \in {"idle", "life"}
    BY <1>2 DEF Start, BeginSettle, Settleable, B!BeginReserve,
                B!BeginSettle, B!Begin, B!ram
  <2> QED
    BY <1>1, <2>1 DEF BudgetHalted
<1>3. CASE BudgetStep
  <2>1. interrupted' = interrupted /\ pc # "idle"
    BY <1>3
       DEF BudgetStep, B!Refuse, B!Write, B!WriteFails, B!Fsync,
           B!FsyncFails, B!Adopt, B!Count, B!AdoptFails, B!Recheck,
           B!RecheckFails, B!Commit, B!Raise, B!ram
  <2> QED
    BY <1>1, <2>1 DEF BudgetHalted
<1>4. ASSUME NEW ns \in Time, BeginLife(ns)
      PROVE  BudgetHalted'
  <2>1. /\ interrupted' = interrupted /\ ~bpoisoned /\ bpc = "reserve"
        /\ bud.active = next + 1
    BY <1>4 DEF BeginLife, DebitAcked, bvars
  <2>2. bud.active # NoSlot
    BY <1>1, <2>1 DEF NoSlot
  <2> QED
    BY <1>1, <2>1, <2>2 DEF BudgetHalted
<1>5. CASE Finish
  <2>1. /\ interrupted' = interrupted /\ ~bpoisoned /\ bpc = "settle"
        /\ bud.active = NoSlot
    BY <1>5 DEF Finish, Settled, Snapshots, SnapshotsBudget, bkept
  <2> QED
    BY <1>1, <2>1 DEF BudgetHalted
<1>6. CASE CheckReady \/ NotReady \/ BackendCall \/ LifecycleStep
  <2>1. UNCHANGED <<interrupted, pc, bud, bpc, bpoisoned>>
    BY <1>6 DEF CheckReady, NotReady, BackendCall, LifecycleStep,
                SnapshotsBudget, bkept, bvars, own
  <2> QED
    BY <1>1, <2>1 DEF BudgetHalted
<1>7. CASE Fail \/ Reenter \/ Snapshot
  <2>1. UNCHANGED <<interrupted, pc>> /\ bpoisoned'
    BY <1>7 DEF Fail, Raise, Reenter, Snapshot, Snapshots, SnapshotsBudget,
                bkept, bvars
  <2> QED
    BY <1>1, <2>1 DEF BudgetHalted
<1>8. CASE Close \/ Interfere
  <2>1. UNCHANGED <<interrupted, pc, bud, bpc>>
    BY <1>8 DEF Close, B!Close, Interfere, B!Interfere, B!ram, bvars, own
  <2>2. bpoisoned => bpoisoned'
    BY <1>8 DEF Close, Interfere, own
  <2> QED
    BY <1>1, <2>1, <2>2 DEF BudgetHalted
<1>9. CASE Interrupt
  <2>1. CASE bpc \in {"reserve", "settle"} /\ B!Interrupt
    <3>1. /\ pc # "idle" /\ pc' = "idle"
          /\ UNCHANGED <<bud, bpc, bpoisoned>>
      BY <1>9, <2>1 DEF Interrupt, B!Interrupt, own
    <3> QED
      BY <1>1, <2>1, <3>1 DEF BudgetHalted, InCall
  <2>2. CASE UNCHANGED bvars
    <3>1. UNCHANGED <<interrupted, pc, bud, bpc, bpoisoned>>
      BY <1>9, <2>2 DEF Interrupt, bvars, own
    <3> QED
      BY <1>1, <3>1 DEF BudgetHalted
  <2> QED
    BY <1>9, <2>1, <2>2 DEF Interrupt
<1>10. CASE Crash
  BY <1>10 DEF Crash, Goto, B!Crash, BudgetHalted
<1>11. CASE UNCHANGED vars
  BY <1>1, <1>11 DEF vars, bvars, own, BudgetHalted
<1> QED
  BY <1>2, <1>3, <1>4, <1>5, <1>6, <1>7, <1>8, <1>9, <1>10, <1>11
     DEF Next, RunStep

\* An interrupt of the lifecycle is its last run, but for the cleanup.
LEMMA LifeStops ==
  ASSUME BridgeInv, [Next]_vars
  PROVE  JP!LSteady'
<1>1. /\ JP!LSteady /\ LifeHalted /\ InRun
      /\ lpc # "idle" => run \in JP!Run
  BY DEF BridgeInv, JournalsInv, JP!LInv, JP!WorldInv, JP!RunPlace, Halted,
         LifeHalted
<1>2. CASE \/ Start \/ BudgetStep \/ BeginSettle \/ Finish \/ CheckReady
           \/ Fail \/ Reenter \/ Snapshot \/ Close \/ Interfere
           \/ Interrupt /\ UNCHANGED lvars
           \/ UNCHANGED vars
  <2>1. UNCHANGED <<linterrupted, lrow, lpc, run>>
    BY <1>2 DEF Start, BudgetStep, BeginSettle, Finish, CheckReady, Fail,
                Raise, Reenter, Snapshot, Close, Interfere, Interrupt, vars,
                lvars, Snapshots, lkept, L!LClose, L!LInterfere, L!book
  <2> QED
    BY <1>1, <2>1 DEF JP!LSteady, JP!NoLRow
<1>3. ASSUME NEW ns \in Time, BeginLife(ns)
      PROVE  JP!LSteady'
  <2>1. ~bpoisoned /\ bpc = "reserve" /\ linterrupted' = linterrupted
    BY <1>3 DEF BeginLife, DebitAcked, L!RunStart, L!aside
  <2> QED
    BY <1>1, <2>1 DEF LifeHalted, JP!LSteady
<1>4. CASE NotReady \/ BackendCall
  <2>1. lpc \in {"launch", "finish"} /\ linterrupted' = linterrupted
    BY <1>4 DEF NotReady, BackendCall, lkept, L!Launch, L!LaunchFails,
                L!Finish, L!FinishRaises, L!aside
  <2> QED
    BY <1>1, <2>1 DEF JP!LSteady
<1>5. CASE LifecycleStep
  <2>1. CASE L!AppendIntent \/ L!AppendLaunched
    <3>1. lpc \in {"intent", "register"} /\ linterrupted' = linterrupted
      BY <2>1 DEF L!AppendIntent, L!AppendLaunched, L!aside
    <3> QED
      BY <1>1, <3>1 DEF JP!LSteady
  <2>2. CASE L!Cleanup
    <3>1. /\ lpc = "cleanup" /\ UNCHANGED <<linterrupted, lrow>>
          /\ (lpc' = "reap" /\ run' = run) \/ lpc' = "idle"
      BY <2>2 DEF L!Cleanup, L!book, L!Goto, L!Leave
    <3> QED
      BY <1>1, <3>1 DEF JP!LSteady, JP!NoLRow
  <2>3. ASSUME NEW ns \in Time, L!AppendReaped(BoundSession, ns)
        PROVE  JP!LSteady'
    <3>1. lpc = "reap" /\ ~run.problem /\ linterrupted' = linterrupted
      BY <2>3 DEF L!AppendReaped, L!aside
    <3> QED
      BY <1>1, <3>1 DEF JP!LSteady
  <2>4. CASE L!ReapRaises
    <3>1. UNCHANGED <<linterrupted, lrow>> /\ lpc' = "idle"
      BY <2>4 DEF L!ReapRaises, L!book, L!aside, L!Leave
    <3> QED
      BY <1>1, <3>1 DEF JP!LSteady, JP!NoLRow
  <2> QED
    BY <1>5, <2>1, <2>2, <2>3, <2>4 DEF LifecycleStep
<1>6. CASE L!InterruptAppend
  <2>1. /\ lrow' = JP!NoLRow
        /\ \/ lpc' = "idle"
           \/ /\ lpc = "register" /\ lpc' = "cleanup"
              /\ run' = [run EXCEPT !.problem = TRUE]
    BY <1>6 DEF L!InterruptAppend, L!NoLRow, JP!NoLRow, L!Leave, L!Goto
  <2>2. lpc = "register" => [run EXCEPT !.problem = TRUE].problem = TRUE
    BY <1>1 DEF JP!Run
  <2> QED
    BY <2>1, <2>2 DEF JP!LSteady, JP!NoLRow
<1>7. CASE L!InterruptRun
  <2>1. lrow = JP!NoLRow /\ lrow' = lrow /\ lpc' = "idle"
    BY <1>7 DEF L!InterruptRun, L!NoLRow, JP!NoLRow, L!book, L!Leave
  <2> QED
    BY <2>1 DEF JP!LSteady, JP!NoLRow
<1>8. CASE Crash
  <2>1. lrow' = JP!NoLRow /\ lpc' = "idle"
    BY <1>8 DEF Crash, L!LCrash, L!Leave, L!NoLRow, JP!NoLRow
  <2> QED
    BY <2>1 DEF JP!LSteady, JP!NoLRow
<1>9. Interrupt => UNCHANGED lvars \/ L!InterruptAppend \/ L!InterruptRun
  BY DEF Interrupt
<1> QED
  BY <1>2, <1>3, <1>4, <1>5, <1>6, <1>7, <1>8, <1>9 DEF Next, RunStep

\* The attempt of a run that is interrupted is not reaped, or not there.
LEMMA LifeHalts ==
  ASSUME BridgeInv, [Next]_vars
  PROVE  LifeHalted'
<1>1. /\ JP!LSteady /\ LifeHalted /\ InRun /\ InPlan /\ JournalsInv
      /\ JP!LInv
  BY DEF BridgeInv, JournalsInv, Halted, LifeHalted
<1>2. Plan' = Plan
  BY BudgetGrows
<1>3. CASE \/ Start \/ \E ns \in Time : BeginLife(ns)
  <2>1. linterrupted' = linterrupted /\ ~bpoisoned /\ bpc \in {"idle", "reserve"}
    BY <1>3 DEF Start, BeginLife, DebitAcked, lvars, L!RunStart, L!aside
  <2> QED
    BY <1>1, <2>1 DEF LifeHalted
<1>4. CASE BeginSettle
  <2>1. /\ linterrupted' = linterrupted /\ ~bpoisoned /\ bpc = "life"
        /\ L!AllReaped(att) /\ Last(att).aid = Task
    BY <1>1, <1>4, SettleableRead DEF BeginSettle, Settleable, lvars
  <2> QED
    BY <1>1, <2>1 DEF LifeHalted
<1>5. CASE Finish
  <2>1. linterrupted' = linterrupted /\ ~bpoisoned /\ bpc = "settle"
    BY <1>5 DEF Finish, Settled, Snapshots, lkept
  <2> QED
    BY <1>1, <2>1 DEF LifeHalted
<1>6. CASE \/ BudgetStep \/ CheckReady \/ Interfere
           \/ Interrupt /\ UNCHANGED lvars
           \/ UNCHANGED vars
  <2>1. UNCHANGED <<linterrupted, att, bpc, bpoisoned, next>>
    BY <1>6 DEF BudgetStep, CheckReady, Interfere, Interrupt, vars, lvars,
                own, L!LInterfere
  <2> QED
    BY <1>1, <1>2, <2>1 DEF LifeHalted, L!AllReaped, Last, Task
<1>7. CASE Fail \/ Reenter \/ Snapshot
  BY <1>7 DEF Fail, Raise, Reenter, Snapshot, LifeHalted
<1>8. CASE Close
  <2>1. UNCHANGED <<linterrupted, att, bpc, next>> /\ bpc = "idle"
    BY <1>8 DEF Close, L!LClose, L!book
  <2>2. bpoisoned => bpoisoned'
    BY <1>8 DEF Close
  <2> QED
    BY <1>1, <2>1, <2>2 DEF LifeHalted
<1>9. CASE Crash
  BY <1>9 DEF Crash, Goto, LifeHalted
<1>10. CASE NotReady \/ BackendCall
  <2>1. lpc \in {"launch", "finish"} /\ linterrupted' = linterrupted
    BY <1>10 DEF NotReady, BackendCall, lkept, L!Launch, L!LaunchFails,
                 L!Finish, L!FinishRaises, L!aside
  <2> QED
    BY <1>1, <2>1 DEF JP!LSteady, LifeHalted
<1>11. CASE LifecycleStep
  <2>1. UNCHANGED <<bpc, bpoisoned, next, linterrupted>>
    BY <1>11 DEF LifecycleStep, own, L!AppendIntent, L!AppendLaunched,
                 L!Cleanup, L!AppendReaped, L!ReapRaises, L!aside
  <2>2. ASSUME linterrupted
        PROVE  att' = att
    <3>1. lpc \in {"idle", "cleanup", "reap"} /\ (lpc = "reap" => run.problem)
      BY <1>1, <2>2 DEF JP!LSteady
    <3>2. L!Cleanup \/ L!ReapRaises
      BY <1>11, <3>1 DEF LifecycleStep, L!AppendIntent, L!AppendLaunched,
                         L!AppendReaped
    <3> QED
      BY <3>2 DEF L!Cleanup, L!ReapRaises, L!book
  <2> QED
    BY <1>1, <1>2, <2>1, <2>2 DEF LifeHalted, L!AllReaped, Last, Task
<1>12. CASE Interrupt /\ (L!InterruptAppend \/ L!InterruptRun)
  <2>1. /\ UNCHANGED <<att, bpc, next>>
        /\ lpc \in {"intent", "launch", "register", "cleanup", "reap"}
    BY <1>12 DEF Interrupt, own, L!InterruptAppend, L!InterruptRun, L!book
  <2>2. bpc = "life" /\ bud.active = next + 1
    BY <1>1, <2>1 DEF InRun
  <2>3. ASSUME L!AllReaped(att), Last(att).aid = Task
        PROVE  FALSE
    <3>1. /\ att # <<>> /\ \A i \in 1 .. Len(att) : att[i].phase = "REAPED"
          /\ att \in Seq(JP!Attempt) /\ Len(att) \in Nat
      BY <1>1, <2>3, Read DEF L!AllReaped
    <3>2. Len(att) \in 1 .. Len(att) /\ Last(att) = att[Len(att)]
      BY <3>1 DEF Last
    <3>3. lpc = "intent"
      BY <1>1, <2>1, <3>1, <3>2 DEF JP!LInv, JP!WorldInv, JP!RunPlace
    <3>4. next \in Nat /\ bud.index = next + 1 /\ bud.index \in 0 .. Len(Plan)
      <4>1. next \in Nat
        BY <1>1, Read DEF BridgeInv, TypeOK
      <4>2. bud.active # NoSlot
        BY <2>2, <4>1 DEF NoSlot
      <4> QED
        BY <1>1, <2>2, <4>1, <4>2, Read
    <3>5. Len(att) + 1 <= next + 1
      BY <1>1, <3>3, <3>4 DEF InRun, OfTask
    <3>6. Plan[Len(att)].uid = Plan[next + 1].uid
      BY <1>1, <2>3, <3>2 DEF InPlan, OfTask, Task
    <3>7. Len(att) \in 1 .. Len(Plan) /\ next + 1 \in 1 .. Len(Plan)
      BY <3>1, <3>2, <3>4, <3>5
    <3>8. Len(att) = next + 1
      BY <1>1, <3>6, <3>7, Read
    <3> QED
      BY <3>1, <3>4, <3>5, <3>8
  <2> QED
    BY <1>2, <2>1, <2>2, <2>3 DEF LifeHalted, L!AllReaped, Last, Task
<1>13. Interrupt => UNCHANGED lvars \/ L!InterruptAppend \/ L!InterruptRun
  BY DEF Interrupt
<1> QED
  BY <1>3, <1>4, <1>5, <1>6, <1>7, <1>8, <1>9, <1>10, <1>11, <1>12, <1>13
     DEF Next, RunStep

LEMMA HaltedKept ==
  ASSUME BridgeInv, [Next]_vars
  PROVE  JP!Steady' /\ JP!LSteady' /\ InCall' /\ Halted'
<1>1. JP!LSteady' /\ InCall'
  BY LifeStops, CallKept
<1>2. BudgetHalted' /\ LifeHalted'
  BY BudgetHalts, LifeHalts
<1>3. JP!Steady'
  BY <1>2 DEF BudgetHalted, JP!Steady
<1>4. Halted'
  BY <1>2 DEF Halted
<1> QED
  BY <1>1, <1>3, <1>4

\* Both journals keep their invariants, an attempt is added by the INTENT of
\* the run under way only, and whatever of an INTENT is left behind in the file
\* is that one's.
LEMMA BudgetKept ==
  ASSUME BridgeInv, [Next]_vars
  PROVE  JP!BudgetJournalInv'
<1>1. JP!BudgetJournalInv
  BY DEF BridgeInv, JournalsInv
<1>2. CASE Budgeted
  BY <1>1, <1>2, HaltedKept, JP!BudgetJournalStep, JournalsAssumed
     DEF Budgeted
<1>3. CASE SnapshotsBudget
  <2>1. poisoned \in BOOLEAN
    BY <1>1 DEF JP!BudgetJournalInv, JP!DiskInv, JP!JTyped
  <2>2. UNCHANGED <<decl, bud, obs, acked, events, writer, pc, row, disk,
                    synced, torn, file, interrupted>>
    BY <1>3 DEF SnapshotsBudget, bkept
  <2>3. poisoned' \in BOOLEAN /\ (poisoned => poisoned')
    <3>1. poisoned' = poisoned \/ poisoned' = TRUE
      BY <1>3 DEF SnapshotsBudget
    <3> QED
      BY <2>1, <3>1
  <2> QED
    BY <1>1, <2>2, <2>3, JP!BudgetJournalPoison, JournalsAssumed
<1> QED
  BY <1>2, <1>3, StepOfJournals

\* A new attempt, or an INTENT behind the acknowledged rows, is the run's.
TailFollows ==
  Len(ldisk') >= lacked' + 1 =>
     \/ /\ att' = att /\ Len(ldisk) >= lacked + 1
        /\ ldisk'[lacked' + 1] = ldisk[lacked + 1]
     \/ /\ att' = att /\ lpc = "intent"
        /\ ldisk'[lacked' + 1] = JP!IntentRow
     \/ ldisk'[lacked' + 1].kind # "INTENT"

LEMMA LifeKept ==
  ASSUME BridgeInv, [Next]_vars
  PROVE  /\ JP!LInv' /\ JP!LFile'
         /\ JP!AttemptsKept
         /\ Len(att') = Len(att) \/ JP!AttemptAdded
         /\ TailFollows
<1>1. JP!LInv /\ JP!LSteady /\ JP!LFile
  BY DEF BridgeInv, JournalsInv
<1>2. CASE Lived
  <2>1. JP!LInv'
    BY <1>1, <1>2, JP!LNextInv, JournalsAssumed DEF Lived
  <2>2. JP!LFile'
    BY <1>1, <1>2, JP!LFileStep, JournalsAssumed DEF Lived
  <2>3. JP!AttemptsKept /\ (Len(att') = Len(att) \/ JP!AttemptAdded)
    BY <1>1, <1>2, JP!OnlyIntentAdds, JournalsAssumed DEF Lived
  <2>4. ASSUME Len(ldisk') >= lacked' + 1
        PROVE  TailFollows
    BY <1>1, <1>2, <2>4, JP!TailIsOfRun, JournalsAssumed
       DEF Lived, TailFollows
  <2>5. TailFollows
    BY <2>4 DEF TailFollows
  <2> QED
    BY <2>1, <2>2, <2>3, <2>5
<1>3. CASE LifePoison \/ LifeRefused
  <2>1. lpoisoned \in BOOLEAN
    BY <1>1 DEF JP!LInv, JP!LTypeOK
  <2>2. UNCHANGED <<att, lacked, lwriter, lrow, ldisk, ltorn, lfile, world,
                    linterrupted>>
    BY <1>3 DEF LifePoison, LifeRefused, lkept
  <2>6. lpoisoned' \in BOOLEAN /\ (lpoisoned => lpoisoned')
    <3>1. lpoisoned' = lpoisoned \/ lpoisoned' = TRUE
      BY <1>3 DEF LifePoison, LifeRefused
    <3> QED
      BY <2>1, <3>1
  <2>3. JP!LInv'
    <3>1. CASE LifePoison
      BY <1>1, <2>2, <2>6, <3>1, JP!LPoisonInv, JournalsAssumed DEF LifePoison
    <3>2. CASE LifeRefused
      BY <1>1, <2>2, <2>6, <3>2, JP!LRefusedInv, JournalsAssumed DEF LifeRefused
    <3> QED
      BY <1>3, <3>1, <3>2
  <2>4. JP!LFile'
    BY <1>1, <2>2, <2>6, JP!LFilePoison, JournalsAssumed
  <2>5. JP!AttemptsKept /\ TailFollows
    BY <2>2 DEF JP!AttemptsKept, TailFollows
  <2> QED
    BY <2>2, <2>3, <2>4, <2>5
<1> QED
  BY <1>2, <1>3, StepOfJournals

LEMMA JournalsStep ==
  ASSUME BridgeInv, [Next]_vars
  PROVE  /\ JournalsInv'
         /\ decl' = decl /\ bud.index <= bud'.index
         /\ JP!AttemptsKept
         /\ Len(att') = Len(att) \/ JP!AttemptAdded
         /\ TailFollows
BY BudgetKept, LifeKept, HaltedKept, BudgetGrows DEF JournalsInv

-----------------------------------------------------------------------------
\* The bridge starts idle, with nothing paired, on two empty journals.
LEMMA InitBridge == Init => BridgeInv
<1> SUFFICES ASSUME Init PROVE BridgeInv
  OBVIOUS
<1>1. /\ bud.index = 0 /\ bpc = "idle" /\ next = 0 /\ disk = <<>> /\ acked = 0
      /\ obs = <<>> /\ row.kind = "NONE" /\ ldisk = <<>> /\ lacked = 0
      /\ pc = "idle" /\ ~interrupted /\ ~linterrupted
  BY DEF Init, B!Init, L!LInit, InitBudget, B!InitBudget, B!NoRow
<1>2. JournalsInv
  <2>1. JP!LSteady
    BY <1>1 DEF JP!LSteady
  <2> QED
    BY <2>1, SameInit, JP!BudgetJournalInit, JP!LInitInv, JP!LInitFile,
       JournalsAssumed
       DEF JournalsInv
<1>3. Len(att) = 0 /\ lpc = "idle"
  BY DEF Init, L!LInit
<1>4. TypeOK
  <2>1. next \in 0 .. Len(Plan)
    BY <1>2, Read DEF Init
  <2>2. bpoisoned \in BOOLEAN /\ bopen \in BOOLEAN /\ ready \in BOOLEAN
    BY DEF Init
  <2>3. /\ profiles \in ProfileMaps /\ bpc = "idle" /\ host = NoHost
        /\ ids = {}
    BY DEF Init
  <2> QED
    BY <2>1, <2>2, <2>3 DEF TypeOK
<1>5. InCall /\ Halted
  BY <1>1 DEF InCall, Halted, BudgetHalted, LifeHalted
<1>6. InPlan /\ InRun /\ InStep
  BY <1>1, <1>3 DEF InPlan, InRun, InStep
<1>7. RowsTold
  <2>1. JP!AckedRows = <<>>
    BY <1>1 DEF JP!AckedRows
  <2>2. Debits(JP!AckedRows) = <<>> /\ Settlements(JP!AckedRows) = <<>>
    <3>1. Debits(<<>>) = <<>> /\ Settlements(<<>>) = <<>>
      BY RowsEmpty DEF Debits, Settlements
    <3> QED
      BY <2>1, <3>1, Zenon
  <2>3. <<>> \in Seq(JP!Row) /\ Len(<<>>) = 0
    OBVIOUS
  <2> HIDE DEF JP!AckedRows
  <2> QED
    BY <1>1, <2>2, <2>3 DEF RowsTold
<1>8. SettledAsReaped
  BY <1>1 DEF SettledAsReaped, Told
<1> QED
  BY <1>2, <1>4, <1>5, <1>6, <1>7, <1>8 DEF BridgeInv

\* The binding is read once.
LEMMA BindingFixed ==
  ASSUME [Next]_vars
  PROVE  profiles' = profiles
BY DEF Next, RunStep, Start, BudgetStep, BeginLife, CheckReady, NotReady,
       BackendCall, LifecycleStep, BeginSettle, Finish, Fail, Raise, Reenter,
       Snapshot, Close, Interfere, Interrupt, Crash, vars

\* A new attempt is that of the run's task, whose slot is debited, and so is
\* an INTENT that only got as far as the file.
LEMMA PlanFollowed ==
  ASSUME BridgeInv, [Next]_vars
  PROVE  InPlan'
<1>1. /\ decl' = decl /\ profiles' = profiles /\ bud.index <= bud'.index
      /\ bud.index \in Nat /\ bud'.index \in Nat /\ Len(att) \in Nat
  <2>1. JournalsInv /\ JournalsInv'
    BY JournalsStep DEF BridgeInv
  <2>2. bud.index \in Nat /\ bud'.index \in Nat
    BY <2>1
       DEF JournalsInv, JP!BudgetJournalInv, JP!P!Inv, JP!P!TypeOK,
           JP!P!Budget
  <2> QED
    BY <2>1, <2>2, JournalsStep, Read, BindingFixed
<1>2. \A i \in 1 .. Len(att) : OfTask(att[i], i)
  BY DEF BridgeInv, InPlan
<1>3. lpc = "intent" => OfTask(run, Len(att) + 1)
  BY DEF BridgeInv, InRun
<1>4. ASSUME NEW i \in 1 .. Len(att)
      PROVE  /\ att'[i].aid = decl'.plan[i].uid
             /\ att'[i].profile = profiles'[decl'.plan[i].uid]
             /\ att'[i].session = BoundSession
             /\ i <= bud'.index
  <2>1. /\ att'[i].aid = att[i].aid /\ att'[i].profile = att[i].profile
        /\ att'[i].session = att[i].session
    BY JournalsStep DEF JP!AttemptsKept
  <2> QED
    BY <1>1, <1>2, <2>1 DEF OfTask, Plan
<1>5. ASSUME JP!AttemptAdded, NEW i, i = Len(att) + 1
      PROVE  /\ att'[i].aid = decl'.plan[i].uid
             /\ att'[i].profile = profiles'[decl'.plan[i].uid]
             /\ att'[i].session = BoundSession
             /\ i <= bud'.index
  BY <1>1, <1>3, <1>5 DEF OfTask, Plan, JP!AttemptAdded
<1>6. \A i \in 1 .. Len(att') : OfTask(att[i], i)'
  <2> SUFFICES ASSUME NEW i \in 1 .. Len(att')
               PROVE  /\ att'[i].aid = decl'.plan[i].uid
                      /\ att'[i].profile = profiles'[decl'.plan[i].uid]
                      /\ att'[i].session = BoundSession
                      /\ i <= bud'.index
    BY DEF OfTask, Plan
  <2>1. CASE Len(att') = Len(att)
    BY <1>4, <2>1
  <2>2. CASE JP!AttemptAdded
    <3>1. i \in 1 .. Len(att) \/ i = Len(att) + 1
      BY <1>1, <2>2 DEF JP!AttemptAdded
    <3> QED
      BY <1>4, <1>5, <2>2, <3>1
  <2> QED
    BY <2>1, <2>2, JournalsStep
<1>7. ASSUME Len(ldisk') >= lacked' + 1, ldisk'[lacked' + 1].kind = "INTENT"
      PROVE  LET r == ldisk'[lacked' + 1]
                 i == Len(att') + 1
             IN  /\ r.aid = decl'.plan[i].uid
                 /\ r.profile = profiles'[decl'.plan[i].uid]
                 /\ r.session = BoundSession
                 /\ i <= bud'.index
  <2>1. CASE /\ att' = att /\ Len(ldisk) >= lacked + 1
             /\ ldisk'[lacked' + 1] = ldisk[lacked + 1]
    <3>1. OfTask(ldisk[lacked + 1], Len(att) + 1)
      BY <1>7, <2>1 DEF BridgeInv, InPlan
    <3> QED
      BY <1>1, <2>1, <3>1 DEF OfTask, Plan
  <2>2. CASE /\ att' = att /\ lpc = "intent"
             /\ ldisk'[lacked' + 1] = JP!IntentRow
    <3>1. OfTask(JP!IntentRow, Len(att) + 1)
      BY <1>3, <2>2 DEF OfTask, JP!IntentRow
    <3> QED
      BY <1>1, <2>2, <3>1 DEF OfTask, Plan
  <2> QED
    BY <1>7, <2>1, <2>2, JournalsStep DEF TailFollows
<1> QED
  BY <1>6, <1>7 DEF InPlan, OfTask, Plan

\* The lifecycle's steps in a run never bring it back to its INTENT.
LEMMA IntentComesFirst ==
  ASSUME NotReady \/ BackendCall \/ LifecycleStep
  PROVE  /\ lpc' = "intent" => lpc = "intent" /\ UNCHANGED <<run, att>>
         /\ bpc = "life" /\ bpc' = "life"
         /\ UNCHANGED <<bud, profiles, bopen, next, host, ids, bpoisoned>>
<1>1. /\ bpc = "life" /\ bpc' = "life"
      /\ UNCHANGED <<bud, profiles, bopen, next, host, ids, bpoisoned>>
  BY DEF bvars, bkept, SnapshotsBudget, NotReady, BackendCall, LifecycleStep,
         own
<1>2. lpc' = "intent" => L!AppendIntent /\ UNCHANGED run /\ ~L!Publishes
  BY DEF NotReady, BackendCall, LifecycleStep, L!Launch, L!LaunchFails,
         L!Finish, L!FinishRaises, L!Cleanup, L!ReapRaises, L!AppendIntent,
         L!AppendLaunched, L!AppendReaped, L!Leave, L!Goto, L!Writes,
         L!Publishes
<1>3. lpc' = "intent" => lpc = "intent" /\ UNCHANGED att
  BY <1>2 DEF L!AppendIntent, L!Writes, L!Breaks, L!Rejects, L!book
<1> QED
  BY <1>1, <1>2, <1>3


\* Where the bridge's run and the lifecycle stand in the plan.
LEMMA PlaceKept ==
  ASSUME BridgeInv, [Next]_vars
  PROVE  InRun' /\ InStep'
<1>1. /\ InRun /\ InStep /\ InPlan /\ JournalsInv
      /\ next \in Nat /\ Len(Plan) \in Nat /\ Len(att) \in Nat
      /\ bud.index \in 0 .. Len(Plan)
  BY Read DEF BridgeInv, TypeOK
<1>2. Plan' = Plan /\ profiles' = profiles
  BY BudgetGrows, BindingFixed
<1>3. bud.index <= bud'.index /\ bud'.index \in Nat
  <2>1. JournalsInv'
    BY JournalsStep
  <2>2. bud'.index \in Nat
    BY <2>1
       DEF JournalsInv, JP!BudgetJournalInv, JP!P!Inv, JP!P!TypeOK,
           JP!P!Budget
  <2> QED
    BY <2>2, JournalsStep
<1>4. CASE Start
  <2>1. /\ bpc = "idle" /\ bpc' = "reserve" /\ next < Len(Plan)
        /\ UNCHANGED <<lvars, next, bpoisoned>>
    BY <1>4 DEF Start, Goto
  <2>2. lpc = "idle"
    BY <1>1, <2>1 DEF InRun
  <2>3. ~bpoisoned' => ~bpoisoned
    BY <2>1
  <2> QED
    BY <1>1, <1>2, <2>1, <2>2, <2>3 DEF InRun, InStep, lvars
<1>5. CASE BudgetStep
  <2>1. /\ UNCHANGED <<lvars, own>> /\ bpc \in {"reserve", "settle"}
    BY <1>5 DEF BudgetStep
  <2>2. lpc = "idle" /\ UNCHANGED <<lpc, att, bpc, next, bpoisoned>>
    BY <1>1, <2>1 DEF InRun, lvars, own
  <2> QED
    BY <1>1, <1>2, <2>1, <2>2 DEF InRun, InStep
<1>6. ASSUME NEW ns \in Time, BeginLife(ns)
      PROVE  InRun' /\ InStep'
  <2>1. /\ bpc = "reserve" /\ ~bpoisoned /\ bud.active = next + 1
        /\ bpc' = "life" /\ UNCHANGED <<bvars, next, bpoisoned>>
        /\ run'.aid = Task /\ run'.profile = profiles[Task]
        /\ run'.session = BoundSession /\ UNCHANGED att
    BY <1>6 DEF BeginLife, DebitAcked, Goto, L!RunStart, L!book
  <2>2. bud.active # NoSlot
    BY <1>1, <2>1 DEF NoSlot
  <2>3. Len(att) = next /\ bud.index = next + 1 /\ bud' = bud
    BY <1>1, <2>1, <2>2, Read DEF InStep, bvars
  <2>4. OfTask(run, Len(att) + 1)'
    BY <1>1, <1>2, <2>1, <2>3 DEF OfTask, Task
  <2> QED
    BY <1>1, <1>2, <2>1, <2>3, <2>4 DEF InRun, InStep
<1>7. CASE NotReady \/ BackendCall \/ LifecycleStep
  BY <1>1, <1>2, <1>7, IntentComesFirst DEF InRun, InStep, OfTask
<1>8. CASE BeginSettle
  <2>1. /\ Settleable /\ bpc = "life" /\ lpc = "idle" /\ bpc' = "settle"
        /\ Last(att).aid = Task /\ UNCHANGED <<lvars, next>>
    BY <1>8 DEF BeginSettle, Settleable, Goto
  <2>2. Len(att) \in 1 .. Len(att) /\ Last(att) = att[Len(att)]
    BY <1>1, <2>1, SettleableRead
  <2>3. Plan[Len(att)].uid = Plan[next + 1].uid /\ Len(att) <= bud.index
    BY <1>1, <2>1, <2>2 DEF InPlan, OfTask, Task
  <2>4. next < Len(Plan)
    BY <1>1, <2>1 DEF InRun
  <2>5. Len(att) \in 1 .. Len(Plan) /\ next + 1 \in 1 .. Len(Plan)
    BY <1>1, <2>2, <2>3, <2>4
  <2>6. Len(att) = next + 1
    BY <1>1, <2>3, <2>5, Read
  <2>7. UNCHANGED <<lpc, att>>
    BY <2>1 DEF lvars
  <2> QED
    BY <1>1, <1>2, <2>1, <2>4, <2>6, <2>7 DEF InRun, InStep
<1>9. CASE Finish
  <2>1. /\ bpc = "settle" /\ bpc' = "idle" /\ next' = next + 1
        /\ UNCHANGED <<att, lpc>>
    BY <1>9 DEF Finish, Settled, Goto, Snapshots, lkept
  <2>2. lpc = "idle" /\ Len(att) = next + 1
    BY <1>1, <2>1 DEF InRun, InStep
  <2> QED
    BY <2>1, <2>2 DEF InRun, InStep
<1>10. CASE Fail
  <2>1. lpc' = "idle" /\ bpc' = "idle" /\ bpoisoned' = TRUE
    BY <1>10 DEF Fail, Raise, Goto, lvars
  <2> QED
    BY <2>1 DEF InRun, InStep
<1>11. CASE CheckReady \/ Reenter
  <2>1. UNCHANGED <<lpc, run, att, bud, bpc, next>>
    BY <1>11 DEF CheckReady, Reenter, bvars, lvars
  <2>2. bpoisoned' = bpoisoned \/ bpoisoned' = TRUE
    BY <1>11 DEF CheckReady, Reenter
  <2> QED
    BY <1>1, <1>2, <2>1, <2>2 DEF InRun, InStep, OfTask
<1>12. CASE Snapshot
  <2>1. /\ bpc = "idle" /\ bpoisoned' = TRUE
        /\ UNCHANGED <<att, lpc, bpc, next>>
    BY <1>12 DEF Snapshot, Snapshots, lkept
  <2>2. lpc = "idle"
    BY <1>1, <2>1 DEF InRun
  <2> QED
    BY <1>1, <2>1, <2>2 DEF InRun, InStep
<1>13. CASE Close
  <2>1. bpc = "idle" /\ UNCHANGED <<att, lpc, bpc, next>>
    BY <1>13 DEF Close, L!LClose, L!book
  <2>2. ~bpoisoned' => ~bpoisoned
    BY <1>13 DEF Close
  <2>3. lpc = "idle"
    BY <1>1, <2>1 DEF InRun
  <2> QED
    BY <1>1, <2>1, <2>2, <2>3 DEF InRun, InStep
<1>14. CASE Interfere
  <2>1. UNCHANGED <<att, lpc, run, bpc, next, bpoisoned, bud>>
    BY <1>14
       DEF Interfere, B!Interfere, B!ram, L!LInterfere, lvars, bvars, own
  <2> QED
    BY <1>1, <1>2, <2>1 DEF InRun, InStep, OfTask
<1>15. CASE Interrupt
  <2>1. UNCHANGED <<att, bpc, next, bpoisoned, bud>>
    BY <1>15
       DEF Interrupt, B!Interrupt, L!InterruptAppend, L!InterruptRun, L!book,
           lvars, bvars, own
  <2>2. \/ UNCHANGED <<lpc, run>>
        \/ bpc = "life" /\ lpc' # "intent"
    BY <1>15
       DEF Interrupt, L!InterruptAppend, L!InterruptRun, L!Leave, L!Goto,
           lvars
  <2> QED
    BY <1>1, <1>2, <2>1, <2>2 DEF InRun, InStep, OfTask
<1>16. CASE Crash
  <2>1. bpc' = "dead" /\ lpc' = "idle"
    BY <1>16 DEF Crash, Goto, L!LCrash, L!Leave
  <2> QED
    BY <2>1 DEF InRun, InStep
<1>17. CASE UNCHANGED vars
  <2>1. UNCHANGED <<att, lpc, run, bpc, next, bpoisoned, bud>>
    BY <1>17 DEF vars, bvars, lvars, own
  <2> QED
    BY <1>1, <1>2, <2>1 DEF InRun, InStep, OfTask
<1> QED
  BY <1>4, <1>5, <1>6, <1>7, <1>8, <1>9, <1>10, <1>11, <1>12, <1>13, <1>14,
     <1>15, <1>16, <1>17 DEF Next, RunStep

\* The bridge's own variables keep their types.
LEMMA FlagsKept ==
  ASSUME TypeOK, [Next]_vars, poisoned' \in BOOLEAN
  PROVE  /\ bpc' \in {"idle", "reserve", "life", "settle", "dead"}
         /\ bpoisoned' \in BOOLEAN
         /\ bopen' \in BOOLEAN /\ ready' \in BOOLEAN
<1>1. bpc' \in {"idle", "reserve", "life", "settle", "dead"}
  BY DEF TypeOK, Next, RunStep, Start, BudgetStep, BeginLife, CheckReady,
         NotReady, BackendCall, LifecycleStep, BeginSettle, Finish, Fail,
         Raise, Reenter, Snapshot, Close, Interfere, Interrupt, Crash, own,
         vars, Goto
<1>2. \/ bpoisoned' = bpoisoned \/ bpoisoned' = TRUE
      \/ bpoisoned' = ~LiveJoin(next + 1)
      \/ bpoisoned' = (bpoisoned \/ poisoned')
  <2> HIDE DEF LiveJoin
  <2> QED
    BY DEF Next, RunStep, Start, BudgetStep, BeginLife, CheckReady, NotReady,
           BackendCall, LifecycleStep, BeginSettle, Finish, Fail, Raise,
           Reenter, Snapshot, Close, Interfere, Interrupt, Crash, own, vars
<1>3. bpoisoned' \in BOOLEAN
  BY <1>2, Zenon DEF TypeOK
<1>4. bopen' = bopen \/ bopen' = FALSE
  BY DEF Next, RunStep, Start, BudgetStep, BeginLife, CheckReady, NotReady,
         BackendCall, LifecycleStep, BeginSettle, Finish, Fail, Raise,
         Reenter, Snapshot, Close, Interfere, Interrupt, Crash, own, vars
<1>5. ready' = ready \/ ready' \in {TRUE, FALSE}
  BY DEF Next, RunStep, Start, BudgetStep, BeginLife, CheckReady, NotReady,
         BackendCall, LifecycleStep, BeginSettle, Finish, Fail, Raise,
         Reenter, Snapshot, Close, Interfere, Interrupt, Crash, own, vars
<1>6. bopen' \in BOOLEAN /\ ready' \in BOOLEAN
  BY <1>4, <1>5 DEF TypeOK
<1> QED
  BY <1>1, <1>3, <1>6

LEMMA TypesKept ==
  ASSUME BridgeInv, [Next]_vars
  PROVE  TypeOK'
<1>1. /\ Plan' = Plan /\ Len(Plan) \in Nat /\ TypeOK /\ JournalsInv
      /\ profiles' = profiles
  BY BudgetGrows, BindingFixed, Read DEF BridgeInv
<1>2. /\ bpc' \in {"idle", "reserve", "life", "settle", "dead"}
      /\ bpoisoned' \in BOOLEAN /\ bopen' \in BOOLEAN /\ ready' \in BOOLEAN
  <2>1. poisoned' \in BOOLEAN
    BY JournalsStep
       DEF JournalsInv, JP!BudgetJournalInv, JP!DiskInv, JP!JTyped
  <2> QED
    BY <1>1, <2>1, FlagsKept
<1>3. next' \in 0 .. Len(Plan)
  <2>1. CASE Finish
    <3>1. next' = next + 1 /\ next < Len(Plan) /\ next \in 0 .. Len(Plan)
      BY <1>1, <2>1 DEF Finish, Settled, BridgeInv, InRun, TypeOK
    <3> QED
      BY <1>1, <3>1
  <2>2. CASE ~Finish
    <3>1. next' = next
      BY <2>2
         DEF Next, RunStep, Start, BudgetStep, BeginLife, CheckReady,
             NotReady, BackendCall, LifecycleStep, BeginSettle, Fail, Raise,
             Reenter, Snapshot, Close, Interfere, Interrupt, Crash, own, vars
    <3> QED
      BY <1>1, <3>1 DEF TypeOK
  <2> QED
    BY <2>1, <2>2
<1>4. host' \in Host \cup {NoHost} /\ ids' \subseteq L!Identity
  <2>1. CASE BeginSettle
    <3>1. /\ Settleable /\ host' = Last(att).ident.host
          /\ ids' = ids \cup {Last(att).ident}
      BY <2>1 DEF BeginSettle
    <3>2. Last(att).ident \in L!Identity
      BY <1>1, <3>1, SettleableRead
    <3>3. Last(att).ident.host \in Host
      BY <3>2 DEF L!Identity
    <3> QED
      BY <1>1, <3>1, <3>2, <3>3 DEF TypeOK
  <2>2. CASE ~BeginSettle
    <3>1. host' = host /\ ids' = ids
      BY <2>2
         DEF Next, RunStep, Start, BudgetStep, BeginLife, CheckReady,
             NotReady, BackendCall, LifecycleStep, Finish, Fail, Raise,
             Reenter, Snapshot, Close, Interfere, Interrupt, Crash, own, vars
    <3> QED
      BY <1>1, <3>1 DEF TypeOK
  <2> QED
    BY <2>1, <2>2
<1> QED
  BY <1>1, <1>2, <1>3, <1>4 DEF TypeOK

-----------------------------------------------------------------------------
\* What the budget file tells.

\* The debits and the settlements of rows that go with a budget.
TellsOf(rows, b, o) ==
  /\ Debits(rows) \in Seq(JP!Row)
  /\ Len(Debits(rows)) = b.index
  /\ \A i \in 1 .. b.index : Debits(rows)[i].uid = decl.plan[i].uid
  /\ Settlements(rows) \in Seq(JP!Row)
  /\ Len(Settlements(rows)) = Len(o)
  /\ \A i \in 1 .. Len(o) :
        /\ Settlements(rows)[i].slot = i
        /\ Settlements(rows)[i].status = o[i].status
        /\ Settlements(rows)[i].elapsed = o[i].elapsed
        /\ Settlements(rows)[i].clean = o[i].clean

LEMMA RowsTell ==
  RowsTold <=> (JP!Untouched => TellsOf(JP!AckedRows, bud, obs))
BY DEF RowsTold, TellsOf, Plan

\* A row that the budget accepts is the next debit or the next settlement.
LEMMA RowTells ==
  ASSUME JP!P!Inv, NEW rows \in Seq(JP!Row), TellsOf(rows, bud, obs),
         NEW r \in JP!Row, JP!Accepts(decl, bud, r)
  PROVE  TellsOf(Append(rows, r), JP!After(decl, bud, r),
                 IF r.kind # "SETTLE" THEN obs
                 ELSE Append(obs, [status |-> r.status,
                                   elapsed |-> r.elapsed,
                                   clean |-> r.clean]))
<1> DEFINE D == Debits(rows)
           S == Settlements(rows)
           new == Append(rows, r)
           after == JP!After(decl, bud, r)
           next_obs == IF r.kind # "SETTLE" THEN obs
                       ELSE Append(obs, [status |-> r.status,
                                         elapsed |-> r.elapsed,
                                         clean |-> r.clean])
<1>1. /\ Debits(new) = Chosen(D, r, "DEBIT")
      /\ Settlements(new) = Chosen(S, r, "SETTLE")
  BY RowsAppend DEF Debits, Settlements
<1>2. /\ D \in Seq(JP!Row) /\ Len(D) = bud.index
      /\ \A i \in 1 .. bud.index : D[i].uid = decl.plan[i].uid
      /\ S \in Seq(JP!Row) /\ Len(S) = Len(obs)
      /\ \A i \in 1 .. Len(obs) : /\ S[i].slot = i
                                  /\ S[i].status = obs[i].status
                                  /\ S[i].elapsed = obs[i].elapsed
                                  /\ S[i].clean = obs[i].clean
  BY DEF TellsOf
<1>3. obs \in Seq(JP!P!Observation) /\ bud.index \in Nat
  BY DEF JP!P!Inv, JP!P!TypeOK, JP!P!Budget
<1>4. \/ /\ r.kind = "DEBIT" /\ r.uid = decl.plan[bud.index + 1].uid
         /\ after.index = bud.index + 1
      \/ r.kind = "DENIED" /\ after.index = bud.index
      \/ /\ r.kind = "SETTLE" /\ r.slot = Len(obs) + 1
         /\ after.index = bud.index
  BY JP!AcceptTells, JournalsAssumed
<1> HIDE DEF D, S, new, after
<1>5. CASE r.kind = "DEBIT"
  <2>1. /\ Debits(new) = Append(D, r) /\ Settlements(new) = S
        /\ next_obs = obs /\ after.index = bud.index + 1
        /\ r.uid = decl.plan[bud.index + 1].uid
    BY <1>1, <1>4, <1>5 DEF Chosen
  <2>2. /\ Append(D, r) \in Seq(JP!Row)
        /\ Len(Append(D, r)) = bud.index + 1
        /\ \A i \in 1 .. bud.index : Append(D, r)[i] = D[i]
        /\ Append(D, r)[bud.index + 1] = r
    BY <1>2, <1>3
  <2> HIDE DEF next_obs
  <2>3. TellsOf(new, after, next_obs)
    BY <1>2, <1>3, <2>1, <2>2 DEF TellsOf
  <2> QED
    BY <2>3 DEF new, after, next_obs
<1>6. CASE r.kind = "DENIED"
  <2>1. /\ Debits(new) = D /\ Settlements(new) = S
        /\ next_obs = obs /\ after.index = bud.index
    BY <1>1, <1>4, <1>6 DEF Chosen
  <2> HIDE DEF next_obs
  <2>2. TellsOf(new, after, next_obs)
    BY <1>2, <2>1 DEF TellsOf
  <2> QED
    BY <2>2 DEF new, after, next_obs
<1>7. CASE r.kind = "SETTLE"
  <2> DEFINE o == [status |-> r.status, elapsed |-> r.elapsed,
                   clean |-> r.clean]
  <2>1. /\ Debits(new) = D /\ Settlements(new) = Append(S, r)
        /\ next_obs = Append(obs, o) /\ after.index = bud.index
        /\ r.slot = Len(obs) + 1
    BY <1>1, <1>4, <1>7 DEF Chosen
  <2>2. /\ o.status = r.status /\ o.elapsed = r.elapsed
        /\ o.clean = r.clean
    OBVIOUS
  <2> HIDE DEF o, next_obs
  <2>3. /\ Append(S, r) \in Seq(JP!Row)
        /\ Len(Append(S, r)) = Len(obs) + 1
        /\ \A i \in 1 .. Len(obs) : Append(S, r)[i] = S[i]
        /\ Append(S, r)[Len(obs) + 1] = r
    BY <1>2, <1>3
  <2>4. /\ Len(Append(obs, o)) = Len(obs) + 1 /\ Len(obs) \in Nat
        /\ \A i \in 1 .. Len(obs) : Append(obs, o)[i] = obs[i]
        /\ Append(obs, o)[Len(obs) + 1] = o
    BY <1>3
  <2>5. ASSUME NEW i \in 1 .. Len(obs) + 1
        PROVE  /\ Append(S, r)[i].slot = i
               /\ Append(S, r)[i].status = Append(obs, o)[i].status
               /\ Append(S, r)[i].elapsed = Append(obs, o)[i].elapsed
               /\ Append(S, r)[i].clean = Append(obs, o)[i].clean
    <3>1. CASE i = Len(obs) + 1
      BY <2>1, <2>2, <2>3, <2>4, <3>1
    <3>2. CASE i \in 1 .. Len(obs)
      BY <1>2, <2>3, <2>4, <3>2
    <3>3. i = Len(obs) + 1 \/ i \in 1 .. Len(obs)
      BY <1>3
    <3> QED
      BY <3>1, <3>2, <3>3, Zenon
  <2>6. TellsOf(new, after, next_obs)
    BY <1>2, <2>1, <2>3, <2>4, <2>5 DEF TellsOf
  <2> QED
    BY <2>6 DEF new, after, next_obs
<1> QED
  BY <1>4, <1>5, <1>6, <1>7

LEMMA RowsToldKept ==
  ASSUME BridgeInv, [Next]_vars
  PROVE  RowsTold'
<1>1. /\ JournalsInv /\ RowsTold
      /\ JP!JInv /\ JP!P!Inv /\ JP!DiskInv
  BY DEF BridgeInv, JournalsInv, JP!BudgetJournalInv
<1>2. decl' = decl
  BY BudgetGrows
<1>3. CASE JP!Commit
  <2> SUFFICES ASSUME JP!Untouched'
               PROVE  TellsOf(JP!AckedRows, bud, obs)'
    BY RowsTell, PTL
  <2>1. /\ JP!Untouched /\ JP!AckedRows \in Seq(JP!Row) /\ row \in JP!Row
        /\ JP!AckedRows' = Append(JP!AckedRows, row)
    BY <1>1, <1>3, JP!CommitTakesRow, JournalsAssumed
  <2>2. TellsOf(JP!AckedRows, bud, obs)
    BY <1>1, <2>1, RowsTell
  <2>3. /\ JP!Accepts(decl, bud, row)
        /\ bud' = JP!After(decl, bud, row)
        /\ obs' = IF row.kind # "SETTLE" THEN obs
                  ELSE Append(obs, [status |-> row.status,
                                    elapsed |-> row.elapsed,
                                    clean |-> row.clean])
    BY <1>1, <1>3 DEF JP!Commit, JP!JInv, JP!RowStillAccepted
  <2> HIDE DEF JP!AckedRows
  <2>4. TellsOf(JP!AckedRows', bud', obs')
    BY <1>1, <2>1, <2>2, <2>3, RowTells
  <2> QED
    BY <1>2, <2>4 DEF TellsOf
<1>4. ASSUME UNCHANGED <<bud, obs, acked>>,
             JP!Untouched' => /\ JP!Untouched
                              /\ JP!AckedRows' = JP!AckedRows
      PROVE  RowsTold'
  <2> HIDE DEF JP!AckedRows, JP!Untouched
  <2> QED
    BY <1>1, <1>2, <1>4 DEF RowsTold, Plan
<1>5. CASE Budgeted /\ ~JP!Commit
  <2>1. UNCHANGED <<bud, obs, acked>>
    BY <1>5, JP!OnlyCommitMoves, JournalsAssumed DEF Budgeted
  <2>2. /\ disk' \in Seq(JP!Line) /\ acked <= Len(disk')
        /\ \A n \in 1 .. acked : disk'[n] \in {disk[n], JP!Overwritten}
    BY <1>1, <1>5, JP!AckedStay, JournalsAssumed DEF Budgeted
  <2>3. /\ disk \in Seq(JP!Line) /\ acked \in Nat /\ acked <= Len(disk)
    BY <1>1 DEF JP!DiskInv, JP!JTyped, JP!FileKeepsUp
  <2>4. ASSUME JP!Untouched'
        PROVE  JP!Untouched /\ JP!AckedRows' = JP!AckedRows
    <3>1. \A n \in 1 .. acked : disk'[n] = disk[n]
      BY <2>1, <2>2, <2>4 DEF JP!Untouched
    <3>2. SubSeq(disk', 1, acked) = SubSeq(disk, 1, acked)
      BY <2>2, <2>3, <3>1
    <3> QED
      BY <2>1, <2>4, <3>1, <3>2 DEF JP!Untouched, JP!AckedRows
  <2> QED
    BY <1>4, <2>1, <2>4
<1>6. CASE SnapshotsBudget
  <2>1. UNCHANGED <<bud, obs, acked, disk>>
    BY <1>6 DEF SnapshotsBudget, bkept
  <2> QED
    BY <1>4, <2>1 DEF JP!Untouched, JP!AckedRows
<1> QED
  BY <1>3, <1>5, <1>6, StepOfJournals

\* The host of the phase is that of the first attempt settled, and stays it.
LEMMA HostMoves ==
  ASSUME [Next]_vars
  PROVE  host' = host \/ BeginSettle
BY DEF Next, RunStep, Start, BudgetStep, BeginLife, CheckReady, NotReady,
       BackendCall, LifecycleStep, Finish, Fail, Raise, Reenter, Snapshot,
       Close, Interfere, Interrupt, Crash, own, vars

\* A settlement that was true of an attempt stays true of it.
LEMMA MeasuredStays ==
  ASSUME BridgeInv, [Next]_vars, NEW s, NEW i, Measured(att, s, i)
  PROVE  /\ Measured(att', s, i)
         /\ Housed(att, host, i) => Housed(att', host', i)
<1>1. JournalsInv /\ Len(att) \in Nat /\ i \in 1 .. Len(att)
      /\ att[i].phase = "REAPED"
  BY Read DEF BridgeInv, Measured
<1>2. att'[i] = att[i]
  BY <1>1, JournalsStep DEF JP!AttemptsKept
<1>3. i \in 1 .. Len(att')
  <2>1. Len(att') = Len(att) \/ Len(att') = Len(att) + 1
    BY JournalsStep DEF JP!AttemptAdded
  <2> QED
    BY <1>1, <2>1
<1>4. Measured(att', s, i)
  BY <1>2, <1>3 DEF Measured
<1>5. ASSUME att[i].ident.host = host
      PROVE  host' = host
  <2>1. att[i].ident \in JP!Identity
    BY <1>1 DEF JournalsInv, JP!LInv, JP!BookInv, JP!Named
  <2>2. att[i].ident.host \in Host
    BY <2>1 DEF JP!Identity
  <2>3. host # NoHost
    BY <1>5, <2>2, BridgeAssumption
  <2>4. BeginSettle => host' = host
    BY <2>3 DEF BeginSettle, Settleable
  <2> QED
    BY <2>4, HostMoves
<1> QED
  BY <1>2, <1>4, <1>5 DEF Housed

LEMMA ToldStays ==
  ASSUME BridgeInv, [Next]_vars, NEW r, Told(att, host, r)
  PROVE  Told(att', host', r)
BY MeasuredStays DEF Told

\* What a settlement says is measured when it begins.
LEMMA SettlementTold ==
  ASSUME BridgeInv, [Next]_vars, BeginSettle
  PROVE  UNCHANGED <<obs, disk, acked>> /\ Told(att', host', row')
<1> DEFINE e == Last(att)
<1>1. /\ Settleable /\ bpc = "life" /\ bpc' = "settle"
      /\ att' = att /\ next' = next /\ host' = e.ident.host /\ JournalsInv
  BY DEF BeginSettle, Settleable, Goto, lvars, BridgeInv
<1>2. /\ UNCHANGED <<obs, disk, acked>>
      /\ row' = [kind |-> "SETTLE", slot |-> bud.active,
                 status |-> StatusOf(e.profile),
                 elapsed |-> e.end - e.start, clean |-> TRUE]
  BY DEF BeginSettle, B!BeginSettle, B!Begin, B!ram, B!store
<1>3. Len(att) \in 1 .. Len(att) /\ e = att[Len(att)]
  BY <1>1, SettleableRead
<1>4. e.phase = "REAPED"
  BY <1>1, <1>3 DEF Settleable, L!CompleteLive, L!AllReaped
<1>5. bud.active = Len(att)
  <2>1. bud.active = next + 1
    BY <1>1 DEF BridgeInv, InRun
  <2>2. Len(att') = next' + 1
    BY <1>1, PlaceKept DEF InStep
  <2> QED
    BY <1>1, <2>1, <2>2
<1> HIDE DEF e
<1>6. Measured(att, row', bud.active) /\ Housed(att, host', bud.active)
  BY <1>1, <1>2, <1>3, <1>4, <1>5 DEF Measured, Housed
<1>7. Told(att', host', row')
  BY <1>1, <1>2, <1>6 DEF Told
<1> QED
  BY <1>2, <1>7

\* It is carried to the file and to the budget as it is.
LEMMA SettledKept ==
  ASSUME BridgeInv, [Next]_vars
  PROVE  SettledAsReaped'
<1>1. /\ JournalsInv /\ SettledAsReaped
      /\ JP!JInv /\ JP!P!Inv /\ JP!DiskInv /\ JP!TailAccepted
  BY DEF BridgeInv, JournalsInv, JP!BudgetJournalInv
<1>2. /\ disk \in Seq(JP!Line) /\ acked \in Nat /\ acked <= Len(disk)
      /\ Len(disk) \in Nat
      /\ row \in JP!Row \cup {JP!NoRow}
      /\ obs \in Seq(JP!P!Observation)
  BY <1>1 DEF JP!DiskInv, JP!JTyped, JP!FileKeepsUp, JP!P!Inv, JP!P!TypeOK
<1>3. \A i \in 1 .. Len(obs) :
         Measured(att', obs[i], i) /\ Housed(att', host', i)
  BY <1>1, MeasuredStays DEF SettledAsReaped
<1>4. /\ Told(att', host', row)
      /\ Len(disk) >= acked + 1 => Told(att', host', disk[acked + 1])
  BY <1>1, ToldStays DEF SettledAsReaped
<1>5. \A r : r.kind # "SETTLE" => Told(att', host', r)
  BY DEF Told
<1>6. Told(att', host', JP!NoRow)
  BY <1>5 DEF JP!NoRow
<1>7. ASSUME UNCHANGED <<obs, disk, acked>>, Told(att', host', row')
      PROVE  SettledAsReaped'
  BY <1>3, <1>4, <1>7 DEF SettledAsReaped
<1>8. CASE Start
  <2>1. UNCHANGED <<obs, disk, acked>> /\ row'.kind # "SETTLE"
    BY <1>8
       DEF Start, B!BeginReserve, B!Begin, B!ram, B!store, B!DebitRow
  <2> QED
    BY <1>5, <1>7, <2>1
<1>9. CASE BudgetStep
  <2>1. CASE B!Write
    <3>1. /\ disk' = Append(disk, row) /\ pc = "check" /\ file = "own"
          /\ UNCHANGED <<obs, acked, row>>
      BY <2>1 DEF B!Write, B!ram
    <3>2. Len(disk) = acked
      BY <1>1, <3>1 DEF JP!DiskInv, JP!FileKeepsUp
    <3>3. disk'[acked + 1] = row
      BY <1>2, <3>1, <3>2
    <3> QED
      BY <1>3, <1>4, <3>1, <3>3 DEF SettledAsReaped
  <2>2. CASE B!Commit
    <3> DEFINE o == [status |-> row.status, elapsed |-> row.elapsed,
                     clean |-> row.clean]
    <3>1. /\ pc = "cleared" /\ acked' = acked + 1 /\ disk' = disk
          /\ row' = JP!NoRow
          /\ obs' = IF row.kind # "SETTLE" THEN obs ELSE Append(obs, o)
      BY <2>2 DEF B!Commit, B!store, B!NoRow, JP!NoRow
    <3>2. Len(disk') >= acked' + 1 => Told(att', host', disk'[acked' + 1])
      <4> SUFFICES ASSUME Len(disk) >= acked + 2
                   PROVE  Told(att', host', disk[acked + 2])
        BY <1>2, <3>1
      <4>1. disk[acked + 2] \in {JP!Stray, JP!Overwritten}
        BY <1>1, <1>2 DEF JP!TailAccepted
      <4> QED
        BY <1>5, <4>1 DEF JP!Stray, JP!Overwritten
    <3>3. CASE row.kind # "SETTLE"
      <4>1. obs' = obs
        BY <3>1, <3>3
      <4> QED
        BY <1>3, <1>6, <3>1, <3>2, <4>1 DEF SettledAsReaped
    <3>4. CASE row.kind = "SETTLE"
      <4>1. JP!Accepts(decl, bud, row) /\ row \in JP!Row
        BY <1>1, <1>2, <3>1, <3>4
           DEF JP!JInv, JP!RowStillAccepted, JP!NoRow
      <4>2. row.slot = Len(obs) + 1
        BY <1>1, <3>4, <4>1, JP!AcceptTells, JournalsAssumed
      <4>3. /\ Measured(att', o, Len(obs) + 1)
            /\ Housed(att', host', Len(obs) + 1)
        BY <1>4, <3>4, <4>2 DEF Told, Measured
      <4> HIDE DEF o
      <4>4. /\ obs' = Append(obs, o) /\ Len(obs) \in Nat
            /\ Len(obs') = Len(obs) + 1 /\ obs'[Len(obs) + 1] = o
            /\ \A i \in 1 .. Len(obs) : obs'[i] = obs[i]
        BY <1>2, <3>1, <3>4
      <4>5. ASSUME NEW i \in 1 .. Len(obs')
            PROVE  Measured(att', obs'[i], i) /\ Housed(att', host', i)
        <5>1. CASE i = Len(obs) + 1
          BY <4>3, <4>4, <5>1
        <5>2. CASE i \in 1 .. Len(obs)
          BY <1>3, <4>4, <5>2
        <5> QED
          BY <4>4, <5>1, <5>2
      <4> QED
        BY <1>6, <3>1, <3>2, <4>5 DEF SettledAsReaped
    <3> QED
      BY <3>3, <3>4
  <2>3. CASE ~B!Write /\ ~B!Commit
    <3>1. /\ UNCHANGED <<obs, disk, acked>>
          /\ row' = row \/ row' = JP!NoRow
      BY <1>9, <2>3
         DEF BudgetStep, B!Refuse, B!WriteFails, B!Fsync, B!FsyncFails,
             B!Adopt, B!Count, B!AdoptFails, B!Recheck, B!RecheckFails,
             B!Raise, B!ram, B!store, B!NoRow, JP!NoRow
    <3> QED
      BY <1>4, <1>6, <1>7, <3>1
  <2> QED
    BY <2>1, <2>2, <2>3
<1>10. CASE BeginSettle
  BY <1>7, <1>10, SettlementTold
<1>11. CASE Interfere /\ ~UNCHANGED disk
  <2>1. UNCHANGED <<obs, acked, row>>
    BY <1>11 DEF Interfere, B!Interfere, B!ram, bvars
  <2>2. \/ disk' = Append(disk, JP!Stray)
        \/ \E n \in 1 .. Len(disk) :
              disk' = [disk EXCEPT ![n] = JP!Overwritten]
    BY <1>11
       DEF Interfere, B!Interfere, bvars, B!Stray, JP!Stray, B!Overwritten,
           JP!Overwritten
  <2>3. ASSUME Len(disk') >= acked + 1
        PROVE  Told(att', host', disk'[acked + 1])
    <3>1. CASE disk' = Append(disk, JP!Stray)
      <4>1. \/ disk'[acked + 1] = JP!Stray
            \/ Len(disk) >= acked + 1 /\ disk'[acked + 1] = disk[acked + 1]
        BY <1>2, <2>3, <3>1
      <4> QED
        BY <1>4, <1>5, <4>1 DEF JP!Stray
    <3>2. ASSUME NEW n \in 1 .. Len(disk),
                 disk' = [disk EXCEPT ![n] = JP!Overwritten]
          PROVE  Told(att', host', disk'[acked + 1])
      <4>1. /\ Len(disk) >= acked + 1
            /\ disk'[acked + 1] \in {JP!Overwritten, disk[acked + 1]}
        BY <1>2, <2>3, <3>2
      <4> QED
        BY <1>4, <1>5, <4>1 DEF JP!Overwritten
    <3> QED
      BY <2>2, <3>1, <3>2
  <2> QED
    BY <1>3, <1>4, <2>1, <2>3 DEF SettledAsReaped
<1>12. CASE Interfere /\ UNCHANGED disk
  <2>1. UNCHANGED <<obs, acked, row>>
    BY <1>12 DEF Interfere, B!Interfere, B!ram, bvars
  <2> QED
    BY <1>4, <1>7, <1>12, <2>1
<1>13. CASE ~Start /\ ~BudgetStep /\ ~BeginSettle /\ ~Interfere
  <2>1. /\ UNCHANGED <<obs, disk, acked>>
        /\ row' = row \/ row' = JP!NoRow
    BY <1>13
       DEF Next, RunStep, BeginLife, CheckReady, NotReady, BackendCall,
           LifecycleStep, Finish, Fail, Raise, Reenter, Snapshot, Snapshots,
           SnapshotsBudget, bkept, Close, Interrupt, Crash, bvars, vars,
           B!Close, B!Interrupt, B!Crash, B!ram, B!store, B!NoRow, JP!NoRow
  <2> QED
    BY <1>4, <1>6, <1>7, <2>1
<1> QED
  BY <1>8, <1>9, <1>10, <1>11, <1>12, <1>13

-----------------------------------------------------------------------------
\* What load() finds in the two files.

\* The bridge's replays are those of the journals.
LEMMA SameReplays ==
  /\ B!Replay(decl, disk) = JP!Replay(decl, disk)
  /\ L!LReplay(ldisk) = JP!LReplay(ldisk)
<1>1. B!Replay(decl, disk) = JP!Replay(decl, disk)
  BY DEF B!Replay, JP!Replay, B!Accepts, JP!Accepts, B!After, JP!After,
         B!InitBudget, JP!InitBudget, B!Debit, JP!Debit, B!Deny, JP!Deny,
         B!DebitRow, JP!DebitRow, B!Settlement, JP!Settlement, B!StopAfter,
         JP!StopAfter, B!Opaque, JP!Opaque, B!NextNode, JP!NextNode,
         B!Envelope, JP!Envelope, B!NoSlot, JP!NoSlot, B!Censored,
         JP!Censored, B!Unresolved, JP!Unresolved, B!Overrun, JP!Overrun,
         B!Failed, JP!Failed, B!Reservable, JP!Reservable, B!Exhausted,
         JP!Exhausted, B!Running, JP!Running, B!Kind, JP!Kind, B!Unsettled,
         JP!Unsettled
<1>2. L!LReplay(ldisk) = JP!LReplay(ldisk)
  BY DEF L!LReplay, JP!LReplay, L!LAccepts, JP!LAccepts, L!LAfter,
         JP!LAfter, L!ActiveIn, JP!ActiveIn, L!Aids, JP!Aids, L!Identity,
         JP!Identity, L!Last, JP!Last
<1> QED
  BY <1>1, <1>2

\* A line of somebody else in either file is refused by its load().
LEMMA ForeignRefused ==
  ASSUME BridgeInv, B!Replay(decl, disk) # {}, L!LReplay(ldisk) # {}
  PROVE  NothingForeign
<1>1. disk \in Seq(JP!Line) /\ ldisk \in Seq(JP!LRow \cup {JP!LStray})
  BY DEF BridgeInv, JournalsInv, JP!BudgetJournalInv, JP!DiskInv, JP!JTyped,
         JP!LInv, JP!LTypeOK
<1>2. JP!Replay(decl, disk) # {} /\ JP!LReplay(ldisk) # {}
  BY SameReplays
<1>3. ASSUME NEW n \in 1 .. Len(disk),
             disk[n] \in {B!Stray, B!Overwritten}
      PROVE  FALSE
  <2>1. disk[n] \in {JP!Stray, JP!Overwritten}
    BY <1>3 DEF B!Stray, JP!Stray, B!Overwritten, JP!Overwritten
  <2> QED
    BY <1>1, <1>2, <2>1, JP!ReplayRefuses, JournalsAssumed
<1>4. ASSUME NEW n \in 1 .. Len(ldisk), ldisk[n] = L!LStray
      PROVE  FALSE
  <2>1. ldisk[n] = JP!LStray
    BY <1>4 DEF L!LStray, JP!LStray
  <2> QED
    BY <1>1, <1>2, <2>1, JP!LReplayRefuses, JournalsAssumed
<1> QED
  BY <1>3, <1>4 DEF NothingForeign

\* Otherwise load() of either file finds exactly one budget, or one book of
\* attempts: that of the rows acknowledged, and at most of one row more.
LEMMA OnFile ==
  ASSUME BridgeInv, NothingForeign
  PROVE  /\ B!Replay(decl, disk) = {JP!BudgetOnFile}
         /\ L!LReplay(ldisk) = {JP!AttemptsOnFile}
         /\ JP!Untouched
         /\ disk \in Seq(JP!Row) /\ Len(disk) \in {acked, acked + 1}
         /\ Len(disk) = acked + 1 =>
               JP!Accepts(decl, bud, disk[acked + 1])
         /\ Len(ldisk) \in {lacked, lacked + 1}
         /\ Len(ldisk) = lacked + 1 =>
               /\ ldisk[lacked + 1] \in JP!LRow
               /\ JP!LAccepts(att, ldisk[lacked + 1])
<1>1. JP!DiskInv /\ JP!TailAccepted /\ JP!LInv /\ JP!LFile
  BY DEF BridgeInv, JournalsInv, JP!BudgetJournalInv
<1>2. JP!OwnLines /\ JP!OwnLRows
  BY DEF NothingForeign, JP!OwnLines, JP!OwnLRows, B!Stray, JP!Stray,
         B!Overwritten, JP!Overwritten, L!LStray, JP!LStray
<1>3. /\ JP!Replay(decl, disk) = {JP!BudgetOnFile}
      /\ JP!Untouched
      /\ disk \in Seq(JP!Row) /\ Len(disk) \in {acked, acked + 1}
      /\ Len(disk) = acked + 1 =>
            JP!Accepts(decl, bud, disk[acked + 1])
  BY <1>1, <1>2, JP!FileReplays, JournalsAssumed
<1>4. /\ JP!LReplay(ldisk) = {JP!AttemptsOnFile}
      /\ Len(ldisk) \in {lacked, lacked + 1}
      /\ Len(ldisk) = lacked + 1 =>
            /\ ldisk[lacked + 1] \in JP!LRow
            /\ JP!LAccepts(att, ldisk[lacked + 1])
  BY <1>1, <1>2, JP!LFileReplays, JournalsAssumed
<1> QED
  BY <1>3, <1>4, SameReplays, Zenon

\* The settlements are measured of attempts on the host of the phase; while
\* the budget runs, all of them are successes within their envelope.
AllMeasured(S) ==
  \A i \in 1 .. Len(S) :
     S[i].slot = i /\ Measured(att, S[i], i) /\ Housed(att, host, i)

AllSucceeded(S) ==
  \A i \in 1 .. Len(S) :
     S[i].status = "SUCCESS" /\ S[i].elapsed <= JP!Envelope(Plan[i])

LEMMA AckedSettlements ==
  ASSUME BridgeInv, JP!Untouched
  PROVE  LET S == Settlements(JP!AckedRows)
         IN  /\ AllMeasured(S)
             /\ bud.stopped = JP!Running => AllSucceeded(S)
<1>1. /\ JP!P!Inv /\ RowsTold /\ SettledAsReaped
  BY DEF BridgeInv, JournalsInv, JP!BudgetJournalInv
<1> DEFINE S == Settlements(JP!AckedRows)
<1>2. /\ Len(S) = Len(obs)
      /\ \A i \in 1 .. Len(obs) : /\ S[i].slot = i
                                  /\ S[i].status = obs[i].status
                                  /\ S[i].elapsed = obs[i].elapsed
                                  /\ S[i].clean = obs[i].clean
  BY <1>1 DEF RowsTold
<1> HIDE DEF S
<1>3. AllMeasured(S)
  BY <1>1, <1>2 DEF SettledAsReaped, Measured, AllMeasured
<1>4. bud.stopped = JP!Running => AllSucceeded(S)
  BY <1>1, <1>2
     DEF JP!P!Inv, JP!P!RunningSucceeded, JP!Running, JP!P!Running,
         JP!Envelope, JP!P!Envelope, JP!P!Plan, Plan, AllSucceeded
<1> QED
  BY <1>3, <1>4 DEF S

\* The debits in the file are those of the plan, in its order, and none that
\* was acknowledged is missing; the settlements are those of its first slots.
LEMMA FileRows ==
  ASSUME BridgeInv, NothingForeign
  PROVE  LET D == Debits(disk)
             S == Settlements(disk)
         IN  /\ Len(D) \in Nat /\ bud.index <= Len(D) /\ Len(D) <= Len(Plan)
             /\ \A i \in 1 .. Len(D) : D[i].uid = Plan[i].uid
             /\ Len(S) \in Nat
             /\ AllMeasured(S)
             /\ JP!BudgetOnFile.stopped = JP!Running => AllSucceeded(S)
<1> DEFINE rows == JP!AckedRows
           S == Settlements(rows)
<1>1. /\ JP!P!Inv /\ JP!DiskInv /\ RowsTold /\ SettledAsReaped /\ JournalsInv
  BY DEF BridgeInv, JournalsInv, JP!BudgetJournalInv
<1>2. /\ disk \in Seq(JP!Row) /\ Len(disk) \in {acked, acked + 1}
      /\ Len(disk) = acked + 1 =>
            JP!Accepts(decl, bud, disk[acked + 1])
      /\ acked \in Nat
  BY <1>1, OnFile DEF JP!DiskInv, JP!JTyped
<1>3. JP!Untouched /\ TellsOf(rows, bud, obs)
  BY <1>1, OnFile, RowsTell
<1>4. AllMeasured(S) /\ (bud.stopped = JP!Running => AllSucceeded(S))
  BY <1>3, AckedSettlements
<1>5. bud.index \in 0 .. Len(Plan) /\ Len(Plan) \in Nat /\ Len(obs) \in Nat
  BY <1>1, Read DEF JP!P!Inv, JP!P!TypeOK
<1>6. CASE Len(disk) = acked
  <2>1. rows = disk
    BY <1>2, <1>6 DEF JP!AckedRows
  <2>2. JP!BudgetOnFile = bud
    BY <1>6 DEF JP!BudgetOnFile
  <2> HIDE DEF rows
  <2>3. TellsOf(disk, bud, obs) /\ S = Settlements(disk)
    BY <1>3, <2>1
  <2> HIDE DEF S
  <2> QED
    BY <1>4, <1>5, <2>2, <2>3 DEF TellsOf, Plan
<1>7. CASE Len(disk) = acked + 1
  <2> DEFINE r == disk[acked + 1]
             after == JP!After(decl, bud, r)
             told == IF r.kind # "SETTLE" THEN obs
                     ELSE Append(obs, [status |-> r.status,
                                       elapsed |-> r.elapsed,
                                       clean |-> r.clean])
  <2>1. /\ r \in JP!Row /\ JP!Accepts(decl, bud, r) /\ Told(att, host, r)
        /\ JP!BudgetOnFile = after
    BY <1>1, <1>2, <1>7 DEF SettledAsReaped, JP!BudgetOnFile
  <2>2. rows \in Seq(JP!Row) /\ disk = Append(rows, r)
    BY <1>2, <1>7 DEF JP!AckedRows
  <2> HIDE DEF r, rows
  <2>3. TellsOf(Append(rows, r), after, told)
    BY <1>1, <1>3, <2>1, <2>2, RowTells
  <2>4. Settlements(Append(rows, r)) = Chosen(S, r, "SETTLE")
    BY <2>1, <2>2, RowsAppend DEF Settlements
  <2> HIDE DEF after, told
  <2>5. TellsOf(disk, after, told) /\ Settlements(disk) = Chosen(S, r, "SETTLE")
    BY <2>2, <2>3, <2>4, Zenon
  <2>6. \/ /\ r.kind = "DEBIT" /\ after.index = bud.index + 1
           /\ bud.index < Len(Plan)
        \/ /\ r.kind = "DENIED" /\ after.index = bud.index
           /\ after.stopped # JP!Running
        \/ /\ r.kind = "SETTLE" /\ r.slot = Len(obs) + 1
           /\ after.index = bud.index
           /\ bud.stopped = JP!Running
           /\ after.stopped = JP!Running =>
                 /\ r.status = "SUCCESS"
                 /\ r.elapsed <= JP!Envelope(Plan[r.slot])
    BY <1>1, <2>1, JP!AcceptTells, JournalsAssumed DEF after, Plan
  <2>7. /\ Len(Debits(disk)) \in Nat /\ bud.index <= Len(Debits(disk))
        /\ Len(Debits(disk)) <= Len(Plan)
        /\ \A i \in 1 .. Len(Debits(disk)) :
              Debits(disk)[i].uid = Plan[i].uid
    BY <1>5, <2>5, <2>6 DEF TellsOf, Plan
  <2>8. Len(Settlements(disk)) \in Nat
    BY <2>5 DEF TellsOf
  <2>9. CASE r.kind # "SETTLE"
    <3>1. Settlements(disk) = S
      BY <2>5, <2>9 DEF Chosen
    <3>2. after.stopped = JP!Running => bud.stopped = JP!Running
      BY <2>1, <2>6, <2>9 DEF JP!Accepts, JP!Reservable
    <3> HIDE DEF S
    <3> QED
      BY <1>4, <2>1, <2>7, <2>8, <3>1, <3>2
  <2>10. CASE r.kind = "SETTLE"
    <3> DEFINE T == Append(S, r)
    <3>1. /\ S \in Seq(JP!Row) /\ Len(S) = Len(obs)
          /\ Settlements(disk) = T
      BY <1>3, <2>5, <2>10 DEF Chosen, TellsOf
    <3> HIDE DEF S
    <3>2. /\ Len(T) = Len(obs) + 1
          /\ \A i \in 1 .. Len(obs) : T[i] = S[i]
          /\ T[Len(obs) + 1] = r
      BY <2>1, <3>1
    <3>3. /\ r.slot = Len(obs) + 1 /\ bud.stopped = JP!Running
          /\ after.stopped = JP!Running =>
                /\ r.status = "SUCCESS"
                /\ r.elapsed <= JP!Envelope(Plan[r.slot])
      BY <2>6, <2>10
    <3>4. Measured(att, r, r.slot) /\ Housed(att, host, r.slot)
      BY <2>1, <2>10 DEF Told
    <3>5. ASSUME NEW i \in 1 .. Len(obs) + 1
          PROVE  i = Len(obs) + 1 \/ i \in 1 .. Len(obs)
      BY <1>5
    <3> HIDE DEF T
    <3>6. AllMeasured(T)
      <4> SUFFICES ASSUME NEW i \in 1 .. Len(obs) + 1
                   PROVE  /\ T[i].slot = i
                          /\ Measured(att, T[i], i) /\ Housed(att, host, i)
        BY <3>2 DEF AllMeasured
      <4>1. CASE i = Len(obs) + 1
        BY <3>2, <3>3, <3>4, <4>1
      <4>2. CASE i \in 1 .. Len(obs)
        BY <1>4, <3>1, <3>2, <4>2 DEF AllMeasured
      <4> QED
        BY <3>5, <4>1, <4>2, Zenon
    <3>7. after.stopped = JP!Running => AllSucceeded(T)
      <4> SUFFICES ASSUME after.stopped = JP!Running,
                          NEW i \in 1 .. Len(obs) + 1
                   PROVE  /\ T[i].status = "SUCCESS"
                          /\ T[i].elapsed <= JP!Envelope(Plan[i])
        BY <3>2 DEF AllSucceeded
      <4>1. CASE i = Len(obs) + 1
        BY <3>2, <3>3, <4>1
      <4>2. CASE i \in 1 .. Len(obs)
        BY <1>4, <3>1, <3>2, <3>3, <4>2 DEF AllSucceeded
      <4> QED
        BY <3>5, <4>1, <4>2, Zenon
    <3> QED
      BY <2>1, <2>7, <2>8, <3>1, <3>6, <3>7
  <2> QED
    BY <2>9, <2>10
<1> QED
  BY <1>2, <1>6, <1>7

\* The attempts in the file are those in memory, or one row further on: an
\* attempt more, which is still one of the plan and was debited, or the last
\* one a phase further.  A reaped attempt is the same in both.
LEMMA FileAttempts ==
  ASSUME BridgeInv, NothingForeign
  PROVE  LET A == JP!AttemptsOnFile
         IN  /\ Len(A) \in Nat /\ Len(att) <= Len(A) /\ Len(A) <= bud.index
             /\ \A i \in 1 .. Len(A) : OfTask(A[i], i)
             /\ \A i \in 1 .. Len(att) :
                   att[i].phase = "REAPED" => A[i] = att[i]
             /\ /\ Len(att) = bud.index
                /\ \A i \in 1 .. Len(att) : att[i].phase = "REAPED"
                => A = att
<1> DEFINE A == JP!AttemptsOnFile
           n == Len(att)
           r == ldisk[lacked + 1]
<1>1. /\ JournalsInv /\ JP!LInv /\ InPlan
  BY DEF BridgeInv, JournalsInv
<1>2. /\ lacked \in Nat /\ Len(ldisk) \in {lacked, lacked + 1}
      /\ Len(ldisk) = lacked + 1 => r \in JP!LRow /\ JP!LAccepts(att, r)
      /\ att \in JP!Book /\ n \in Nat /\ bud.index \in Nat
  BY <1>1, OnFile, Read DEF JP!LInv, JP!LTypeOK, JP!Book
<1>3. \A i \in 1 .. n : OfTask(att[i], i)
  BY <1>1 DEF InPlan
<1>4. n <= bud.index
  BY <1>2, <1>3 DEF OfTask
<1>5. CASE Len(ldisk) = lacked
  <2>1. A = att
    BY <1>5 DEF JP!AttemptsOnFile
  <2> HIDE DEF A
  <2> QED
    BY <1>2, <1>3, <1>4, <2>1 DEF A
<1>6. CASE Len(ldisk) = lacked + 1
  <2>1. r \in JP!LRow /\ JP!LAccepts(att, r) /\ A = JP!LAfter(att, r)
    BY <1>2, <1>6 DEF JP!AttemptsOnFile
  <2>2. r.kind \in {"INTENT", "LAUNCHED", "REAPED"}
    BY <2>1 DEF JP!LRow
  <2>3. r.kind = "INTENT" => OfTask(r, n + 1)
    BY <1>1, <1>2, <1>6 DEF InPlan
  <2> HIDE DEF A, r
  <2>4. CASE r.kind = "INTENT"
    <3>1. /\ Len(A) = n + 1 /\ \A i \in 1 .. n : A[i] = att[i]
          /\ A[n + 1].aid = r.aid /\ A[n + 1].profile = r.profile
          /\ A[n + 1].session = r.session
      BY <1>2, <2>1, <2>4, JP!AfterIntent, JournalsAssumed
    <3>2. OfTask(A[n + 1], n + 1)
      BY <2>3, <2>4, <3>1 DEF OfTask
    <3>3. n + 1 <= bud.index
      BY <3>2 DEF OfTask
    <3>4. \A i \in 1 .. n + 1 : OfTask(A[i], i)
      <4> SUFFICES ASSUME NEW i \in 1 .. n + 1 PROVE OfTask(A[i], i)
        OBVIOUS
      <4>1. CASE i = n + 1
        BY <3>2, <4>1, Zenon
      <4>2. CASE i \in 1 .. n
        BY <1>3, <3>1, <4>2
      <4>3. i = n + 1 \/ i \in 1 .. n
        BY <1>2
      <4> QED
        BY <4>1, <4>2, <4>3, Zenon
    <3> QED
      BY <1>2, <3>1, <3>3, <3>4 DEF A
  <2>5. CASE r.kind = "LAUNCHED" \/ r.kind = "REAPED"
    <3>1. /\ Len(A) = n /\ n \in Nat \ {0}
          /\ \A i \in 1 .. n : i # n => A[i] = att[i]
          /\ A[n].aid = att[n].aid /\ A[n].profile = att[n].profile
          /\ A[n].session = att[n].session
          /\ att[n].phase # "REAPED"
      <4>1. CASE r.kind = "LAUNCHED"
        BY <1>2, <2>1, <4>1, JP!AfterLaunched, JournalsAssumed
      <4>2. CASE r.kind = "REAPED"
        BY <1>2, <2>1, <4>2, JP!AfterReaped, JournalsAssumed
      <4> QED
        BY <2>5, <4>1, <4>2
    <3>2. \A i \in 1 .. n : OfTask(A[i], i)
      BY <1>3, <3>1 DEF OfTask
    <3>3. ~ \A i \in 1 .. n : att[i].phase = "REAPED"
      BY <3>1
    <3> QED
      BY <1>2, <1>4, <3>1, <3>2, <3>3 DEF A
  <2> QED
    BY <2>2, <2>4, <2>5
<1> QED
  BY <1>2, <1>5, <1>6

-----------------------------------------------------------------------------
\* The inductive invariant of the bridge: each of its journals keeps its own,
\* through every interrupt, since the run stops where one left it, and the
\* attempts of one follow the debited slots of the other.
THEOREM BridgeInductive == Spec => []BridgeInv
<1>1. BridgeInv /\ [Next]_vars => BridgeInv'
  BY JournalsStep, HaltedKept, PlanFollowed, PlaceKept, TypesKept,
     RowsToldKept, SettledKept
     DEF BridgeInv
<1> QED
  BY <1>1, InitBridge, PTL DEF Spec

\* The variables of the bridge itself keep their types.
THEOREM BridgeTyped == Spec => []TypeOK
<1>1. BridgeInv => TypeOK
  BY DEF BridgeInv
<1> QED
  BY <1>1, BridgeInductive, PTL

\* Whatever was launched was the next task of the plan, its debit is on stable
\* storage, unless somebody overwrote a row, and its intent acknowledged: after
\* a crash or an interrupt at any point of a run, the files still tell that it
\* may have run.
THEOREM LaunchesArePaid == Spec => []LaunchPaidFor
<1>1. BridgeInv => LaunchPaidFor
  <2> SUFFICES ASSUME BridgeInv, NEW i \in 1 .. Len(world)
               PROVE  /\ i <= Len(Plan) /\ world[i].aid = Plan[i].uid
                      /\ B!Intact =>
                           \E n \in 1 .. synced :
                              disk[n] = [kind |-> "DEBIT",
                                         uid |-> world[i].aid, slot |-> i]
                      /\ \E n \in 1 .. lacked :
                            /\ ldisk[n].kind = "INTENT"
                            /\ ldisk[n].aid = world[i].aid
    BY DEF LaunchPaidFor
  <2>1. JournalsInv
    BY DEF BridgeInv
  <2>2. /\ Len(att) \in Nat /\ Len(world) \in Nat
        /\ Len(world) <= Len(att) /\ world[i].aid = att[i].aid
    BY <2>1, Read
       DEF JournalsInv, JP!LInv, JP!WorldInv, JP!Followed
  <2>3. i \in 1 .. Len(att)
    BY <2>2
  <2>4. world[i].aid = Plan[i].uid /\ i <= bud.index
    BY <2>2, <2>3 DEF BridgeInv, InPlan, OfTask
  <2>5. i <= Len(Plan) /\ i \in 1 .. bud.index
    BY <2>1, <2>4, Read
  <2>6. acked \in Nat /\ synced \in Nat /\ acked <= synced
        /\ synced <= Len(disk) /\ Len(disk) \in Nat
    BY <2>1
       DEF JournalsInv, JP!BudgetJournalInv, JP!DiskInv, JP!JTyped,
           JP!FileKeepsUp
  <2>7. ASSUME B!Intact
        PROVE  \E n \in 1 .. synced :
                  disk[n] = [kind |-> "DEBIT", uid |-> Plan[i].uid,
                             slot |-> i]
    <3>1. \A n \in 1 .. acked : n \in 1 .. Len(disk)
      BY <2>6
    <3>2. JP!Untouched
      BY <2>7, <3>1
         DEF B!Intact, B!Overwritten, JP!Untouched, JP!Overwritten
    <3>3. PICK n \in 1 .. acked :
             disk[n] = [kind |-> "DEBIT", uid |-> Plan[i].uid, slot |-> i]
      BY <2>1, <2>5, <3>2
         DEF JournalsInv, JP!BudgetJournalInv, JP!DebitsStored, Plan
    <3>4. n \in 1 .. synced
      BY <2>6
    <3> QED
      BY <3>3, <3>4
  <2>8. \E m \in 1 .. lacked :
           ldisk[m].kind = "INTENT" /\ ldisk[m].aid = att[i].aid
    BY <2>1, <2>3
       DEF JournalsInv, JP!LFile, JP!Announced
  <2> QED
    BY <2>2, <2>4, <2>5, <2>7, <2>8
<1> QED
  BY <1>1, BridgeInductive, PTL

\* At every moment of a run, and after a crash or an interrupt at any of them,
\* each file replays, unless somebody else wrote into it, and the two join,
\* unless the backend named two hosts.
THEOREM JoinHolds == Spec => []JoinHoldsOnDisk
<1>1. BridgeInv => JoinHoldsOnDisk
  <2> SUFFICES ASSUME BridgeInv, NothingForeign
               PROVE  \E b \in B!Replay(decl, disk), A \in L!LReplay(ldisk) :
                         OneHost(A) => Join(disk, A)
    BY DEF JoinHoldsOnDisk
  <2> DEFINE A == JP!AttemptsOnFile
             D == Debits(disk)
             S == Settlements(disk)
  <2>1. /\ JP!BudgetOnFile \in B!Replay(decl, disk)
        /\ A \in L!LReplay(ldisk)
    BY OnFile
  <2>2. /\ Len(D) \in Nat /\ bud.index <= Len(D) /\ Len(D) <= Len(Plan)
        /\ \A i \in 1 .. Len(D) : D[i].uid = Plan[i].uid
        /\ Len(S) \in Nat
        /\ \A i \in 1 .. Len(S) : S[i].slot = i /\ Measured(att, S[i], i)
    BY FileRows DEF AllMeasured
  <2>3. /\ Len(A) \in Nat /\ Len(att) <= Len(A) /\ Len(A) <= bud.index
        /\ \A i \in 1 .. Len(A) : OfTask(A[i], i)
        /\ \A i \in 1 .. Len(att) : att[i].phase = "REAPED" => A[i] = att[i]
    BY FileAttempts
  <2>4. Len(att) \in Nat /\ bud.index \in Nat /\ Len(Plan) \in Nat
    BY Read DEF BridgeInv
  <2> HIDE DEF A, D, S
  <2>5. Len(D) <= Len(Plan) /\ Len(A) <= Len(D) /\ Len(S) <= Len(A)
    <3>1. CASE Len(S) = 0
      BY <2>2, <2>3, <2>4, <3>1
    <3>2. CASE Len(S) # 0
      <4>1. Len(S) \in 1 .. Len(S)
        BY <2>2, <3>2
      <4>2. Len(S) \in 1 .. Len(att)
        BY <2>2, <4>1 DEF Measured
      <4> QED
        BY <2>2, <2>3, <2>4, <4>2
    <3> QED
      BY <3>1, <3>2
  <2>6. ASSUME NEW i \in 1 .. Len(D)
        PROVE  SlotJoined(disk, A, i)
    <3>1. D[i].uid = Plan[i].uid
      BY <2>2
    <3>2. ASSUME i <= Len(A)
          PROVE  /\ A[i].aid = Plan[i].uid
                 /\ A[i].profile = profiles[Plan[i].uid]
                 /\ A[i].session = BoundSession
      BY <2>2, <2>3, <3>2 DEF OfTask
    <3>3. ASSUME i <= Len(S)
          PROVE  /\ A[i].phase = "REAPED"
                 /\ S[i].slot = i
                 /\ S[i].status = StatusOf(A[i].profile)
                 /\ S[i].elapsed = A[i].end - A[i].start
                 /\ S[i].clean
      <4>1. i \in 1 .. Len(S)
        BY <2>2, <3>3
      <4>2. S[i].slot = i /\ Measured(att, S[i], i)
        BY <2>2, <4>1
      <4>3. A[i] = att[i]
        BY <2>3, <4>2 DEF Measured
      <4> QED
        BY <4>2, <4>3 DEF Measured
    <3> QED
      BY <3>1, <3>2, <3>3 DEF SlotJoined, D, S
  <2>7. CountsJoin(disk, A)
    BY <2>5, <2>6 DEF CountsJoin, D, S
  <2>8. OneHost(A) => Join(disk, A)
    BY <2>7 DEF Join
  <2> QED
    BY <2>1, <2>8
<1> QED
  BY <1>1, BridgeInductive, PTL

\* A phase that is complete, to the live bridge or to a load() of its files,
\* has run every task in a process of its own, all on one host, whose end was
\* verified, as a success and within its debited envelope: what the settlements
\* say was measured of the attempts on that host, and a running budget lets
\* nothing else pass.
THEOREM CompleteRan == Spec => []CompleteMeansEveryTaskRan
<1>1. BridgeInv => CompleteMeansEveryTaskRan
  <2> SUFFICES ASSUME BridgeInv,
                      NEW b \in B!Replay(decl, disk),
                      NEW A \in L!LReplay(ldisk),
                      FullSuccess(disk, b, A)
               PROVE  /\ Len(world) = Len(Plan)
                      /\ OneHost(A)
                      /\ \A i \in 1 .. Len(Plan) :
                            /\ world[i].handle
                            /\ world[i].cleaned = "verified"
                            /\ profiles[Plan[i].uid] = "success"
                            /\ A[i].end - A[i].start <= Envelope(Plan[i])
    BY DEF CompleteMeansEveryTaskRan
  <2> DEFINE S == Settlements(disk)
  <2>1. NothingForeign /\ b = JP!BudgetOnFile /\ A = JP!AttemptsOnFile
    <3>1. NothingForeign
      BY ForeignRefused
    <3> QED
      BY <3>1, OnFile
  <2>2. Len(S) = Len(Plan) /\ b.stopped = JP!Running
    BY DEF FullSuccess, Paired, DeclaredPlanComplete, Running, JP!Running
  <2>3. \A i \in 1 .. Len(S) :
           /\ Measured(att, S[i], i) /\ Housed(att, host, i)
           /\ S[i].status = "SUCCESS"
           /\ S[i].elapsed <= JP!Envelope(Plan[i])
    BY <2>1, <2>2, FileRows DEF AllMeasured, AllSucceeded
  <2> HIDE DEF S
  <2>4. /\ JournalsInv /\ JP!LInv /\ InPlan
        /\ Len(Plan) \in Nat /\ Len(att) \in Nat /\ Len(world) \in Nat
        /\ bud.index \in 0 .. Len(Plan)
    BY Read DEF BridgeInv, JournalsInv
  <2>5. Len(att) = Len(Plan) /\ Len(att) = bud.index
    <3>1. Len(Plan) <= Len(att)
      <4>1. CASE Len(Plan) # 0
        <5>1. Len(Plan) \in 1 .. Len(S)
          BY <2>2, <2>4, <4>1
        <5> QED
          BY <2>3, <5>1 DEF Measured
      <4> QED
        BY <2>4, <4>1
    <3>2. Len(att) <= bud.index
      <4>1. Len(att) # 0 => Len(att) \in 1 .. Len(att)
        BY <2>4
      <4> QED
        BY <2>4, <4>1 DEF InPlan, OfTask
    <3> QED
      BY <2>4, <3>1, <3>2
  <2>6. \A i \in 1 .. Len(att) :
           att[i].phase = "REAPED" /\ att[i].ident.host = host
    BY <2>2, <2>3, <2>5 DEF Measured, Housed
  <2>7. A = att
    BY <2>1, <2>5, <2>6, FileAttempts
  <2>8. OneHost(A)
    <3>1. \A i, j \in 1 .. Len(att) : i < j => att[i].ident # att[j].ident
      BY <2>4 DEF JP!LInv, JP!BookInv, JP!Named
    <3>2. \A i, j \in 1 .. Len(att) : att[i].ident = att[j].ident => i = j
      BY <2>4, <3>1
    <3> QED
      BY <2>6, <2>7, <3>2 DEF OneHost
  <2>9. /\ Len(world) <= Len(att)
        /\ \A i \in 1 .. Len(att) :
              /\ att[i].phase # "INTENT" => i <= Len(world)
              /\ att[i].phase = "REAPED" =>
                    world[i].handle /\ world[i].cleaned = "verified"
    BY <2>4 DEF JP!LInv, JP!WorldInv, JP!Followed, JP!Finished
  <2>10. Len(world) = Len(Plan)
    <3>1. CASE Len(att) = 0
      BY <2>4, <2>5, <2>9, <3>1
    <3>2. CASE Len(att) # 0
      <4>1. Len(att) \in 1 .. Len(att)
        BY <2>4, <3>2
      <4>2. Len(att) <= Len(world)
        BY <2>6, <2>9, <4>1
      <4> QED
        BY <2>4, <2>5, <2>9, <4>2
    <3> QED
      BY <3>1, <3>2
  <2>11. ASSUME NEW i \in 1 .. Len(Plan)
         PROVE  /\ world[i].handle
                /\ world[i].cleaned = "verified"
                /\ profiles[Plan[i].uid] = "success"
                /\ A[i].end - A[i].start <= Envelope(Plan[i])
    <3>1. /\ i \in 1 .. Len(att) /\ i \in 1 .. Len(S)
      BY <2>2, <2>5
    <3>2. /\ Measured(att, S[i], i) /\ S[i].status = "SUCCESS"
          /\ S[i].elapsed <= JP!Envelope(Plan[i])
      BY <2>3, <3>1
    <3>3. world[i].handle /\ world[i].cleaned = "verified"
      BY <2>6, <2>9, <3>1
    <3>4. att[i].profile = profiles[Plan[i].uid]
      BY <2>4, <3>1 DEF InPlan, OfTask
    <3>5. att[i].profile = "success"
      <4>1. att[i].profile \in Profiles
        <5>1. att[i] \in JP!Attempt
          BY <2>4, <3>1, Read
        <5> QED
          BY <5>1 DEF JP!Attempt
      <4>2. StatusOf(att[i].profile) = "SUCCESS"
        BY <3>2 DEF Measured
      <4> QED
        BY <4>1, <4>2 DEF StatusOf, Profiles
    <3>6. A[i].end - A[i].start <= Envelope(Plan[i])
      BY <2>7, <3>2 DEF Measured, Envelope, JP!Envelope
    <3> QED
      BY <3>3, <3>4, <3>5, <3>6
  <2> QED
    BY <2>8, <2>10, <2>11
<1> QED
  BY <1>1, BridgeInductive, PTL

\* A poisoned bridge lets no further callback through, launches nothing it had
\* not let through before, settles nothing and pairs no task.
THEOREM PoisonedBridgeStops == Spec => NothingAfterPoison
<1>1. BridgeInv /\ [Next]_vars =>
        [bpoisoned => /\ ready' => ready
                      /\ Len(world') > Len(world) => ready
                      /\ bpc' = "settle" => bpc = "settle"
                      /\ UNCHANGED next]_vars
  <2> SUFFICES ASSUME BridgeInv, Next, bpoisoned
               PROVE  /\ ready' => ready
                      /\ Len(world') > Len(world) => ready
                      /\ bpc' = "settle" => bpc = "settle"
                      /\ UNCHANGED next
    OBVIOUS
  <2>1. /\ ready' => ready
        /\ bpc' = "settle" => bpc = "settle"
        /\ UNCHANGED next
    <3>1. ~BeginSettle /\ ~Finish /\ ~CheckReady
      BY DEF BeginSettle, Settleable, Finish, Settled, CheckReady
    <3>2. ready' = ready \/ ready' = FALSE
      BY <3>1
         DEF Next, RunStep, Start, BudgetStep, BeginLife, NotReady,
             BackendCall, LifecycleStep, Fail, Raise, Reenter, Snapshot,
             Close, Interfere, Interrupt, Crash, own
    <3>3. bpc' = bpc \/ bpc' \in {"reserve", "life", "idle", "dead"}
      BY <3>1
         DEF Next, RunStep, Start, BudgetStep, BeginLife, NotReady,
             BackendCall, LifecycleStep, Fail, Raise, Reenter, Snapshot,
             Close, Interfere, Interrupt, Crash, own, Goto
    <3>4. next' = next
      BY <3>1
         DEF Next, RunStep, Start, BudgetStep, BeginLife, NotReady,
             BackendCall, LifecycleStep, Fail, Raise, Reenter, Snapshot,
             Close, Interfere, Interrupt, Crash, own
    <3> QED
      BY <3>2, <3>3, <3>4
  <2>2. /\ world \in Seq(JP!Process) /\ Len(world) \in Nat
    BY Read DEF BridgeInv
  <2>3. ready \/ world' = world \/ \E how : L!Cleaned(how)
    BY DEF Next, RunStep, Start, BudgetStep, BeginLife, CheckReady, NotReady,
           BackendCall, LifecycleStep, BeginSettle, Finish, Fail, Raise,
           Reenter, Snapshot, Snapshots, Close, Interfere, Interrupt, Crash,
           lvars, lkept, L!RunStart, L!aside, L!AppendIntent,
           L!AppendLaunched, L!Cleanup, L!AppendReaped, L!ReapRaises,
           L!InterruptAppend, L!InterruptRun, L!LClose, L!LInterfere,
           L!LCrash
  <2>4. Len(world') > Len(world) => ready
    BY <2>2, <2>3 DEF L!Cleaned
  <2> QED
    BY <2>1, <2>4
<1> QED
  BY <1>1, BridgeInductive, PTL DEF Spec, NothingAfterPoison
=============================================================================
