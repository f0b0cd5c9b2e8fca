---------------------------- MODULE Journals_proofs ----------------------------
(***************************************************************************)
(* Proofs about the two durable journals, each by itself.                  *)
(*                                                                         *)
(* The budget journal: what it commits is a behaviour of the declared      *)
(* budget, so that everything proved of the budget holds of the journal    *)
(* through every crash, failure, interrupt and reentrant call; and its     *)
(* bound on events is never the reason why an event is refused.  The row a *)
(* call carries through its I/O was accepted by the budget as it still is  *)
(* when the row is committed, and a row that a failed call left in the     *)
(* file is accepted by it too.  So the file replays to the budget in       *)
(* memory, and load() finds one budget at any time (FileReplays), until    *)
(* an interrupt between a row and its commit keeps the two apart, or       *)
(* somebody overwrites a row; a file with foreign lines is refused         *)
(* (ReplayRefuses).                                                        *)
(*                                                                         *)
(* The lifecycle journal: none of its properties is inductive.  LInv joins *)
(* what its kinds of state say of each other: BookInv, that the attempts   *)
(* are each announced, named and timed apart from the others; WorldInv,    *)
(* that the processes are those of the attempts in their order, and that   *)
(* run() works on the last of them; Pending, what a durable row waits for; *)
(* HandlesHeld, whose cleanup is still to come.  It holds after any        *)
(* interrupt.  LFile, that the acknowledged rows replay to the attempts,   *)
(* holds until one keeps a row from them, and past it as long as run()     *)
(* writes nothing more (LSteady): a caller that stops there, as the task   *)
(* bridge does, still has a file it can load.                              *)
(*                                                                         *)
(* A replay is a recursive function; a least prefix on which two replays   *)
(* differ takes the place of an induction.                                 *)
(***************************************************************************)
EXTENDS BudgetJournal, LifecycleJournal, TLAPS

P == INSTANCE StageBudget_proofs

RowOffered ==
  \/ row \in [kind : {"DEBIT"}, uid : Uid, slot : Nat]
  \/ row \in [kind : {"DENIED"}, uid : Uid]
  \/ row \in [kind : {"SETTLE"}, slot : Nat, status : Status,
              elapsed : ElapsedChoice, clean : BOOLEAN]

RowStillAccepted == pc # "idle" => RowOffered /\ Accepts(decl, bud, row)

Frozen == decl \in Declarations /\ DeclarationOK(decl)

JInv == Frozen /\ RowStillAccepted

-----------------------------------------------------------------------------
\* A journal is created idle, with no row under way.
LEMMA JInit == Init => JInv
  BY DEF Init, JInv, Frozen, RowStillAccepted

\* reserve() of the journal: the row it is about to write (a debit or the
\* denial) is one the budget accepts at that moment.
LEMMA BeginReserveJInv ==
  ASSUME JInv, bud \in Budget, NEW uid \in Uid, BeginReserve(uid)
  PROVE  JInv'
<1>1. /\ decl' = decl /\ bud' = bud /\ Reservable(decl, bud, uid)
      /\ row' = IF Exhausted(decl, bud) THEN [kind |-> "DENIED", uid |-> uid]
                                        ELSE DebitRow(decl, bud, uid)
  BY DEF BeginReserve, Begin, ram
<1>2. CASE Exhausted(decl, bud)
  <2>1. row'.kind = "DENIED" /\ row'.uid = uid
        /\ row' \in [kind : {"DENIED"}, uid : Uid]
    BY <1>1, <1>2
  <2>2. RowOffered' /\ Accepts(decl', bud', row')
    BY <1>1, <1>2, <2>1 DEF RowOffered, Accepts
  <2> QED
    BY <1>1, <2>2 DEF JInv, Frozen, RowStillAccepted
<1>3. CASE ~Exhausted(decl, bud)
  <2>1. /\ row'.kind = "DEBIT" /\ row'.uid = uid
        /\ row' = DebitRow(decl, bud, row'.uid)
        /\ row' \in [kind : {"DEBIT"}, uid : Uid, slot : Nat]
    BY <1>1, <1>3 DEF DebitRow, Budget
  <2>2. RowOffered' /\ Accepts(decl', bud', row')
    BY <1>1, <1>3, <2>1 DEF RowOffered, Accepts
  <2> QED
    BY <1>1, <2>2 DEF JInv, Frozen, RowStillAccepted
<1> QED
  BY <1>2, <1>3

\* settle() of the journal: the row names the active slot.
LEMMA BeginSettleJInv ==
  ASSUME JInv, bud \in Budget, NEW status \in Status,
         NEW elapsed \in ElapsedChoice, NEW clean \in BOOLEAN,
         BeginSettle(status, elapsed, clean)
  PROVE  JInv'
<1>1. /\ decl' = decl /\ bud' = bud /\ bud.active # NoSlot
      /\ row' = [kind |-> "SETTLE", slot |-> bud.active, status |-> status,
                 elapsed |-> elapsed, clean |-> clean]
  BY DEF BeginSettle, Begin, ram
<1>2. /\ row'.kind = "SETTLE" /\ row'.slot = bud.active
      /\ row' \in [kind : {"SETTLE"}, slot : Nat, status : Status,
                   elapsed : ElapsedChoice, clean : BOOLEAN]
  BY <1>1 DEF Budget
<1>3. RowOffered' /\ Accepts(decl', bud', row')
  BY <1>1, <1>2 DEF RowOffered, Accepts
<1> QED
  BY <1>1, <1>3 DEF JInv, Frozen, RowStillAccepted

\* Between the beginning of a call and its acknowledgment nothing moves the
\* budget or the row; every way out of a call drops the row.
LEMMA JNext ==
  ASSUME JInv, bud \in Budget, [Next]_vars
  PROVE  JInv'
<1>1. ASSUME NEW uid \in Uid, BeginReserve(uid) PROVE JInv'
  BY <1>1, BeginReserveJInv
<1>2. ASSUME NEW status \in Status, NEW elapsed \in ElapsedChoice,
             NEW clean \in BOOLEAN, BeginSettle(status, elapsed, clean)
      PROVE  JInv'
  BY <1>2, BeginSettleJInv
<1>3. CASE Write \/ Fsync \/ Reentrant \/ Snapshot \/ Close \/ Interfere
  BY <1>3 DEF Write, Fsync, Reentrant, Snapshot, Close, Interfere, ram,
              JInv, Frozen, RowStillAccepted, RowOffered
<1>4. CASE Refuse \/ WriteFails \/ FsyncFails \/ AdoptFails \/ RecheckFails
  BY <1>4 DEF Refuse, WriteFails, FsyncFails, AdoptFails, RecheckFails, Raise,
              JInv, Frozen, RowStillAccepted
<1>5. CASE Commit \/ Interrupt \/ Crash \/ PowerLoss
  BY <1>5 DEF Commit, Interrupt, Crash, PowerLoss, JInv, Frozen,
              RowStillAccepted
<1>6. CASE Adopt \/ Count \/ Recheck
  BY <1>6 DEF Adopt, Count, Recheck, ram, JInv, Frozen, RowStillAccepted,
              RowOffered
<1>7. CASE UNCHANGED vars
  BY <1>7 DEF vars, ram, JInv, Frozen, RowStillAccepted, RowOffered
<1> QED
  BY <1>1, <1>2, <1>3, <1>4, <1>5, <1>6, <1>7 DEF Next

-----------------------------------------------------------------------------
\* Every step other than a commit leaves the abstract state alone.
LEMMA OnlyCommitMoves ==
  ASSUME [Next]_vars, ~Commit
  PROVE  UNCHANGED <<decl, bud, obs, acked>>
<1>1. ASSUME NEW uid \in Uid, BeginReserve(uid)
      PROVE  UNCHANGED <<decl, bud, obs, acked>>
  BY <1>1 DEF BeginReserve, Begin, ram
<1>2. ASSUME NEW status \in Status, NEW elapsed \in ElapsedChoice,
             NEW clean \in BOOLEAN, BeginSettle(status, elapsed, clean)
      PROVE  UNCHANGED <<decl, bud, obs, acked>>
  BY <1>2 DEF BeginSettle, Begin, ram
<1>3. CASE Write \/ Fsync \/ Reentrant \/ Snapshot \/ Close \/ Interfere
  BY <1>3 DEF Write, Fsync, Reentrant, Snapshot, Close, Interfere, ram
<1>4. CASE Refuse \/ WriteFails \/ FsyncFails \/ AdoptFails \/ RecheckFails
  BY <1>4 DEF Refuse, WriteFails, FsyncFails, AdoptFails, RecheckFails, Raise,
              ram
<1>5. CASE Interrupt \/ Crash \/ PowerLoss
  BY <1>5 DEF Interrupt, Crash, PowerLoss, ram
<1>6. CASE Adopt \/ Count \/ Recheck
  BY <1>6 DEF Adopt, Count, Recheck, ram
<1>7. CASE UNCHANGED vars
  BY <1>7 DEF vars, ram
<1> QED
  BY <1>1, <1>2, <1>3, <1>4, <1>5, <1>6, <1>7 DEF Next

\* A commit is a step of the abstract budget: of reserve() or settle(),
\* according to the row that was written.
LEMMA CommitIsNext ==
  ASSUME JInv, bud \in Budget, Commit
  PROVE  P!Next
<1>1. /\ RowOffered /\ Accepts(decl, bud, row)
      /\ decl' = decl /\ bud' = After(decl, bud, row)
      /\ obs' = IF row.kind # "SETTLE" THEN obs
                ELSE Append(obs, [status |-> row.status,
                                  elapsed |-> row.elapsed,
                                  clean |-> row.clean])
  BY DEF JInv, RowStillAccepted, Commit
<1>2. CASE row \in [kind : {"DEBIT"}, uid : Uid, slot : Nat]
  <2>1. row.kind = "DEBIT" /\ row.uid \in Uid
    BY <1>2
  <2>2. P!Reserve(row.uid)
    BY <1>1, <2>1
       DEF Accepts, After, P!Reserve, Reservable, P!Reservable, Exhausted,
           P!Exhausted, Debit, P!Debit, NextNode, P!NextNode, Envelope,
           P!Envelope, Running, P!Running, NoSlot, P!NoSlot
  <2> QED
    BY <2>1, <2>2 DEF P!Next
<1>3. CASE row \in [kind : {"DENIED"}, uid : Uid]
  <2>1. row.kind = "DENIED" /\ row.uid \in Uid
    BY <1>3
  <2>2. P!Censor(row.uid)
    BY <1>1, <2>1
       DEF Accepts, After, P!Censor, Reservable, P!Reservable, Exhausted,
           P!Exhausted, Deny, P!Deny, NextNode, P!NextNode, Envelope,
           P!Envelope, Running, P!Running, NoSlot, P!NoSlot, Censored,
           P!Censored
  <2> QED
    BY <2>1, <2>2 DEF P!Next
<1>4. CASE row \in [kind : {"SETTLE"}, slot : Nat, status : Status,
                    elapsed : ElapsedChoice, clean : BOOLEAN]
  <2>1. /\ row.kind = "SETTLE" /\ row.status \in Status
        /\ row.elapsed \in ElapsedChoice /\ row.clean \in BOOLEAN
    BY <1>4
  <2>2. P!Settle(row.status, row.elapsed, row.clean)
    BY <1>1, <2>1
       DEF Accepts, After, P!Settle, Settlement, P!Settlement, StopAfter,
           P!StopAfter, Opaque, P!Opaque, Envelope, P!Envelope, NoSlot,
           P!NoSlot, Unresolved, P!Unresolved, Overrun, P!Overrun, Failed,
           P!Failed
  <2> QED
    BY <2>1, <2>2 DEF P!Next, Status, P!Status
<1> QED
  BY <1>1, <1>2, <1>3, <1>4 DEF RowOffered

\* The theorems about the budget assume what the journal's constants grant.
LEMMA BudgetAssumptions ==
  /\ Declarations \subseteq P!Declaration
  /\ Unmeasured \notin Nat
  /\ ElapsedChoice \subseteq P!Elapsed
BY DeclarationsAssumption, UnmeasuredAssumption, JournalAssumption
   DEF Declaration, P!Declaration, Node, P!Node, Kind, P!Kind, Stage, P!Stage,
       Elapsed, P!Elapsed

\* The budget keeps its type along the journal's steps: a commit is
\* a step of the abstract budget, whose invariant carries it.
LEMMA RefinedStep ==
  ASSUME JInv, P!Inv, [Next]_vars
  PROVE  [P!Next]_(P!vars) /\ P!Inv' /\ JInv'
<1>1. bud \in Budget
  BY DEF P!Inv, P!TypeOK, Budget, P!Budget, Kind, P!Kind, Status, P!Status,
         Unsettled, P!Unsettled, Stop, P!Stop, Running, P!Running, Censored,
         P!Censored, Unresolved, P!Unresolved, Overrun, P!Overrun, Failed,
         P!Failed
<1>2. [P!Next]_(P!vars)
  BY <1>1, CommitIsNext, OnlyCommitMoves DEF P!vars
<1>3. P!Inv'
  BY <1>2, P!NextInv, BudgetAssumptions
<1>4. JInv'
  BY <1>1, JNext
<1> QED
  BY <1>2, <1>3, <1>4

\* A journal starts from an initial state of the abstract budget.
LEMMA RefinedInit == Init => P!Init /\ P!Inv
<1>1. Init => P!Init
  BY DEF Init, P!Init, DeclarationOK, P!DeclarationOK, NodeOK, P!NodeOK,
         Translates, P!Translates, InitBudget, P!InitBudget, Kind, P!Kind,
         NoSlot, P!NoSlot, Unsettled, P!Unsettled, Running, P!Running
<1> QED
  BY <1>1, P!InitInv, BudgetAssumptions

\* The inductive invariant of the journal: a call under way holds a row the
\* acknowledged budget still accepts, and that budget satisfies the invariant
\* of the declared budget.
THEOREM JournalInvariant == Spec => [](JInv /\ P!Inv)
<1>1. Init => JInv /\ P!Inv
  BY JInit, RefinedInit
<1>2. JInv /\ P!Inv /\ [Next]_vars => (JInv /\ P!Inv)'
  BY RefinedStep
<1> QED
  BY <1>1, <1>2, PTL DEF Spec

\* Whatever fails, whoever calls back in, and wherever the process dies: the
\* acknowledged state of the journal behaves as the declared budget does.
THEOREM JournalRefinesBudget == Spec => ImplementsStageBudget
<1>1. P!Init => Abstract!Init
  BY DEF P!Init, Abstract!Init, P!DeclarationOK, Abstract!DeclarationOK,
         P!NodeOK, Abstract!NodeOK, P!Translates, Abstract!Translates,
         P!InitBudget, Abstract!InitBudget, P!Kind, Abstract!Kind, P!NoSlot,
         Abstract!NoSlot, P!Unsettled, Abstract!Unsettled, P!Running,
         Abstract!Running
<1>2. [P!Next]_(P!vars) => [Abstract!Next]_(Abstract!vars)
  BY DEF P!Next, P!vars, Abstract!Next, Abstract!vars, P!Reserve, P!Censor,
         P!Settle, Abstract!Reserve, Abstract!Censor, Abstract!Settle,
         P!Status, Abstract!Status, P!Reservable, Abstract!Reservable,
         P!Exhausted, Abstract!Exhausted, P!Debit, Abstract!Debit, P!Deny,
         Abstract!Deny, P!Settlement, Abstract!Settlement, P!StopAfter,
         Abstract!StopAfter, P!Opaque, Abstract!Opaque, P!NextNode,
         Abstract!NextNode, P!Envelope, Abstract!Envelope, P!NoSlot,
         Abstract!NoSlot, P!Running, Abstract!Running, P!Censored,
         Abstract!Censored, P!Unresolved, Abstract!Unresolved, P!Overrun,
         Abstract!Overrun, P!Failed, Abstract!Failed
<1>3. JInv /\ P!Inv /\ [Next]_vars => [Abstract!Next]_(Abstract!vars)
  BY <1>2, RefinedStep
<1> QED
  BY <1>1, <1>3, RefinedInit, JournalInvariant, PTL
     DEF Spec, ImplementsStageBudget, Abstract!Spec

\* Through crashes and failures, no more calls and no more wall time are ever
\* acknowledged than were declared.
THEOREM JournalCapsRespected ==
  Spec => [](/\ \A k \in Kind : bud.counts[k] <= decl.caps[k]
             /\ bud.reserved <= decl.phase)
<1>1. P!Inv => /\ \A k \in Kind : bud.counts[k] <= decl.caps[k]
               /\ bud.reserved <= decl.phase
  BY DEF P!Inv, P!WithinDeclaredCaps, Kind, P!Kind
<1> QED
  BY <1>1, JournalInvariant, PTL

-----------------------------------------------------------------------------
\* Two rows at most for every slot that was debited, one of them yet to come
\* while it is active, and one more for the denial that ends a plan early.
RowsPerSlot ==
  acked = (2 * bud.index - (IF bud.active = NoSlot THEN 0 ELSE 1))
          + (IF bud.stopped = Censored THEN 1 ELSE 0)

\* A committed row adds one event and one debit, settlement or denial.
LEMMA CommitCounts ==
  ASSUME JInv, bud \in Budget, RowsPerSlot, Commit,
         bud.active # NoSlot => bud.stopped = Running
  PROVE  RowsPerSlot'
<1>1. /\ RowOffered /\ Accepts(decl, bud, row)
      /\ decl \in Declaration /\ bud' = After(decl, bud, row)
      /\ acked' = acked + 1 /\ bud.index \in Nat
  BY DeclarationsAssumption
     DEF JInv, Frozen, RowStillAccepted, Commit, Budget
<1>2. CASE row \in [kind : {"DEBIT"}, uid : Uid, slot : Nat]
  <2>1. /\ row.kind = "DEBIT" /\ bud.active = NoSlot /\ bud.stopped = Running
        /\ bud' = Debit(decl, bud)
    BY <1>1, <1>2 DEF Accepts, Reservable, After
  <2>2. /\ bud'.index = bud.index + 1 /\ bud'.active = bud.index + 1
        /\ bud'.stopped = Running
    BY <2>1 DEF Debit, Budget
  <2> QED
    BY <1>1, <2>1, <2>2 DEF RowsPerSlot, NoSlot, Running, Censored
<1>3. CASE row \in [kind : {"DENIED"}, uid : Uid]
  <2>1. /\ row.kind = "DENIED" /\ bud.active = NoSlot /\ bud.stopped = Running
        /\ bud' = Deny(bud)
    BY <1>1, <1>3 DEF Accepts, Reservable, After
  <2>2. /\ bud'.index = bud.index /\ bud'.active = NoSlot
        /\ bud'.stopped = Censored
    BY <2>1 DEF Deny, Budget
  <2> QED
    BY <1>1, <2>1, <2>2 DEF RowsPerSlot, Running, Censored
<1>4. CASE row \in [kind : {"SETTLE"}, slot : Nat, status : Status,
                    elapsed : ElapsedChoice, clean : BOOLEAN]
  <2>1. /\ row.kind = "SETTLE" /\ bud.active # NoSlot
        /\ bud' = Settlement(decl, bud, row.status, row.elapsed, row.clean)
    BY <1>1, <1>4 DEF Accepts, After
  <2>2. /\ bud'.index = bud.index /\ bud'.active = NoSlot
        /\ bud'.stopped = StopAfter(decl, bud, row.status, row.elapsed,
                                    row.clean)
    <3> HIDE DEF StopAfter
    <3> QED
      BY <2>1 DEF Settlement, Budget
  <2>3. bud'.stopped = Censored <=> bud.stopped = Censored
    BY <2>1, <2>2
       DEF StopAfter, Running, Censored, Unresolved, Overrun, Failed
  <2> QED
    BY <1>1, <2>1, <2>2, <2>3 DEF RowsPerSlot
<1> QED
  BY <1>1, <1>2, <1>3, <1>4 DEF RowOffered

\* The events committed are the slots debited, the slots settled and the
\* denial, and every step of the journal keeps that count.
LEMMA RowsPerSlotStep ==
  ASSUME JInv, P!Inv, RowsPerSlot, [Next]_vars
  PROVE  RowsPerSlot'
<1>1. CASE Commit
  <2>1. bud \in Budget
    BY DEF P!Inv, P!TypeOK, Budget, P!Budget, Kind, P!Kind, Status, P!Status,
           Unsettled, P!Unsettled, Stop, P!Stop, Running, P!Running, Censored,
           P!Censored, Unresolved, P!Unresolved, Overrun, P!Overrun, Failed,
           P!Failed
  <2>2. bud.active # NoSlot => bud.stopped = Running
    BY DEF P!Inv, P!StoppedIsIdle, Running, P!Running, NoSlot, P!NoSlot
  <2> QED
    BY <1>1, <2>1, <2>2, CommitCounts
<1>2. CASE ~Commit
  BY <1>2, OnlyCommitMoves DEF RowsPerSlot
<1> QED
  BY <1>1, <1>2

-----------------------------------------------------------------------------
\* The budgets a row leads to from a set of budgets.
Moved(d, budgets, r) ==
  {After(d, b, r) : b \in {c \in budgets : Accepts(d, c, r)}}

\* f holds what the prefixes of the rows replay to.
IsReplay(f, d, rows) ==
  f = [n \in 0 .. Len(rows) |->
         IF n = 0 THEN {InitBudget} ELSE Moved(d, f[n - 1], rows[n])]

\* The replays of a file are those of any file it is a prefix of.
LEMMA ReplaysAgree ==
  ASSUME NEW d, NEW s, NEW t, NEW f, NEW g, Len(s) \in Nat, Len(t) \in Nat,
         IsReplay(f, d, s), IsReplay(g, d, t), Len(s) <= Len(t),
         \A n \in 1 .. Len(s) : s[n] = t[n]
  PROVE  \A n \in 0 .. Len(s) : f[n] = g[n]
<1> DEFINE T == {n \in 0 .. Len(s) : f[n] # g[n]}
<1>1. /\ \A n \in 0 .. Len(s) :
            f[n] = IF n = 0 THEN {InitBudget} ELSE Moved(d, f[n - 1], s[n])
      /\ \A n \in 0 .. Len(t) :
            g[n] = IF n = 0 THEN {InitBudget} ELSE Moved(d, g[n - 1], t[n])
  BY DEF IsReplay
<1>2. SUFFICES ASSUME T # {} PROVE FALSE
  OBVIOUS
<1>3. PICK m \in T : \A n \in T : m <= n
  <2>1. T \in SUBSET Nat
    OBVIOUS
  <2> QED
    BY <1>2, <2>1, P!LeastNumber, BudgetAssumptions
<1>4. CASE m = 0
  <2>1. 0 \in 0 .. Len(s) /\ 0 \in 0 .. Len(t)
    OBVIOUS
  <2>2. f[0] = {InitBudget} /\ g[0] = {InitBudget}
    BY <1>1, <2>1, Zenon
  <2> QED
    BY <1>3, <1>4, <2>2
<1>5. CASE m # 0
  <2>1. m - 1 \in 0 .. Len(s) /\ m - 1 \notin T
    BY <1>3, <1>5
  <2>2. f[m - 1] = g[m - 1]
    BY <2>1
  <2> QED
    BY <1>1, <1>3, <1>5, <2>2
<1> QED
  BY <1>4, <1>5

\* Every file has replays: a shortest prefix without them would extend one
\* that has them.
LEMMA ReplayExists ==
  ASSUME NEW d, NEW S, NEW s \in Seq(S)
  PROVE  \E f : IsReplay(f, d, s)
<1> DEFINE T == {n \in 0 .. Len(s) : ~ \E f : IsReplay(f, d, SubSeq(s, 1, n))}
<1>1. SUFFICES ASSUME T # {} PROVE FALSE
  <2>1. Len(s) \notin T
    BY <1>1
  <2>2. SubSeq(s, 1, Len(s)) = s
    OBVIOUS
  <2>3. Len(s) \in 0 .. Len(s)
    OBVIOUS
  <2>4. \E f : IsReplay(f, d, SubSeq(s, 1, Len(s)))
    BY <2>1, <2>3, Zenon
  <2> QED
    BY <2>2, <2>4, Zenon
<1>2. PICK m \in T : \A n \in T : m <= n
  <2>1. T \in SUBSET Nat
    OBVIOUS
  <2> QED
    BY <1>1, <2>1, P!LeastNumber, BudgetAssumptions
<1>3. CASE m = 0
  <2>1. Len(SubSeq(s, 1, 0)) = 0
    OBVIOUS
  <2>2. IsReplay([n \in 0 .. 0 |-> {InitBudget}], d, SubSeq(s, 1, 0))
    BY <2>1 DEF IsReplay
  <2> QED
    BY <1>2, <1>3, <2>2
<1>4. CASE m # 0
  <2> DEFINE u == SubSeq(s, 1, m - 1)
             t == SubSeq(s, 1, m)
  <2>1. m - 1 \in 0 .. Len(s) /\ m - 1 \notin T /\ m \in 1 .. Len(s)
    BY <1>2, <1>4
  <2>2. PICK f : IsReplay(f, d, u)
    BY <2>1
  <2>3. /\ Len(u) = m - 1 /\ Len(t) = m
        /\ \A n \in 1 .. (m - 1) : u[n] = t[n]
    BY <2>1
  <2> DEFINE g == [n \in 0 .. m |-> IF n = m THEN Moved(d, f[m - 1], t[m])
                                    ELSE f[n]]
  <2> HIDE DEF u, t
  <2>4. \A n \in 0 .. (m - 1) :
           f[n] = IF n = 0 THEN {InitBudget} ELSE Moved(d, f[n - 1], u[n])
    BY <2>2, <2>3 DEF IsReplay
  <2>5. \A n \in 0 .. m :
           g[n] = IF n = 0 THEN {InitBudget} ELSE Moved(d, g[n - 1], t[n])
    <3> SUFFICES ASSUME NEW n \in 0 .. m
                 PROVE  g[n] = IF n = 0 THEN {InitBudget}
                               ELSE Moved(d, g[n - 1], t[n])
      OBVIOUS
    <3>1. CASE n = m
      <4>1. n # 0 /\ n - 1 \in 0 .. m /\ n - 1 # m
        BY <2>1, <3>1
      <4> QED
        BY <3>1, <4>1
    <3>2. CASE n = 0
      BY <2>1, <2>4, <3>2
    <3>3. CASE n # m /\ n # 0
      <4>1. n \in 1 .. (m - 1) /\ n - 1 \in 0 .. (m - 1) /\ n - 1 # m
        BY <2>1, <3>3
      <4>2. u[n] = t[n]
        BY <2>3, <4>1
      <4>3. f[n] = Moved(d, f[n - 1], u[n])
        BY <2>4, <4>1
      <4> QED
        BY <4>1, <4>2, <4>3
    <3> QED
      BY <3>1, <3>2, <3>3
  <2>6. g = [n \in 0 .. m |->
               IF n = 0 THEN {InitBudget} ELSE Moved(d, g[n - 1], t[n])]
    BY <2>5
  <2>7. IsReplay(g, d, t)
    <3> HIDE DEF g
    <3> QED
      BY <2>3, <2>6 DEF IsReplay
  <2> QED
    BY <1>2, <2>7 DEF t
<1> QED
  BY <1>3, <1>4

\* The recursive definition of Replay means what it says.
LEMMA ReplayIsReplay ==
  ASSUME NEW d, NEW S, NEW s \in Seq(S)
  PROVE  \E f : IsReplay(f, d, s) /\ Replay(d, s) = f[Len(s)]
<1> DEFINE f == CHOOSE f : IsReplay(f, d, s)
<1>1. IsReplay(f, d, s)
  BY ReplayExists
<1>2. Replay(d, s) = f[Len(s)]
  BY DEF Replay, IsReplay, Moved
<1> QED
  BY <1>1, <1>2

\* An empty journal replays to the fresh budget.
LEMMA ReplayEmpty ==
  ASSUME NEW d
  PROVE  Replay(d, <<>>) = {InitBudget}
<1>1. <<>> \in Seq(Nat) /\ Len(<<>>) = 0
  OBVIOUS
<1>2. PICK f : IsReplay(f, d, <<>>) /\ Replay(d, <<>>) = f[0]
  BY <1>1, ReplayIsReplay
<1> QED
  BY <1>1, <1>2 DEF IsReplay

\* One more row moves the budgets the rows before it lead to.
LEMMA ReplayAppend ==
  ASSUME NEW d, NEW S, NEW s \in Seq(S), NEW r \in S
  PROVE  Replay(d, Append(s, r)) = Moved(d, Replay(d, s), r)
<1> DEFINE t == Append(s, r)
<1>1. /\ t \in Seq(S) /\ Len(t) = Len(s) + 1 /\ Len(s) \in Nat
      /\ t[Len(t)] = r /\ \A n \in 1 .. Len(s) : s[n] = t[n]
  OBVIOUS
<1> HIDE DEF t
<1>2. PICK f : IsReplay(f, d, s) /\ Replay(d, s) = f[Len(s)]
  BY ReplayIsReplay
<1>3. PICK g : IsReplay(g, d, t) /\ Replay(d, t) = g[Len(t)]
  BY <1>1, ReplayIsReplay
<1>4. f[Len(s)] = g[Len(s)]
  BY <1>1, <1>2, <1>3, ReplaysAgree
<1>5. g[Len(t)] = Moved(d, g[Len(t) - 1], t[Len(t)])
  <2>1. \A n \in 0 .. Len(t) :
           g[n] = IF n = 0 THEN {InitBudget} ELSE Moved(d, g[n - 1], t[n])
    BY <1>3 DEF IsReplay
  <2>2. Len(t) \in 0 .. Len(t) /\ Len(t) # 0
    BY <1>1
  <2> QED
    BY <2>1, <2>2, Zenon
<1> QED
  BY <1>1, <1>2, <1>3, <1>4, <1>5 DEF t

-----------------------------------------------------------------------------
Line == Row \cup {Stray, Overwritten}

JTyped ==
  /\ acked \in Nat
  /\ events \in Nat
  /\ interrupted \in BOOLEAN
  /\ poisoned \in BOOLEAN
  /\ writer \in {"open", "closed", "dead"}
  /\ pc \in {"idle", "check", "written", "synced", "adopted", "counted",
            "cleared"}
  /\ row \in Row \cup {NoRow}
  /\ disk \in Seq(Line)
  /\ synced \in Nat
  /\ torn \in BOOLEAN
  /\ file \in FileView

\* A call is under way in a process that lives.
CallIsAlive == pc # "idle" => writer = "open"

\* No call was begun after an interrupt that kept a row from the budget.  The
\* journal does not see to this, but its caller may: TaskBridge does.
Steady == interrupted => pc = "idle"

\* The row of the call under way is in the file.
RowIsStored == pc \in {"written", "synced", "adopted", "counted", "cleared"}

\* Where the file may stand relative to what was committed, at every point of
\* an append, and after a failure, an interrupt or a crash at any of them.
FileKeepsUp ==
  /\ acked <= synced /\ synced <= Len(disk)
  /\ pc = "check" \/ (pc = "idle" /\ Acknowledged /\ ~interrupted) =>
        /\ events = acked
        /\ file # "foreign" => Len(disk) = acked /\ ~torn
  /\ RowIsStored =>
        /\ Len(disk) >= acked + 1
        /\ disk[acked + 1] \in {row, Overwritten}
        /\ file # "foreign" => Len(disk) = acked + 1 /\ ~torn
  /\ pc \in {"synced", "adopted", "counted", "cleared"} => synced >= acked + 1
  /\ pc \in {"written", "synced", "adopted"} => events = acked
  /\ pc \in {"counted", "cleared"} => events = acked + 1

AckedRows == SubSeq(disk, 1, acked)

\* The committed lines of the file are the writer's rows, but for those that
\* somebody overwrote.
AckedLines == \A n \in 1 .. acked : disk[n] \in Row \cup {Overwritten}

\* Nobody did.
Untouched == \A n \in 1 .. acked : disk[n] # Overwritten

AckedReplays == Untouched => Replay(decl, AckedRows) = {bud}

DiskInv ==
  /\ JTyped /\ CallIsAlive /\ Steady
  /\ FileKeepsUp /\ AckedLines /\ AckedReplays

\* What rows a call may carry are rows of the journal.
LEMMA OfferedIsRow == RowOffered => row \in Row
<1>1. ElapsedChoice \subseteq Elapsed
  BY JournalAssumption
<1> SUFFICES ASSUME RowOffered PROVE row \in Row
  OBVIOUS
<1>2. CASE row \in [kind : {"DEBIT"}, uid : Uid, slot : Nat]
  BY <1>2 DEF Row
<1>3. CASE row \in [kind : {"DENIED"}, uid : Uid]
  BY <1>3 DEF Row
<1>4. CASE row \in [kind : {"SETTLE"}, slot : Nat, status : Status,
                    elapsed : ElapsedChoice, clean : BOOLEAN]
  <2>1. row \in [kind : {"SETTLE"}, slot : Nat, status : Status,
                 elapsed : Elapsed, clean : BOOLEAN]
    BY <1>1, <1>4
  <2> QED
    BY <2>1 DEF Row
<1> QED
  BY <1>2, <1>3, <1>4 DEF RowOffered

\* A created journal has its header and nothing else, all of it on disk.
LEMMA InitDisk == Init => DiskInv
<1> SUFFICES ASSUME Init PROVE DiskInv
  OBVIOUS
<1>1. /\ disk = <<>> /\ Len(disk) = 0 /\ acked = 0 /\ synced = 0
      /\ pc = "idle" /\ torn = FALSE /\ bud = InitBudget /\ events = 0
      /\ interrupted = FALSE
  BY DEF Init
<1>2. JTyped /\ CallIsAlive
  <2>1. disk \in Seq(Line) /\ row \in Row \cup {NoRow}
    BY <1>1 DEF Init
  <2>2. poisoned \in BOOLEAN /\ torn \in BOOLEAN /\ writer = "open"
        /\ file = "own"
    BY DEF Init
  <2> QED
    BY <1>1, <2>1, <2>2 DEF JTyped, CallIsAlive, FileView
<1>3. FileKeepsUp /\ Steady /\ AckedLines
  BY <1>1 DEF FileKeepsUp, RowIsStored, Steady, AckedLines
<1>4. AckedRows = <<>>
  BY <1>1 DEF AckedRows
<1> QED
  BY <1>1, <1>2, <1>3, <1>4, ReplayEmpty DEF DiskInv, AckedReplays

\* Whatever anybody does to the file leaves lines in it.
LEMMA LinesStayLines ==
  ASSUME JInv, JTyped, [Next]_vars
  PROVE  disk' \in Seq(Line)
<1>1. disk \in Seq(Line)
  BY DEF JTyped
<1>2. CASE Write
  <2>1. row \in Row /\ disk' = Append(disk, row)
    BY <1>2, OfferedIsRow DEF Write, JInv, RowStillAccepted
  <2> QED
    BY <1>1, <2>1 DEF Line
<1>3. CASE Interfere
  <2>1. Stray \in Line /\ Overwritten \in Line
    BY DEF Line
  <2>2. \/ disk' = disk
        \/ \E n \in 1 .. Len(disk) : disk' = [disk EXCEPT ![n] = Overwritten]
        \/ disk' = Append(disk, Stray)
    BY <1>3 DEF Interfere
  <2> QED
    BY <1>1, <2>1, <2>2
<1>4. CASE PowerLoss
  <2>1. PICK n \in synced .. Len(disk) : disk' = SubSeq(disk, 1, n)
    BY <1>4 DEF PowerLoss
  <2> QED
    BY <1>1, <2>1 DEF JTyped
<1>5. CASE ~Write /\ ~Interfere /\ ~PowerLoss
  <2>1. disk' = disk
    BY <1>5 DEF Next, vars, store, BeginReserve, BeginSettle, Begin, Refuse,
         WriteFails, Fsync, FsyncFails, Adopt, Count, AdoptFails, Recheck,
         RecheckFails, Commit, Interrupt, Raise, Reentrant, Snapshot, Close,
         Crash
  <2> QED
    BY <1>1, <2>1
<1> QED
  BY <1>2, <1>3, <1>4, <1>5

\* The journal's own variables keep their types, whatever is interrupted.
LEMMA JTypedStep ==
  ASSUME JInv, JInv', JTyped, CallIsAlive, [Next]_vars
  PROVE  JTyped' /\ CallIsAlive'
<1>1. disk' \in Seq(Line)
  BY LinesStayLines
<1>2. row' \in Row \cup {NoRow}
  <2>1. RowOffered' => (row \in Row)'
    BY OfferedIsRow, PTL
  <2>2. pc' = "idle" => row' = NoRow \/ row' = row
    BY DEF Next, vars, BeginReserve, BeginSettle, Begin, Refuse, Write,
         WriteFails, Fsync, FsyncFails, Adopt, Count, AdoptFails, Recheck,
         RecheckFails, Commit, Interrupt, Raise, Reentrant, Snapshot, Close,
         Interfere, Crash, PowerLoss
  <2> QED
    BY <2>1, <2>2 DEF JInv, RowStillAccepted, JTyped
<1> DEFINE Kept == /\ acked' \in Nat /\ events' \in Nat
                   /\ interrupted' \in BOOLEAN /\ poisoned' \in BOOLEAN
                   /\ writer' \in {"open", "closed", "dead"}
                   /\ pc' \in {"idle", "check", "written", "synced",
                               "adopted", "counted", "cleared"}
                   /\ synced' \in Nat /\ torn' \in BOOLEAN
                   /\ file' \in FileView
                   /\ CallIsAlive'
<1>3. ASSUME NEW uid \in Uid, BeginReserve(uid) PROVE Kept
  BY <1>3 DEF BeginReserve, Begin, ram, store, JTyped, CallIsAlive
<1>4. ASSUME NEW status \in Status, NEW elapsed \in ElapsedChoice,
             NEW clean \in BOOLEAN, BeginSettle(status, elapsed, clean)
      PROVE  Kept
  BY <1>4 DEF BeginSettle, Begin, ram, store, JTyped, CallIsAlive
<1>5. ASSUME Refuse \/ WriteFails \/ FsyncFails \/ AdoptFails \/ RecheckFails
      PROVE  Kept
  BY <1>5 DEF Refuse, WriteFails, FsyncFails, AdoptFails, RecheckFails, Raise,
              ram, store, JTyped, CallIsAlive
<1>6. ASSUME Write \/ Fsync \/ Adopt \/ Count \/ Recheck PROVE Kept
  BY <1>6 DEF Write, Fsync, Adopt, Count, Recheck, ram, store, JTyped,
              CallIsAlive, FileView
<1>7. ASSUME Reentrant \/ Snapshot PROVE Kept
  BY <1>7 DEF Reentrant, Snapshot, ram, store, JTyped, CallIsAlive
<1>8. ASSUME Interfere PROVE Kept
  BY <1>8 DEF Interfere, ram, JTyped, CallIsAlive, FileView
<1>9. ASSUME Crash \/ PowerLoss PROVE Kept
  BY <1>9 DEF Crash, PowerLoss, ram, JTyped, CallIsAlive
<1>10. ASSUME UNCHANGED vars PROVE Kept
  BY <1>10 DEF vars, ram, store, JTyped, CallIsAlive
<1>11. ASSUME Interrupt PROVE Kept
  <2>1. interrupted' \in BOOLEAN
    BY <1>11, Zenon DEF Interrupt
  <2> QED
    BY <1>11, <2>1 DEF Interrupt, store, JTyped, CallIsAlive
<1>12. ASSUME Close PROVE Kept
  <2>1. poisoned' \in BOOLEAN
    BY <1>12, Zenon DEF Close, JTyped
  <2> QED
    BY <1>12, <2>1 DEF Close, ram, store, JTyped, CallIsAlive
<1>13. ASSUME Commit PROVE Kept
  <2>1. /\ acked' = acked + 1 /\ pc' = "idle"
        /\ UNCHANGED <<events, interrupted, poisoned, writer, synced, torn,
                       file>>
    BY <1>13 DEF Commit, store
  <2> QED
    BY <2>1 DEF JTyped, CallIsAlive
<1>14. Kept
  <2> HIDE DEF Kept
  <2> QED
    BY <1>3, <1>4, <1>5, <1>6, <1>7, <1>8, <1>9, <1>10, <1>11,
       <1>12, <1>13 DEF Next
<1> QED
  BY <1>1, <1>2, <1>14 DEF JTyped

\* A step that leaves the committed rows and their budget alone leaves alone
\* what is known of them.
LEMMA AckedUndisturbed ==
  ASSUME DiskInv, UNCHANGED <<decl, bud, acked>>,
         disk' \in Seq(Line), acked <= Len(disk'),
         \A n \in 1 .. acked : disk'[n] \in {disk[n], Overwritten}
  PROVE  AckedLines' /\ AckedReplays'
<1>1. /\ acked \in Nat /\ disk \in Seq(Line) /\ acked <= Len(disk)
      /\ synced \in Nat /\ AckedLines
  BY DEF DiskInv, JTyped, FileKeepsUp
<1>2. AckedLines'
  BY <1>1 DEF AckedLines
<1>3. ASSUME Untouched' PROVE Replay(decl', AckedRows') = {bud'}
  <2>1. \A n \in 1 .. acked : disk'[n] = disk[n] /\ disk[n] # Overwritten
    BY <1>3 DEF Untouched
  <2>2. SubSeq(disk', 1, acked) = SubSeq(disk, 1, acked)
    BY <1>1, <2>1
  <2>3. Untouched
    BY <2>1 DEF Untouched
  <2> QED
    BY <2>2, <2>3 DEF DiskInv, AckedReplays, AckedRows
<1> QED
  BY <1>2, <1>3 DEF AckedReplays

\* How a step of the journal, of its environment or of its failures moves the
\* file: an append of the call's row, a change by others, a loss of power.
LEMMA FileMoves ==
  ASSUME [Next]_vars
  PROVE  \/ disk' = disk
         \/ Write /\ disk' = Append(disk, row)
         \/ Interfere /\ disk' = Append(disk, Stray)
         \/ Interfere /\ \E n \in 1 .. Len(disk) :
                            disk' = [disk EXCEPT ![n] = Overwritten]
         \/ PowerLoss /\ \E n \in synced .. Len(disk) :
                            disk' = SubSeq(disk, 1, n)
<1>1. CASE Write
  BY <1>1 DEF Write
<1>2. CASE Interfere
  BY <1>2 DEF Interfere
<1>3. CASE PowerLoss
  <2>1. \E n \in synced .. Len(disk) : disk' = SubSeq(disk, 1, n)
    BY <1>3 DEF PowerLoss
  <2> QED
    BY <1>3, <2>1
<1>4. CASE ~Write /\ ~Interfere /\ ~PowerLoss
  <2>1. disk' = disk
    BY <1>4 DEF Next, vars, store, BeginReserve, BeginSettle, Begin, Refuse,
         WriteFails, Fsync, FsyncFails, Adopt, Count, AdoptFails, Recheck,
         RecheckFails, Commit, Interrupt, Raise, Reentrant, Snapshot, Close,
         Crash
  <2> QED
    BY <2>1
<1> QED
  BY <1>1, <1>2, <1>3, <1>4

\* So that the committed lines stay where they are, or are overwritten.
LEMMA AckedStay ==
  ASSUME JInv, DiskInv, [Next]_vars
  PROVE  /\ disk' \in Seq(Line) /\ acked <= Len(disk')
         /\ \A n \in 1 .. acked : disk'[n] \in {disk[n], Overwritten}
         /\ ~Interfere => \A n \in 1 .. acked : disk'[n] = disk[n]
<1>1. /\ acked \in Nat /\ disk \in Seq(Line) /\ synced \in Nat
      /\ acked <= synced /\ synced <= Len(disk) /\ JTyped
  BY DEF DiskInv, JTyped, FileKeepsUp
<1>2. disk' \in Seq(Line)
  BY <1>1, LinesStayLines
<1>3. CASE disk' = disk
  BY <1>1, <1>3
<1>4. ASSUME NEW r \in Line, disk' = Append(disk, r)
      PROVE  acked <= Len(disk') /\ \A n \in 1 .. acked : disk'[n] = disk[n]
  BY <1>1, <1>4
<1>5. ASSUME NEW n \in 1 .. Len(disk), disk' = [disk EXCEPT ![n] = Overwritten]
      PROVE  /\ acked <= Len(disk')
             /\ \A k \in 1 .. acked : disk'[k] \in {disk[k], Overwritten}
  BY <1>1, <1>5
<1>6. ASSUME NEW n \in synced .. Len(disk), disk' = SubSeq(disk, 1, n)
      PROVE  acked <= Len(disk') /\ \A k \in 1 .. acked : disk'[k] = disk[k]
  BY <1>1, <1>6
<1>7. Stray \in Line
  BY DEF Line
<1>8. Write => row \in Line
  BY OfferedIsRow DEF Write, JInv, RowStillAccepted, Line
<1> QED
  BY <1>2, <1>3, <1>4, <1>5, <1>6, <1>7, <1>8, FileMoves

\* The row goes behind the committed ones.
LEMMA WriteKeepsUp ==
  ASSUME DiskInv, JInv, Write
  PROVE  FileKeepsUp'
<1>1. /\ pc = "check" /\ pc' = "written" /\ disk' = Append(disk, row)
      /\ file = "own" /\ acked' = acked /\ events' = events /\ row' = row
      /\ synced' = synced /\ torn' = torn /\ file' = file
  BY DEF Write, ram
<1>2. row \in Line
  BY <1>1, OfferedIsRow DEF JInv, RowStillAccepted, Line
<1>3. /\ acked \in Nat /\ disk \in Seq(Line) /\ Len(disk) = acked
      /\ acked <= synced /\ synced <= Len(disk) /\ synced \in Nat /\ ~torn
      /\ events = acked
  BY <1>1 DEF DiskInv, JTyped, FileKeepsUp
<1>4. Len(disk') = acked + 1 /\ disk'[acked + 1] = row
  BY <1>1, <1>2, <1>3
<1> QED
  BY <1>1, <1>3, <1>4 DEF FileKeepsUp, RowIsStored

\* A change by others leaves the lines of the writer where they are.
LEMMA InterfereKeepsUp ==
  ASSUME DiskInv, Interfere
  PROVE  FileKeepsUp'
<1>1. /\ pc' = pc /\ acked' = acked /\ events' = events /\ row' = row
      /\ interrupted' = interrupted /\ poisoned' = poisoned
      /\ writer' = writer /\ synced' = synced /\ file # "foreign"
  BY DEF Interfere, ram
<1>2. /\ acked \in Nat /\ disk \in Seq(Line) /\ synced \in Nat
      /\ acked <= synced /\ synced <= Len(disk) /\ Len(disk) \in Nat
  BY DEF DiskInv, JTyped, FileKeepsUp
<1>3. CASE disk' = disk /\ (file' # "foreign" => torn' = torn)
  BY <1>1, <1>2, <1>3 DEF DiskInv, FileKeepsUp, RowIsStored, Acknowledged
<1>4. ASSUME NEW n \in 1 .. Len(disk), torn' = torn,
             disk' = [disk EXCEPT ![n] = Overwritten]
      PROVE  FileKeepsUp'
  <2>1. /\ Len(disk') = Len(disk)
        /\ Len(disk) >= acked + 1 =>
              disk'[acked + 1] \in {disk[acked + 1], Overwritten}
    BY <1>2, <1>4
  <2> QED
    BY <1>1, <1>2, <1>4, <2>1
       DEF DiskInv, FileKeepsUp, RowIsStored, Acknowledged
<1>5. CASE disk' = Append(disk, Stray) /\ file' = "foreign"
  <2>1. /\ Len(disk') = Len(disk) + 1
        /\ Len(disk) >= acked + 1 => disk'[acked + 1] = disk[acked + 1]
    BY <1>2, <1>5
  <2> QED
    BY <1>1, <1>2, <1>5, <2>1
       DEF DiskInv, FileKeepsUp, RowIsStored, Acknowledged
<1> QED
  BY <1>3, <1>4, <1>5 DEF Interfere

\* A loss of power takes no row that a completed fsync covers, and the
\* committed rows are among those.
LEMMA PowerLossKeepsUp ==
  ASSUME DiskInv, PowerLoss
  PROVE  FileKeepsUp'
<1>1. /\ writer' = "dead" /\ pc' = "idle" /\ acked' = acked
      /\ synced' = synced
  BY DEF PowerLoss, ram
<1>2. PICK n \in synced .. Len(disk) : disk' = SubSeq(disk, 1, n)
  BY DEF PowerLoss
<1>3. /\ acked \in Nat /\ synced \in Nat /\ disk \in Seq(Line)
      /\ acked <= synced /\ synced <= Len(disk)
  BY DEF DiskInv, JTyped, FileKeepsUp
<1>4. Len(disk') = n
  BY <1>2, <1>3
<1> QED
  BY <1>1, <1>2, <1>3, <1>4 DEF FileKeepsUp, RowIsStored, Acknowledged

\* The committed row is on stable storage before it is committed.
LEMMA CommitKeepsUp ==
  ASSUME DiskInv, Commit
  PROVE  FileKeepsUp'
<1>1. /\ pc = "cleared" /\ pc' = "idle" /\ acked' = acked + 1
      /\ events' = events /\ disk' = disk /\ synced' = synced
      /\ torn' = torn /\ file' = file
  BY DEF Commit, store
<1>2. /\ acked \in Nat /\ synced \in Nat /\ disk \in Seq(Line)
      /\ synced >= acked + 1 /\ synced <= Len(disk) /\ Len(disk) \in Nat
      /\ events = acked + 1
      /\ file # "foreign" => Len(disk) = acked + 1 /\ ~torn
  BY <1>1 DEF DiskInv, JTyped, FileKeepsUp, RowIsStored
<1> QED
  BY <1>1, <1>2 DEF FileKeepsUp, RowIsStored

\* At every step of a call, and wherever it ends, the file is where it is said
\* to be.
LEMMA KeepsUp ==
  ASSUME DiskInv, JInv, Steady', [Next]_vars
  PROVE  FileKeepsUp'
<1>1. CASE Write
  BY <1>1, WriteKeepsUp
<1>2. CASE Interfere
  BY <1>2, InterfereKeepsUp
<1>3. CASE PowerLoss
  BY <1>3, PowerLossKeepsUp
<1>4. CASE Commit
  BY <1>4, CommitKeepsUp
<1>5. ASSUME NEW r, Begin(r) PROVE FileKeepsUp'
  <2>1. ~interrupted
    BY <1>5 DEF Begin, ram, Steady
  <2> QED
    BY <1>5, <2>1 DEF Begin, ram, store, DiskInv, FileKeepsUp, RowIsStored,
                      Acknowledged
<1>6. CASE Fsync
  BY <1>6 DEF Fsync, ram, DiskInv, JTyped, FileKeepsUp, RowIsStored
<1>7. CASE Refuse \/ FsyncFails \/ AdoptFails \/ RecheckFails
  BY <1>7 DEF Refuse, FsyncFails, AdoptFails, RecheckFails, Raise, ram, store,
              DiskInv, FileKeepsUp, RowIsStored, Acknowledged
<1>8. CASE WriteFails
  BY <1>8 DEF WriteFails, Raise, ram, DiskInv, FileKeepsUp, RowIsStored,
              Acknowledged
<1>9. CASE Adopt
  BY <1>9 DEF Adopt, ram, store, DiskInv, FileKeepsUp, RowIsStored
<1>10. CASE Count
  BY <1>10 DEF Count, store, DiskInv, FileKeepsUp, RowIsStored
<1>11. CASE Recheck
  BY <1>11 DEF Recheck, ram, store, DiskInv, FileKeepsUp, RowIsStored
<1>12. CASE Interrupt
  BY <1>12 DEF Interrupt, store, DiskInv, JTyped, FileKeepsUp, RowIsStored,
               Acknowledged
<1>13. CASE Reentrant
  BY <1>13 DEF Reentrant, ram, store, DiskInv, FileKeepsUp, RowIsStored
<1>14. CASE Snapshot \/ Close
  BY <1>14 DEF Snapshot, Close, ram, store, DiskInv, FileKeepsUp, RowIsStored,
               Acknowledged
<1>15. CASE Crash
  BY <1>15 DEF Crash, ram, DiskInv, FileKeepsUp, RowIsStored, Acknowledged
<1>16. CASE UNCHANGED vars
  BY <1>16 DEF vars, ram, store, DiskInv, FileKeepsUp, RowIsStored,
               Acknowledged
<1> QED
  BY <1>1, <1>2, <1>3, <1>4, <1>5, <1>6, <1>7, <1>8, <1>9, <1>10, <1>11,
     <1>12, <1>13, <1>14, <1>15, <1>16
     DEF Next, BeginReserve, BeginSettle

\* A commit adds its row to the committed ones, unless somebody has overwritten
\* it meanwhile.
LEMMA CommitTakesRow ==
  ASSUME DiskInv, JInv, Commit
  PROVE  /\ acked' = acked + 1 /\ disk' = disk /\ row \in Row
         /\ disk[acked + 1] \in {row, Overwritten}
         /\ AckedLines'
         /\ Untouched' => /\ Untouched /\ disk[acked + 1] = row
                          /\ AckedRows \in Seq(Row)
                          /\ AckedRows' = Append(AckedRows, row)
<1>1. /\ pc = "cleared" /\ acked' = acked + 1 /\ disk' = disk
      /\ acked \in Nat /\ disk \in Seq(Line) /\ Len(disk) >= acked + 1
      /\ disk[acked + 1] \in {row, Overwritten} /\ AckedLines
  BY DEF Commit, store, DiskInv, JTyped, FileKeepsUp, RowIsStored
<1>2. row \in Row
  BY <1>1, OfferedIsRow DEF JInv, RowStillAccepted
<1>3. AckedLines'
  BY <1>1, <1>2 DEF AckedLines
<1>4. ASSUME Untouched'
      PROVE  /\ Untouched /\ disk[acked + 1] = row
             /\ AckedRows \in Seq(Row)
             /\ AckedRows' = Append(AckedRows, row)
  <2>1. Untouched /\ disk[acked + 1] = row
    BY <1>1, <1>4 DEF Untouched
  <2>2. \A n \in 1 .. acked : disk[n] \in Row
    BY <1>1, <2>1 DEF Untouched, AckedLines
  <2>3. SubSeq(disk, 1, acked) \in Seq(Row)
    BY <1>1, <2>2
  <2>4. SubSeq(disk, 1, acked + 1) = Append(SubSeq(disk, 1, acked), row)
    BY <1>1, <2>1
  <2> QED
    BY <1>1, <2>1, <2>3, <2>4 DEF AckedRows
<1> QED
  BY <1>1, <1>2, <1>3, <1>4

\* The budget the committed row leads to is the one the writer moves to.
LEMMA CommitReplays ==
  ASSUME DiskInv, JInv, Commit
  PROVE  AckedReplays'
<1> SUFFICES ASSUME Untouched' PROVE Replay(decl', AckedRows') = {bud'}
  BY DEF AckedReplays
<1>1. /\ decl' = decl /\ bud' = After(decl, bud, row) /\ pc = "cleared"
      /\ Accepts(decl, bud, row)
  BY DEF Commit, JInv, RowStillAccepted
<1>2. /\ Untouched /\ row \in Row /\ AckedRows \in Seq(Row)
      /\ AckedRows' = Append(AckedRows, row)
  BY CommitTakesRow
<1>3. Replay(decl, AckedRows) = {bud}
  BY <1>2 DEF DiskInv, AckedReplays
<1>4. Moved(decl, {bud}, row) = {bud'}
  BY <1>1 DEF Moved
<1>5. Replay(decl, Append(AckedRows, row))
         = Moved(decl, Replay(decl, AckedRows), row)
  BY <1>2, ReplayAppend
<1> QED
  BY <1>1, <1>2, <1>3, <1>4, <1>5

\* Every step of the journal, of its environment and of its failures keeps
\* the file up with the writer, as long as no call begins behind a row that an
\* interrupt kept from the budget.
LEMMA NextDisk ==
  ASSUME DiskInv, JInv, JInv', Steady', [Next]_vars
  PROVE  DiskInv'
<1>1. JTyped' /\ CallIsAlive'
  BY JTypedStep DEF DiskInv
<1>2. FileKeepsUp'
  BY KeepsUp
<1>3. CASE Commit
  BY <1>1, <1>2, <1>3, CommitTakesRow, CommitReplays DEF DiskInv
<1>4. CASE ~Commit
  <2>1. UNCHANGED <<decl, bud, acked>>
    BY <1>4, OnlyCommitMoves
  <2>2. AckedLines' /\ AckedReplays'
    BY <2>1, AckedStay, AckedUndisturbed
  <2> QED
    BY <1>1, <1>2, <2>2 DEF DiskInv
<1> QED
  BY <1>3, <1>4

\* Every slot the budget has debited has its own row among the committed.
DebitsStored ==
  Untouched =>
    \A i \in 1 .. bud.index : \E n \in 1 .. acked :
       disk[n] = [kind |-> "DEBIT", uid |-> decl.plan[i].uid, slot |-> i]

\* The index of the budget moves by a committed debit only, whose row is then
\* the last of the committed.
LEMMA CommitDebits ==
  ASSUME JInv, P!Inv, DiskInv, DebitsStored, Commit
  PROVE  DebitsStored'
<1> SUFFICES ASSUME Untouched'
             PROVE  \A i \in 1 .. bud'.index : \E n \in 1 .. acked' :
                       disk'[n] = [kind |-> "DEBIT",
                                   uid |-> decl'.plan[i].uid, slot |-> i]
  BY DEF DebitsStored
<1>1. /\ RowOffered /\ Accepts(decl, bud, row)
      /\ decl' = decl /\ bud' = After(decl, bud, row)
      /\ acked' = acked + 1 /\ disk' = disk
  BY DEF JInv, RowStillAccepted, Commit, store
<1>2. /\ acked \in Nat /\ disk[acked + 1] = row /\ bud.index \in Nat
      /\ Untouched
  BY CommitTakesRow DEF DiskInv, JTyped, P!Inv, P!TypeOK, P!Budget
<1>3. ASSUME NEW i \in 1 .. bud.index
      PROVE  \E n \in 1 .. acked + 1 :
                disk[n] = [kind |-> "DEBIT", uid |-> decl.plan[i].uid,
                           slot |-> i]
  <2>1. PICK n \in 1 .. acked :
           disk[n] = [kind |-> "DEBIT", uid |-> decl.plan[i].uid, slot |-> i]
    BY <1>2 DEF DebitsStored
  <2> QED
    BY <1>2, <2>1
<1>4. CASE row.kind # "DEBIT"
  <2>1. bud'.index = bud.index
    <3>1. bud' = Deny(bud) \/ \E s, e, c : bud' = Settlement(decl, bud, s, e, c)
      BY <1>1, <1>4 DEF After, Accepts
    <3> QED
      BY <3>1 DEF Deny, Settlement, P!Inv, P!TypeOK, P!Budget
  <2> QED
    BY <1>1, <1>3, <2>1
<1>5. CASE row.kind = "DEBIT"
  <2>1. /\ bud' = Debit(decl, bud)
        /\ row = DebitRow(decl, bud, row.uid)
        /\ row.uid = decl.plan[bud.index + 1].uid
    BY <1>1, <1>5 DEF After, Accepts, Reservable, NextNode
  <2>2. bud'.index = bud.index + 1
    BY <2>1 DEF Debit, P!Inv, P!TypeOK, P!Budget
  <2>3. row = [kind |-> "DEBIT", uid |-> decl.plan[bud.index + 1].uid,
               slot |-> bud.index + 1]
    BY <2>1 DEF DebitRow
  <2>4. ASSUME NEW i \in 1 .. bud.index + 1
        PROVE  \E n \in 1 .. acked + 1 :
                  disk[n] = [kind |-> "DEBIT", uid |-> decl.plan[i].uid,
                             slot |-> i]
    <3>1. CASE i = bud.index + 1
      BY <1>2, <2>3, <3>1
    <3>2. CASE i \in 1 .. bud.index
      BY <1>3, <3>2
    <3> QED
      BY <1>2, <3>1, <3>2
  <2> QED
    BY <1>1, <2>2, <2>4
<1> QED
  BY <1>4, <1>5

\* The declaration is frozen, and a slot that was debited stays debited.
LEMMA IndexGrows ==
  ASSUME JInv, P!Inv, [Next]_vars
  PROVE  decl' = decl /\ bud.index <= bud'.index
<1>1. bud.index \in Nat
  BY DEF P!Inv, P!TypeOK, P!Budget
<1>2. CASE Commit
  <2>1. decl' = decl /\ bud' = After(decl, bud, row)
        /\ Accepts(decl, bud, row)
    BY <1>2 DEF Commit, JInv, RowStillAccepted
  <2>2. \/ bud' = Debit(decl, bud)
        \/ bud' = Deny(bud)
        \/ \E s, e, c : bud' = Settlement(decl, bud, s, e, c)
    BY <2>1 DEF After, Accepts
  <2>3. bud'.index \in {bud.index, bud.index + 1}
    BY <2>2 DEF Debit, Deny, Settlement, P!Inv, P!TypeOK, P!Budget
  <2> QED
    BY <1>1, <2>1, <2>3
<1>3. CASE ~Commit
  BY <1>1, <1>3, OnlyCommitMoves
<1> QED
  BY <1>2, <1>3

\* Behind the committed lines there is at most one row of the writer, that of
\* the call under way or of the call that ended last, and the budget still
\* accepts it; and one line of somebody else.
TailAccepted ==
  /\ file # "foreign" => Len(disk) <= acked + 1
  /\ Len(disk) <= acked + 2
  /\ Len(disk) >= acked + 1 =>
        \/ disk[acked + 1] \in {Stray, Overwritten}
        \/ Accepts(decl, bud, disk[acked + 1])
  /\ Len(disk) = acked + 2 => disk[acked + 2] \in {Stray, Overwritten}

LEMMA TailWrite ==
  ASSUME JInv, DiskInv, Write
  PROVE  TailAccepted'
<1>1. /\ pc = "check" /\ disk' = Append(disk, row) /\ file = "own"
      /\ UNCHANGED <<decl, bud, acked, file>>
  BY DEF Write, ram
<1>2. /\ Len(disk) = acked /\ Accepts(decl, bud, row) /\ disk \in Seq(Line)
      /\ acked \in Nat
  BY <1>1 DEF DiskInv, JTyped, FileKeepsUp, JInv, RowStillAccepted
<1>3. row \in Line
  BY <1>1, OfferedIsRow DEF JInv, RowStillAccepted, Line
<1>4. Len(disk') = acked + 1 /\ disk'[acked + 1] = row
  BY <1>1, <1>2, <1>3
<1> QED
  BY <1>1, <1>2, <1>4 DEF TailAccepted

LEMMA TailCommit ==
  ASSUME JInv, DiskInv, TailAccepted, Commit
  PROVE  TailAccepted'
<1>1. /\ pc = "cleared" /\ acked' = acked + 1 /\ disk' = disk /\ file' = file
      /\ acked \in Nat /\ disk \in Seq(Line) /\ Len(disk) >= acked + 1
      /\ Len(disk) \in Nat
  BY DEF Commit, store, DiskInv, JTyped, FileKeepsUp, RowIsStored
<1> QED
  BY <1>1 DEF TailAccepted

LEMMA TailInterfere ==
  ASSUME JInv, DiskInv, TailAccepted, Interfere
  PROVE  TailAccepted'
<1>1. /\ UNCHANGED <<decl, bud, acked>> /\ file # "foreign"
      /\ acked \in Nat /\ disk \in Seq(Line) /\ Len(disk) \in Nat
      /\ acked <= Len(disk)
  BY DEF Interfere, ram, DiskInv, JTyped, FileKeepsUp
<1>2. CASE disk' = disk
  BY <1>1, <1>2 DEF TailAccepted
<1>3. ASSUME NEW n \in 1 .. Len(disk), disk' = [disk EXCEPT ![n] = Overwritten]
      PROVE  TailAccepted'
  <2>1. /\ Len(disk') = Len(disk)
        /\ \A k \in 1 .. Len(disk) : disk'[k] \in {disk[k], Overwritten}
    BY <1>1, <1>3
  <2>2. /\ Len(disk) >= acked + 1 => acked + 1 \in 1 .. Len(disk)
        /\ Len(disk) <= acked + 1
    BY <1>1 DEF TailAccepted
  <2> QED
    BY <1>1, <2>1, <2>2 DEF TailAccepted
<1>4. CASE disk' = Append(disk, Stray) /\ file' = "foreign"
  <2>1. /\ Len(disk') = Len(disk) + 1 /\ disk'[Len(disk) + 1] = Stray
        /\ Len(disk) >= acked + 1 => disk'[acked + 1] = disk[acked + 1]
    BY <1>1, <1>4
  <2>2. Len(disk) \in {acked, acked + 1}
    BY <1>1 DEF TailAccepted
  <2> QED
    BY <1>1, <1>4, <2>1, <2>2 DEF TailAccepted
<1> QED
  BY <1>2, <1>3, <1>4 DEF Interfere

LEMMA TailStep ==
  ASSUME JInv, DiskInv, TailAccepted, [Next]_vars
  PROVE  TailAccepted'
<1>1. /\ disk \in Seq(Line) /\ acked \in Nat /\ synced \in Nat
      /\ acked <= synced /\ synced <= Len(disk)
  BY DEF DiskInv, JTyped, FileKeepsUp
<1>2. CASE Write
  BY <1>2, TailWrite
<1>3. CASE Commit
  BY <1>3, TailCommit
<1>4. CASE Interfere
  BY <1>4, TailInterfere
<1>5. CASE ~Write /\ ~Commit /\ ~Interfere
  <2>1. UNCHANGED <<decl, bud, acked>>
    BY <1>5, OnlyCommitMoves
  <2>2. disk' = disk \/ \E n \in synced .. Len(disk) : disk' = SubSeq(disk, 1, n)
    BY <1>5, FileMoves
  <2>3. file' = file \/ (file # "foreign" /\ file' = "own")
    BY <1>5 DEF Next, vars, BeginReserve, BeginSettle, Begin, Refuse,
         WriteFails, Fsync, FsyncFails, Adopt, Count, AdoptFails, Recheck,
         RecheckFails, Interrupt, Raise, Reentrant, Snapshot, Close, Crash,
         PowerLoss
  <2>4. /\ Len(disk') <= Len(disk) /\ Len(disk') \in Nat /\ Len(disk) \in Nat
        /\ \A k \in 1 .. Len(disk') : disk'[k] = disk[k]
    BY <1>1, <2>2
  <2>5. /\ Len(disk') >= acked + 1 => disk'[acked + 1] = disk[acked + 1]
        /\ Len(disk') = acked + 2 => disk'[acked + 2] = disk[acked + 2]
    BY <1>1, <2>4
  <2> QED
    BY <1>1, <2>1, <2>3, <2>4, <2>5 DEF TailAccepted
<1> QED
  BY <1>2, <1>3, <1>4, <1>5

\* All that is known of the budget journal while it is steady.
BudgetJournalInv == JInv /\ P!Inv /\ DiskInv /\ DebitsStored /\ TailAccepted

LEMMA BudgetJournalInit == Init => BudgetJournalInv
<1>1. Init => DebitsStored /\ TailAccepted
  BY DEF Init, InitBudget, DebitsStored, TailAccepted
<1> QED
  BY <1>1, JInit, RefinedInit, InitDisk DEF BudgetJournalInv

LEMMA BudgetJournalStep ==
  ASSUME BudgetJournalInv, Steady', [Next]_vars
  PROVE  BudgetJournalInv'
<1>1. JInv' /\ P!Inv'
  BY RefinedStep DEF BudgetJournalInv
<1>2. DiskInv' /\ TailAccepted'
  BY <1>1, NextDisk, TailStep DEF BudgetJournalInv
<1>3. CASE Commit
  BY <1>1, <1>2, <1>3, CommitDebits DEF BudgetJournalInv
<1>4. CASE ~Commit
  <2>1. UNCHANGED <<decl, bud, obs, acked>>
    BY <1>4, OnlyCommitMoves
  <2>2. \A n \in 1 .. acked : disk'[n] \in {disk[n], Overwritten}
    BY AckedStay DEF BudgetJournalInv
  <2>3. Untouched' => Untouched /\ \A n \in 1 .. acked : disk'[n] = disk[n]
    BY <2>1, <2>2 DEF Untouched
  <2>4. DebitsStored'
    BY <2>1, <2>3 DEF BudgetJournalInv, DebitsStored
  <2> QED
    BY <1>1, <1>2, <2>4 DEF BudgetJournalInv
<1> QED
  BY <1>3, <1>4

\* Whoever looks at the journal may poison it, and no more.
LEMMA BudgetJournalPoison ==
  ASSUME BudgetJournalInv, poisoned' \in BOOLEAN, poisoned => poisoned',
         UNCHANGED <<decl, bud, obs, acked, events, writer, pc, row, disk,
                     synced, torn, file, interrupted>>
  PROVE  BudgetJournalInv'
<1>1. JInv' /\ DebitsStored' /\ TailAccepted'
  BY DEF BudgetJournalInv, JInv, Frozen, RowStillAccepted, RowOffered,
         DebitsStored, TailAccepted, Untouched
<1>2. JTyped' /\ CallIsAlive' /\ Steady'
  BY DEF BudgetJournalInv, DiskInv, JTyped, CallIsAlive, Steady
<1>3. FileKeepsUp'
  BY DEF BudgetJournalInv, DiskInv, FileKeepsUp, RowIsStored, Acknowledged
<1>4. AckedLines' /\ AckedReplays'
  BY DEF BudgetJournalInv, DiskInv, AckedLines, AckedReplays, AckedRows,
         Untouched
<1>5. P!Inv'
  <2>1. [P!Next]_(P!vars)
    BY DEF P!vars
  <2> QED
    BY <2>1, P!NextInv, BudgetAssumptions DEF BudgetJournalInv
<1> QED
  BY <1>1, <1>2, <1>3, <1>4, <1>5 DEF BudgetJournalInv, DiskInv

\* By itself the journal is steady until an interrupt comes between a row and
\* its commit: nothing is promised of the file of a writer that goes on then.
FileInv == ~interrupted => BudgetJournalInv

LEMMA FileStep ==
  ASSUME JInv, P!Inv, JTyped, CallIsAlive, FileInv, [Next]_vars
  PROVE  JTyped' /\ CallIsAlive' /\ FileInv'
<1>1. JInv'
  BY RefinedStep
<1>2. JTyped' /\ CallIsAlive'
  BY <1>1, JTypedStep
<1>3. interrupted => interrupted'
  BY DEF Next, vars, ram, BeginReserve, BeginSettle, Begin, Refuse, Write,
         WriteFails, Fsync, FsyncFails, Adopt, Count, AdoptFails, Recheck,
         RecheckFails, Commit, Interrupt, Raise, Reentrant, Snapshot, Close,
         Interfere, Crash, PowerLoss
<1>4. ASSUME ~interrupted' PROVE BudgetJournalInv'
  <2>1. Steady'
    BY <1>4 DEF Steady
  <2> QED
    BY <1>3, <1>4, <2>1, BudgetJournalStep DEF FileInv
<1> QED
  BY <1>2, <1>4 DEF FileInv

\* What an accepted row tells: the next slot of the plan, the end of a plan that
\* is exhausted, or the settlement of the last slot debited; and that the plan
\* goes on after a success within its envelope only.
LEMMA AcceptTells ==
  ASSUME P!Inv, NEW r \in Row, Accepts(decl, bud, r)
  PROVE  LET after == After(decl, bud, r)
         IN  \/ /\ r.kind = "DEBIT"
                /\ r.uid = decl.plan[bud.index + 1].uid
                /\ bud.index < Len(decl.plan)
                /\ after.index = bud.index + 1
             \/ /\ r.kind = "DENIED"
                /\ after.index = bud.index
                /\ after.stopped # Running
             \/ /\ r.kind = "SETTLE"
                /\ r.slot = bud.index /\ r.slot = Len(obs) + 1
                /\ bud.stopped = Running
                /\ after.index = bud.index
                /\ after.stopped = Running =>
                      /\ r.status = "SUCCESS"
                      /\ r.elapsed \in Nat
                      /\ r.elapsed <= Envelope(decl.plan[r.slot])
<1>1. /\ bud.index \in Nat
      /\ Len(obs) = IF bud.active = NoSlot THEN bud.index ELSE bud.index - 1
      /\ bud.active \in {NoSlot, bud.index}
      /\ bud.active # NoSlot => bud.stopped = Running
  BY DEF P!Inv, P!TypeOK, P!Budget, P!SlotsInOrder, P!StoppedIsIdle, NoSlot,
         P!NoSlot, Running, P!Running, P!Plan
<1>2. CASE r.kind = "DEBIT"
  <2>1. /\ Reservable(decl, bud, r.uid) /\ After(decl, bud, r) = Debit(decl, bud)
    BY <1>2 DEF Accepts, After
  <2>2. /\ bud.index < Len(decl.plan) /\ r.uid = decl.plan[bud.index + 1].uid
    BY <2>1 DEF Reservable, NextNode
  <2>3. Debit(decl, bud).index = bud.index + 1
    BY DEF Debit, P!Inv, P!TypeOK, P!Budget
  <2> QED
    BY <1>2, <2>1, <2>2, <2>3
<1>3. CASE r.kind = "DENIED"
  <2>1. After(decl, bud, r) = Deny(bud)
    BY <1>3 DEF After
  <2>2. Deny(bud).index = bud.index /\ Deny(bud).stopped # Running
    BY DEF Deny, Running, Censored, P!Inv, P!TypeOK, P!Budget
  <2> QED
    BY <1>3, <2>1, <2>2
<1>4. CASE r.kind = "SETTLE"
  <2>1. /\ bud.active # NoSlot /\ r.slot = bud.active
        /\ After(decl, bud, r) = Settlement(decl, bud, r.status, r.elapsed,
                                            r.clean)
    BY <1>4 DEF Accepts, After
  <2>2. /\ r.slot = bud.index /\ r.slot = Len(obs) + 1
        /\ bud.stopped = Running
    BY <1>1, <2>1
  <2> DEFINE stop == StopAfter(decl, bud, r.status, r.elapsed, r.clean)
  <2>3. /\ After(decl, bud, r).index = bud.index
        /\ After(decl, bud, r).stopped = stop
    <3> HIDE DEF stop
    <3>1. After(decl, bud, r).index = bud.index
      BY <2>1 DEF Settlement, P!Inv, P!TypeOK, P!Budget
    <3>2. Settlement(decl, bud, r.status, r.elapsed, r.clean).stopped = stop
      BY DEF Settlement, stop, P!Inv, P!TypeOK, P!Budget
    <3> QED
      BY <2>1, <3>1, <3>2
  <2>4. r.elapsed \in Elapsed
    BY <1>4 DEF Row
  <2>5. ASSUME stop = Running
        PROVE  /\ r.status = "SUCCESS"
               /\ r.elapsed \in Nat
               /\ r.elapsed <= Envelope(decl.plan[r.slot])
    <3>1. /\ r.elapsed # Unmeasured /\ r.status = "SUCCESS"
          /\ ~(r.elapsed > Envelope(decl.plan[bud.active]))
      BY <2>5 DEF StopAfter, Opaque, Running, Unresolved, Overrun, Failed
    <3>2. r.elapsed \in Nat
      BY <2>4, <3>1 DEF Elapsed
    <3>3. Envelope(decl.plan[r.slot]) \in Nat
      <4>1. /\ decl.plan \in Seq(P!Node) /\ bud.index \in 0 .. Len(decl.plan)
        BY DEF P!Inv, P!TypeOK, P!Declaration, P!SlotsInOrder, P!Plan
      <4>2. r.slot \in 1 .. Len(decl.plan)
        BY <1>1, <2>1, <2>2, <4>1 DEF NoSlot
      <4>3. decl.plan[r.slot] \in P!Node
        BY <4>1, <4>2
      <4> QED
        BY <4>3 DEF P!Node, Envelope
    <3> QED
      BY <2>1, <3>1, <3>2, <3>3
  <2> HIDE DEF stop
  <2> QED
    BY <1>4, <2>2, <2>3, <2>5
<1> QED
  BY <1>2, <1>3, <1>4 DEF Accepts

\* A line of somebody else ends what a file replays to.
LEMMA ReplayRefuses ==
  ASSUME NEW d, NEW S, NEW s \in Seq(S), NEW k \in 1 .. Len(s),
         s[k] \in {Stray, Overwritten}
  PROVE  Replay(d, s) = {}
<1>1. PICK f : IsReplay(f, d, s) /\ Replay(d, s) = f[Len(s)]
  BY ReplayIsReplay
<1>2. \A n \in 0 .. Len(s) :
         f[n] = IF n = 0 THEN {InitBudget} ELSE Moved(d, f[n - 1], s[n])
  BY <1>1 DEF IsReplay
<1> DEFINE T == {n \in k .. Len(s) : f[n] # {}}
<1>3. SUFFICES ASSUME T # {} PROVE FALSE
  <2>1. Len(s) \in k .. Len(s)
    OBVIOUS
  <2> QED
    BY <1>1, <1>3, <2>1
<1>4. PICK m \in T : \A n \in T : m <= n
  <2>1. T \in SUBSET Nat
    OBVIOUS
  <2> QED
    BY <1>3, <2>1, P!LeastNumber, BudgetAssumptions
<1>5. f[m] = Moved(d, f[m - 1], s[m]) /\ f[m] # {} /\ m \in k .. Len(s)
  <2>1. m \in 0 .. Len(s) /\ m # 0 /\ f[m] # {} /\ m \in k .. Len(s)
    BY <1>4
  <2> QED
    BY <1>2, <2>1, Zenon
<1>6. CASE m = k
  <2>1. \A b : ~Accepts(d, b, s[k])
    BY DEF Accepts, Stray, Overwritten
  <2> QED
    BY <1>5, <1>6, <2>1 DEF Moved
<1>7. CASE m # k
  <2>1. m - 1 \in k .. Len(s) /\ m - 1 \notin T
    BY <1>4, <1>5, <1>7
  <2>2. f[m - 1] = {}
    BY <2>1
  <2> QED
    BY <1>5, <2>2 DEF Moved
<1> QED
  BY <1>6, <1>7

\* What a load() of the file finds: the committed budget, or that budget
\* after the one row nobody committed.
BudgetOnFile ==
  IF Len(disk) = acked THEN bud ELSE After(decl, bud, disk[acked + 1])

\* Every line of the file is one the writer wrote.
OwnLines == \A n \in 1 .. Len(disk) : disk[n] \notin {Stray, Overwritten}

LEMMA FileReplays ==
  ASSUME DiskInv, TailAccepted, OwnLines
  PROVE  /\ Replay(decl, disk) = {BudgetOnFile} /\ Untouched
         /\ disk \in Seq(Row) /\ Len(disk) \in {acked, acked + 1}
         /\ Len(disk) = acked + 1 => Accepts(decl, bud, disk[acked + 1])
<1>1. /\ disk \in Seq(Line) /\ acked \in Nat /\ synced \in Nat
      /\ acked <= synced /\ synced <= Len(disk) /\ Len(disk) \in Nat
  BY DEF DiskInv, JTyped, FileKeepsUp
<1>2. disk \in Seq(Row) /\ Untouched
  <2>1. \A n \in 1 .. Len(disk) : disk[n] \in Row
    BY <1>1 DEF OwnLines, Line
  <2>2. \A n \in 1 .. acked : n \in 1 .. Len(disk)
    BY <1>1
  <2>3. Untouched
    BY <2>2 DEF OwnLines, Untouched
  <2> QED
    BY <1>1, <2>1, <2>3
<1>3. Replay(decl, SubSeq(disk, 1, acked)) = {bud}
  BY <1>2 DEF DiskInv, AckedReplays, AckedRows
<1>4. /\ Len(disk) \in {acked, acked + 1}
      /\ Len(disk) = acked + 1 => Accepts(decl, bud, disk[acked + 1])
  <2>1. Len(disk) # acked + 2
    <3>1. Len(disk) = acked + 2 => acked + 2 \in 1 .. Len(disk)
      BY <1>1
    <3> QED
      BY <3>1 DEF OwnLines, TailAccepted
  <2>2. Len(disk) = acked + 1 => acked + 1 \in 1 .. Len(disk)
    BY <1>1
  <2>3. Len(disk) \in {acked, acked + 1}
    BY <1>1, <2>1 DEF TailAccepted
  <2> QED
    BY <1>1, <2>2, <2>3 DEF OwnLines, TailAccepted
<1>5. CASE Len(disk) = acked
  <2>1. SubSeq(disk, 1, acked) = disk
    BY <1>1, <1>5
  <2>2. Replay(decl, disk) = {bud}
    BY <1>3, <2>1, Zenon
  <2>3. BudgetOnFile = bud
    BY <1>5 DEF BudgetOnFile
  <2> QED
    BY <1>2, <1>4, <2>2, <2>3
<1>6. CASE Len(disk) = acked + 1
  <2> DEFINE old == SubSeq(disk, 1, acked)
             r == disk[acked + 1]
  <2>1. old \in Seq(Row) /\ r \in Row /\ disk = Append(old, r)
    BY <1>1, <1>2, <1>6
  <2>2. Accepts(decl, bud, r) /\ Replay(decl, old) = {bud}
    BY <1>3, <1>4, <1>6
  <2>3. BudgetOnFile = After(decl, bud, r)
    BY <1>1, <1>6 DEF BudgetOnFile
  <2> HIDE DEF old, r
  <2>4. Replay(decl, Append(old, r)) = Moved(decl, Replay(decl, old), r)
    BY <2>1, ReplayAppend
  <2>5. Moved(decl, {bud}, r) = {BudgetOnFile}
    BY <2>2, <2>3 DEF Moved
  <2>6. Replay(decl, disk) = {BudgetOnFile}
    BY <2>1, <2>2, <2>4, <2>5, Zenon
  <2> QED
    BY <1>2, <1>4, <2>6
<1> QED
  BY <1>4, <1>5, <1>6

\* The file keeps up with the writer in every reachable state, up to the first
\* interrupt that comes between a row and its commit.
THEOREM DiskInvariant == Spec => [](JTyped /\ CallIsAlive /\ FileInv)
<1>1. Init => JTyped /\ CallIsAlive /\ FileInv
  BY BudgetJournalInit DEF BudgetJournalInv, DiskInv, FileInv
<1>2. /\ JInv /\ P!Inv /\ JTyped /\ CallIsAlive /\ FileInv /\ [Next]_vars
      => (JTyped /\ CallIsAlive /\ FileInv)'
  BY FileStep
<1> QED
  BY <1>1, <1>2, JournalInvariant, PTL DEF Spec

\* No slot is debited in memory whose DEBIT row is not committed.
THEOREM DebitsOnFile == Spec => [](~interrupted => DebitsStored)
<1>1. FileInv => (~interrupted => DebitsStored)
  BY DEF FileInv, BudgetJournalInv
<1> QED
  BY <1>1, DiskInvariant, PTL

\* What the writer committed is in the file for good, through every crash,
\* failure and loss of power, and replays to exactly the committed budget,
\* unless somebody overwrote it, or an interrupt came between a row and its
\* commit.
THEOREM AckedRecoverable == Spec => []AckedIsRecoverable
<1>1. FileInv => AckedIsRecoverable
  <2> SUFFICES ASSUME BudgetJournalInv, Intact
               PROVE  /\ acked <= synced /\ synced <= Len(disk)
                      /\ Replay(decl, SubSeq(disk, 1, acked)) = {bud}
    BY DEF FileInv, AckedIsRecoverable
  <2>1. /\ acked <= synced /\ synced <= Len(disk) /\ acked \in Nat
        /\ synced \in Nat /\ Len(disk) \in Nat
    BY DEF BudgetJournalInv, DiskInv, JTyped, FileKeepsUp
  <2>2. Untouched
    <3>1. \A n \in 1 .. acked : n \in 1 .. Len(disk)
      BY <2>1
    <3> QED
      BY <3>1 DEF Intact, Untouched
  <2> QED
    BY <2>1, <2>2 DEF BudgetJournalInv, DiskInv, AckedReplays, AckedRows
<1> QED
  BY <1>1, DiskInvariant, PTL

\* While the writer says its acknowledgments are verified and no call is under
\* way, the file nobody has changed since its last check is on stable storage,
\* ends in a complete row, and reads as the budget the writer holds.
THEOREM LiveAgrees == Spec => []LiveAgreesWithReplay
<1>1. FileInv => LiveAgreesWithReplay
  <2> SUFFICES ASSUME BudgetJournalInv, Acknowledged, file = "own",
                      pc = "idle", ~interrupted, Intact
               PROVE  Replay(decl, disk) = {bud} /\ synced = Len(disk) /\ ~torn
    BY DEF FileInv, LiveAgreesWithReplay
  <2>1. /\ disk \in Seq(Line) /\ Len(disk) = acked /\ ~torn
        /\ acked \in Nat /\ synced \in Nat
        /\ acked <= synced /\ synced <= Len(disk)
    BY DEF BudgetJournalInv, DiskInv, JTyped, FileKeepsUp
  <2>2. SubSeq(disk, 1, acked) = disk
    BY <2>1
  <2>3. Untouched
    BY <2>1 DEF Intact, Untouched
  <2>4. Replay(decl, disk) = {bud}
    BY <2>2, <2>3, Zenon
       DEF BudgetJournalInv, DiskInv, AckedReplays, AckedRows
  <2> QED
    BY <2>1, <2>4
<1> QED
  BY <1>1, DiskInvariant, PTL

\* Every variable of the journal keeps its type: its own by the file's
\* invariant, the budget and its observations by the declared budget's.
THEOREM JournalTyped == Spec => []TypeOK
<1>1. JTyped /\ JInv /\ P!Inv => TypeOK
  BY DEF JTyped, Line, TypeOK, P!Inv, P!TypeOK, P!Declaration, Declaration,
         P!Node, Node, P!Kind, Kind, P!Stage, Stage, Budget, P!Budget, Status,
         P!Status, Unsettled, P!Unsettled, Stop, P!Stop, Running, P!Running,
         Censored, P!Censored, Unresolved, P!Unresolved, Overrun, P!Overrun,
         Failed, P!Failed, P!Observation, P!Elapsed, Elapsed
<1> QED
  BY <1>1, DiskInvariant, JournalInvariant, PTL

\* The event an append is about to write always finds room: the limit on events
\* can poison no journal, because a plan has at most two rows for each slot and
\* the denial takes the place of a slot's; but an interrupt may have left a row
\* that is counted and belongs to no committed event.
THEOREM EventsFit == Spec => []RoomForEveryEvent
<1>1. Init => RowsPerSlot
  BY DEF Init, InitBudget, RowsPerSlot, NoSlot, Running, Censored
<1>2. JInv /\ P!Inv /\ RowsPerSlot /\ FileInv => RoomForEveryEvent
  <2> SUFFICES ASSUME JInv, P!Inv, RowsPerSlot, FileInv, pc = "check",
                      ~interrupted
               PROVE  events < MaxEvents
    BY DEF RoomForEveryEvent
  <2>1. /\ RowOffered /\ Accepts(decl, bud, row)
        /\ Len(decl.plan) \in Nat /\ MaxEvents \in Nat
        /\ 2 * Len(decl.plan) <= MaxEvents
    BY JournalAssumption, DeclarationsAssumption
       DEF JInv, Frozen, RowStillAccepted, Declaration
  <2>2. /\ bud.index \in 0 .. Len(decl.plan)
        /\ bud.active # NoSlot => bud.active = bud.index
        /\ bud.active # NoSlot => bud.stopped = Running
    BY DEF P!Inv, P!SlotsInOrder, P!StoppedIsIdle, P!Plan, NoSlot, P!NoSlot,
           Running, P!Running
  <2>3. events = acked
    BY DEF FileInv, BudgetJournalInv, DiskInv, FileKeepsUp
  <2>4. CASE /\ bud.stopped = Running /\ bud.active = NoSlot
             /\ bud.index < Len(decl.plan)
    BY <2>1, <2>2, <2>3, <2>4 DEF RowsPerSlot, Running, Censored
  <2>5. CASE bud.active # NoSlot
    BY <2>1, <2>2, <2>3, <2>5 DEF RowsPerSlot, Running, Censored
  <2>6. \/ /\ bud.stopped = Running /\ bud.active = NoSlot
           /\ bud.index < Len(decl.plan)
        \/ bud.active # NoSlot
    BY <2>1 DEF Accepts, Reservable
  <2> QED
    BY <2>4, <2>5, <2>6
<1> QED
  BY <1>1, <1>2, RowsPerSlotStep, JournalInvariant, DiskInvariant, PTL DEF Spec

\* In a poisoned journal no call begins and no check of availability passes;
\* what is still counted or committed is the one event whose own last check
\* had passed when the poison came, be it a failure's or a reentrant call's.
THEOREM PoisonIsFinal == Spec => NoAckAfterPoison
<1> DEFINE Final == /\ pc = "idle" => pc' = "idle"
                    /\ pc' = "adopted" => pc = "adopted"
                    /\ pc' = "cleared" => pc = "cleared"
                    /\ events' # events => pc = "adopted"
                    /\ <<bud, acked>>' # <<bud, acked>> => pc = "cleared"
<1>1. ASSUME [Next]_vars, poisoned PROVE Final
  <2>1. CASE Refuse \/ WriteFails \/ FsyncFails \/ AdoptFails \/ RecheckFails
    BY <2>1 DEF Refuse, WriteFails, FsyncFails, AdoptFails, RecheckFails,
                Raise, ram
  <2>2. CASE Write \/ Fsync \/ Count \/ Commit
    BY <2>2 DEF Write, Fsync, Count, Commit, ram
  <2>3. CASE Interrupt \/ Reentrant \/ Snapshot \/ Close \/ Interfere
    BY <2>3 DEF Interrupt, Reentrant, Snapshot, Close, Interfere, ram
  <2>4. CASE Crash \/ PowerLoss
    BY <2>4 DEF Crash, PowerLoss, ram
  <2>5. CASE UNCHANGED vars
    BY <2>5 DEF vars, ram
  <2>6. ~Adopt /\ ~Recheck /\ \A r : ~Begin(r)
    BY <1>1 DEF Adopt, Recheck, Begin
  <2> QED
    <3> HIDE DEF Final
    <3> QED
      BY <1>1, <2>1, <2>2, <2>3, <2>4, <2>5, <2>6
         DEF Next, BeginReserve, BeginSettle
<1>2. [Next]_vars => [poisoned => Final]_vars
  BY <1>1
<1> QED
  BY <1>2, PTL DEF Spec, NoAckAfterPoison

-----------------------------------------------------------------------------
\* The books a row leads to from a set of books.
LMoved(books, r) ==
  {LAfter(A, r) : A \in {A \in books : LAccepts(A, r)}}

\* f holds what the prefixes of the rows replay to.
IsLReplay(f, rows) ==
  f = [n \in 0 .. Len(rows) |->
         IF n = 0 THEN {<<>>} ELSE LMoved(f[n - 1], rows[n])]

\* The replays of a file are those of any file it is a prefix of.
LEMMA LReplaysAgree ==
  ASSUME NEW s, NEW t, NEW f, NEW g, Len(s) \in Nat, Len(t) \in Nat,
         IsLReplay(f, s), IsLReplay(g, t), Len(s) <= Len(t),
         \A n \in 1 .. Len(s) : s[n] = t[n]
  PROVE  \A n \in 0 .. Len(s) : f[n] = g[n]
<1> DEFINE T == {n \in 0 .. Len(s) : f[n] # g[n]}
<1>1. /\ \A n \in 0 .. Len(s) :
            f[n] = IF n = 0 THEN {<<>>} ELSE LMoved(f[n - 1], s[n])
      /\ \A n \in 0 .. Len(t) :
            g[n] = IF n = 0 THEN {<<>>} ELSE LMoved(g[n - 1], t[n])
  BY DEF IsLReplay
<1>2. SUFFICES ASSUME T # {} PROVE FALSE
  OBVIOUS
<1>3. PICK m \in T : \A n \in T : m <= n
  <2>1. T \in SUBSET Nat
    OBVIOUS
  <2> QED
    BY <1>2, <2>1, P!LeastNumber, BudgetAssumptions
<1>4. CASE m = 0
  <2>1. 0 \in 0 .. Len(s) /\ 0 \in 0 .. Len(t)
    OBVIOUS
  <2>2. f[0] = {<<>>} /\ g[0] = {<<>>}
    BY <1>1, <2>1, Zenon
  <2> QED
    BY <1>3, <1>4, <2>2
<1>5. CASE m # 0
  <2>1. m - 1 \in 0 .. Len(s) /\ m - 1 \notin T
    BY <1>3, <1>5
  <2>2. f[m - 1] = g[m - 1]
    BY <2>1
  <2> QED
    BY <1>1, <1>3, <1>5, <2>2
<1> QED
  BY <1>4, <1>5

\* Every file has replays: a shortest prefix without them would extend one
\* that has them.
LEMMA LReplayExists ==
  ASSUME NEW S, NEW s \in Seq(S)
  PROVE  \E f : IsLReplay(f, s)
<1> DEFINE T == {n \in 0 .. Len(s) : ~ \E f : IsLReplay(f, SubSeq(s, 1, n))}
<1>1. SUFFICES ASSUME T # {} PROVE FALSE
  <2>1. Len(s) \notin T
    BY <1>1
  <2>2. SubSeq(s, 1, Len(s)) = s
    OBVIOUS
  <2>3. Len(s) \in 0 .. Len(s)
    OBVIOUS
  <2>4. \E f : IsLReplay(f, SubSeq(s, 1, Len(s)))
    BY <2>1, <2>3, Zenon
  <2> QED
    BY <2>2, <2>4, Zenon
<1>2. PICK m \in T : \A n \in T : m <= n
  <2>1. T \in SUBSET Nat
    OBVIOUS
  <2> QED
    BY <1>1, <2>1, P!LeastNumber, BudgetAssumptions
<1>3. CASE m = 0
  <2>1. Len(SubSeq(s, 1, 0)) = 0
    OBVIOUS
  <2>2. IsLReplay([n \in 0 .. 0 |-> {<<>>}], SubSeq(s, 1, 0))
    BY <2>1 DEF IsLReplay
  <2> QED
    BY <1>2, <1>3, <2>2
<1>4. CASE m # 0
  <2> DEFINE u == SubSeq(s, 1, m - 1)
             t == SubSeq(s, 1, m)
  <2>1. m - 1 \in 0 .. Len(s) /\ m - 1 \notin T /\ m \in 1 .. Len(s)
    BY <1>2, <1>4
  <2>2. PICK f : IsLReplay(f, u)
    BY <2>1
  <2>3. /\ Len(u) = m - 1 /\ Len(t) = m
        /\ \A n \in 1 .. (m - 1) : u[n] = t[n]
    BY <2>1
  <2> DEFINE g == [n \in 0 .. m |-> IF n = m THEN LMoved(f[m - 1], t[m])
                                    ELSE f[n]]
  <2> HIDE DEF u, t
  <2>4. \A n \in 0 .. (m - 1) :
           f[n] = IF n = 0 THEN {<<>>} ELSE LMoved(f[n - 1], u[n])
    BY <2>2, <2>3 DEF IsLReplay
  <2>5. \A n \in 0 .. m :
           g[n] = IF n = 0 THEN {<<>>} ELSE LMoved(g[n - 1], t[n])
    <3> SUFFICES ASSUME NEW n \in 0 .. m
                 PROVE  g[n] = IF n = 0 THEN {<<>>}
                               ELSE LMoved(g[n - 1], t[n])
      OBVIOUS
    <3>1. CASE n = m
      <4>1. n # 0 /\ n - 1 \in 0 .. m /\ n - 1 # m
        BY <2>1, <3>1
      <4> QED
        BY <3>1, <4>1
    <3>2. CASE n = 0
      BY <2>1, <2>4, <3>2
    <3>3. CASE n # m /\ n # 0
      <4>1. n \in 1 .. (m - 1) /\ n - 1 \in 0 .. (m - 1) /\ n - 1 # m
        BY <2>1, <3>3
      <4>2. u[n] = t[n]
        BY <2>3, <4>1
      <4>3. f[n] = LMoved(f[n - 1], u[n])
        BY <2>4, <4>1
      <4> QED
        BY <4>1, <4>2, <4>3
    <3> QED
      BY <3>1, <3>2, <3>3
  <2>6. g = [n \in 0 .. m |->
               IF n = 0 THEN {<<>>} ELSE LMoved(g[n - 1], t[n])]
    BY <2>5
  <2>7. IsLReplay(g, t)
    <3> HIDE DEF g
    <3> QED
      BY <2>3, <2>6 DEF IsLReplay
  <2> QED
    BY <1>2, <2>7 DEF t
<1> QED
  BY <1>3, <1>4

\* The recursive definition of LReplay means what it says.
LEMMA LReplayIsLReplay ==
  ASSUME NEW S, NEW s \in Seq(S)
  PROVE  \E f : IsLReplay(f, s) /\ LReplay(s) = f[Len(s)]
<1> DEFINE f == CHOOSE f : IsLReplay(f, s)
<1>1. IsLReplay(f, s)
  BY LReplayExists
<1>2. LReplay(s) = f[Len(s)]
  BY DEF LReplay, IsLReplay, LMoved
<1> QED
  BY <1>1, <1>2

\* An empty journal replays to an empty book.
LEMMA LReplayEmpty == LReplay(<<>>) = {<<>>}
<1>1. <<>> \in Seq(Nat) /\ Len(<<>>) = 0
  OBVIOUS
<1>2. PICK f : IsLReplay(f, <<>>) /\ LReplay(<<>>) = f[0]
  BY <1>1, LReplayIsLReplay
<1> QED
  BY <1>1, <1>2 DEF IsLReplay

\* One more row moves the books the rows before it lead to.
LEMMA LReplayAppend ==
  ASSUME NEW S, NEW s \in Seq(S), NEW r \in S
  PROVE  LReplay(Append(s, r)) = LMoved(LReplay(s), r)
<1> DEFINE t == Append(s, r)
<1>1. /\ t \in Seq(S) /\ Len(t) = Len(s) + 1 /\ Len(s) \in Nat
      /\ t[Len(t)] = r /\ \A n \in 1 .. Len(s) : s[n] = t[n]
  OBVIOUS
<1> HIDE DEF t
<1>2. PICK f : IsLReplay(f, s) /\ LReplay(s) = f[Len(s)]
  BY LReplayIsLReplay
<1>3. PICK g : IsLReplay(g, t) /\ LReplay(t) = g[Len(t)]
  BY <1>1, LReplayIsLReplay
<1>4. f[Len(s)] = g[Len(s)]
  BY <1>1, <1>2, <1>3, LReplaysAgree
<1>5. g[Len(t)] = LMoved(g[Len(t) - 1], t[Len(t)])
  <2>1. \A n \in 0 .. Len(t) :
           g[n] = IF n = 0 THEN {<<>>} ELSE LMoved(g[n - 1], t[n])
    BY <1>3 DEF IsLReplay
  <2>2. Len(t) \in 0 .. Len(t) /\ Len(t) # 0
    BY <1>1
  <2> QED
    BY <2>1, <2>2, Zenon
<1> QED
  BY <1>1, <1>2, <1>3, <1>4, <1>5 DEF t

-----------------------------------------------------------------------------
\* What a row makes of the attempts it is accepted by.

\* Replacing the last element of a sequence leaves the others.
LEMMA LastReplaced ==
  ASSUME NEW S, NEW A \in Seq(S), A # <<>>, NEW e \in S
  PROVE  LET new == [A EXCEPT ![Len(A)] = e]
         IN  /\ new \in Seq(S)
             /\ Len(new) = Len(A)
             /\ new[Len(A)] = e
             /\ \A i \in 1 .. Len(A) : i # Len(A) => new[i] = A[i]
<1> DEFINE new == [A EXCEPT ![Len(A)] = e]
<1>1. Len(A) \in Nat /\ Len(A) # 0 /\ Len(A) \in 1 .. Len(A)
  OBVIOUS
<1>2. new = [i \in 1 .. Len(A) |-> IF i = Len(A) THEN e ELSE A[i]]
  OBVIOUS
<1>3. \A i \in 1 .. Len(A) : (IF i = Len(A) THEN e ELSE A[i]) \in S
  OBVIOUS
<1> HIDE DEF new
<1>4. new \in Seq(S) /\ Len(new) = Len(A)
  BY <1>1, <1>2, <1>3
<1> QED
  BY <1>1, <1>2, <1>4 DEF new

\* A book, as State keeps it.
Book == Seq(Attempt)

\* An INTENT adds an attempt that has no process yet.
LEMMA AfterIntent ==
  ASSUME NEW A \in Book, NEW r \in LRow, r.kind = "INTENT", LAccepts(A, r)
  PROVE  LET new == LAfter(A, r)
             e == new[Len(A) + 1]
         IN  /\ new \in Book
             /\ Len(new) = Len(A) + 1
             /\ \A i \in 1 .. Len(A) : new[i] = A[i]
             /\ e.aid = r.aid /\ e.profile = r.profile /\ e.phase = "INTENT"
             /\ e.session = r.session /\ e.start = r.ns /\ e.end = r.ns
             /\ e.ident = NoIdentity
             /\ ~ActiveIn(A)
             /\ \A i \in 1 .. Len(A) : A[i].aid # r.aid
             /\ A # <<>> => /\ r.session = A[Len(A)].session
                            /\ A[Len(A)].end <= r.ns
<1> DEFINE e == [aid |-> r.aid, profile |-> r.profile, phase |-> "INTENT",
                 session |-> r.session, start |-> r.ns, end |-> r.ns,
                 ident |-> NoIdentity]
<1>1. r \in [kind : {"INTENT"}, aid : Aid, profile : Profile,
             session : Session, ns : Time]
  BY DEF LRow
<1>2. e \in Attempt
  BY <1>1 DEF Attempt, Phase
<1>3. LAfter(A, r) = Append(A, e)
  BY DEF LAfter
<1>4. /\ ~ActiveIn(A) /\ r.aid \notin Aids(A)
      /\ A # <<>> => r.session = Last(A).session /\ Last(A).end <= r.ns
  BY DEF LAccepts, Last
<1>5. \A i \in 1 .. Len(A) : A[i].aid # r.aid
  BY <1>4 DEF Aids
<1>6. A # <<>> => r.session = A[Len(A)].session /\ A[Len(A)].end <= r.ns
  BY <1>4 DEF Last
<1>7. /\ Append(A, e) \in Book /\ Len(Append(A, e)) = Len(A) + 1
      /\ Append(A, e)[Len(A) + 1] = e
      /\ \A i \in 1 .. Len(A) : Append(A, e)[i] = A[i]
  BY <1>2 DEF Book
<1> QED
  BY <1>3, <1>4, <1>5, <1>6, <1>7

\* A LAUNCHED names the process of the attempt that waits for one.
LEMMA AfterLaunched ==
  ASSUME NEW A \in Book, NEW r \in LRow, r.kind = "LAUNCHED",
         LAccepts(A, r)
  PROVE  LET new == LAfter(A, r)
             n == Len(A)
         IN  /\ new \in Book
             /\ Len(new) = n /\ n \in Nat \ {0}
             /\ \A i \in 1 .. n : i # n => new[i] = A[i]
             /\ new[n].aid = A[n].aid /\ new[n].profile = A[n].profile
             /\ new[n].phase = "LAUNCHED" /\ new[n].session = A[n].session
             /\ new[n].start = A[n].start /\ new[n].end = A[n].end
             /\ new[n].ident = r.ident /\ r.ident \in Identity
             /\ A[n].phase = "INTENT" /\ A[n].aid = r.aid
             /\ \A i \in 1 .. n : A[i].ident # r.ident
<1> DEFINE n == Len(A)
           e == [A[n] EXCEPT !.phase = "LAUNCHED", !.ident = r.ident]
<1>1. /\ ActiveIn(A) /\ Last(A).aid = r.aid /\ Last(A).phase = "INTENT"
      /\ r.ident \in Identity /\ \A i \in 1 .. Len(A) : A[i].ident # r.ident
  BY DEF LAccepts, Last
<1>2. A # <<>> /\ Last(A) = A[n]
  BY <1>1 DEF ActiveIn, Last
<1>3. n \in Nat \ {0} /\ A[n] \in Attempt
  BY <1>2 DEF Book
<1>4. /\ e \in Attempt /\ e.aid = A[n].aid /\ e.profile = A[n].profile
      /\ e.phase = "LAUNCHED" /\ e.session = A[n].session
      /\ e.start = A[n].start /\ e.end = A[n].end /\ e.ident = r.ident
  BY <1>1, <1>3 DEF Attempt, Phase
<1>5. LAfter(A, r) = [A EXCEPT ![n] = e]
  BY <1>2 DEF LAfter, Book
<1> HIDE DEF e
<1>6. /\ [A EXCEPT ![n] = e] \in Book /\ Len([A EXCEPT ![n] = e]) = n
      /\ [A EXCEPT ![n] = e][n] = e
      /\ \A i \in 1 .. n : i # n => [A EXCEPT ![n] = e][i] = A[i]
  BY <1>2, <1>4, LastReplaced DEF Book
<1> QED
  BY <1>1, <1>2, <1>3, <1>4, <1>5, <1>6

\* A REAPED ends the attempt whose process it names, on the attempt's clock.
LEMMA AfterReaped ==
  ASSUME NEW A \in Book, NEW r \in LRow, r.kind = "REAPED", LAccepts(A, r)
  PROVE  LET new == LAfter(A, r)
             n == Len(A)
         IN  /\ new \in Book
             /\ Len(new) = n /\ n \in Nat \ {0}
             /\ \A i \in 1 .. n : i # n => new[i] = A[i]
             /\ new[n].aid = A[n].aid /\ new[n].profile = A[n].profile
             /\ new[n].phase = "REAPED" /\ new[n].session = A[n].session
             /\ new[n].start = A[n].start /\ new[n].end = r.ns
             /\ new[n].ident = A[n].ident
             /\ A[n].phase = "LAUNCHED" /\ A[n].aid = r.aid
             /\ A[n].start <= r.ns
<1> DEFINE n == Len(A)
           e == [A[n] EXCEPT !.phase = "REAPED", !.end = r.ns]
<1>1. /\ ActiveIn(A) /\ Last(A).aid = r.aid /\ Last(A).phase = "LAUNCHED"
      /\ Last(A).start <= r.ns
  BY DEF LAccepts, Last
<1>2. A # <<>> /\ Last(A) = A[n]
  BY <1>1 DEF ActiveIn, Last
<1>3. n \in Nat \ {0} /\ A[n] \in Attempt
  BY <1>2 DEF Book
<1>4. r.ns \in Time
  <2>1. r \in [kind : {"REAPED"}, aid : Aid,
               ident : Identity \cup {NoIdentity}, session : Session,
               ns : Time, result : Result]
    BY DEF LRow
  <2> QED
    BY <2>1
<1>5. /\ e \in Attempt /\ e.aid = A[n].aid /\ e.profile = A[n].profile
      /\ e.phase = "REAPED" /\ e.session = A[n].session
      /\ e.start = A[n].start /\ e.end = r.ns /\ e.ident = A[n].ident
  BY <1>3, <1>4 DEF Attempt, Phase
<1>6. LAfter(A, r) = [A EXCEPT ![n] = e]
  BY <1>2 DEF LAfter, Book
<1> HIDE DEF e
<1>7. /\ [A EXCEPT ![n] = e] \in Book /\ Len([A EXCEPT ![n] = e]) = n
      /\ [A EXCEPT ![n] = e][n] = e
      /\ \A i \in 1 .. n : i # n => [A EXCEPT ![n] = e][i] = A[i]
  BY <1>2, <1>5, LastReplaced DEF Book
<1> QED
  BY <1>1, <1>2, <1>3, <1>5, <1>6, <1>7

-----------------------------------------------------------------------------
\* The inductive invariant of the lifecycle journal.

\* No two attempts have the same name.
Distinct == \A i, j \in 1 .. Len(att) : att[i].aid = att[j].aid => i = j

\* The attempts follow each other on one clock.
Clocked ==
  /\ \A i \in 1 .. Len(att) : att[i].start <= att[i].end
  /\ \A i, j \in 1 .. Len(att) :
        i < j => /\ att[i].session = att[j].session
                 /\ att[i].end <= att[j].start

\* Only an attempt that waits for its process has no name of one, and no two
\* have the same.
Named ==
  /\ \A i \in 1 .. Len(att) :
        IF att[i].phase = "INTENT" THEN att[i].ident = NoIdentity
                                   ELSE att[i].ident \in Identity
  /\ \A i, j \in 1 .. Len(att) : i < j => att[i].ident # att[j].ident

\* The INTENT of every attempt is somewhere in the file.
ToldIn(lines, A) ==
  \A i \in 1 .. Len(A) : \E n \in 1 .. Len(lines) :
     lines[n].kind = "INTENT" /\ lines[n].aid = A[i].aid

Told == ToldIn(ldisk, att)

BookInv == Distinct /\ Clocked /\ Named /\ Told

\* The processes are those of the attempts, in their order, and whatever is
\* past its INTENT has one; only the last attempt can be unfinished.
Followed ==
  /\ Len(world) <= Len(att)
  /\ \A i \in 1 .. Len(world) : world[i].aid = att[i].aid
  /\ \A i \in 1 .. Len(att) : att[i].phase # "INTENT" => i <= Len(world)
  /\ \A i \in 1 .. Len(att) : i < Len(att) => att[i].phase = "REAPED"

\* A reaped attempt had a process, whose end was verified.
Finished ==
  \A i \in 1 .. Len(att) :
     att[i].phase = "REAPED" =>
        world[i].handle /\ world[i].cleaned = "verified"

\* Where run() stands: it works on the last attempt, launches its process
\* once, and holds the handle of it from then on.
RunPlace ==
  /\ lpc # "idle" => run \in Run
  /\ lpc \in {"launch", "register", "finish", "cleanup", "reap"} =>
        /\ Len(att) > 0
        /\ att[Len(att)].aid = run.aid
        /\ att[Len(att)].phase # "REAPED"
  /\ lpc = "launch" => Len(world) + 1 = Len(att)
  /\ lpc \in {"register", "finish", "cleanup", "reap"} =>
        /\ Len(world) = Len(att)
        /\ world[Len(world)].handle
  /\ lpc = "reap" => world[Len(world)].cleaned = "verified"

WorldInv == Followed /\ Finished /\ RunPlace

\* A row still to be published is the one run() is at, is in the file, and the
\* attempts accept it whenever it is published.
Pending ==
  lrow # NoLRow =>
     /\ LAccepts(att, lrow)
     /\ \E n \in 1 .. Len(ldisk) : ldisk[n] = lrow
     /\ \/ lpc = "intent" /\ lrow = IntentRow
        \/ lpc = "register" /\ lrow = LaunchedRow
        \/ /\ lpc = "reap"
           /\ \E s \in Session, ns \in Time : lrow = ReapedRow(s, ns)

\* A process whose handle is known and that nobody has cleaned up yet is that
\* of the run under way, which will.
HandlesHeld ==
  lwriter # "dead" /\ ~linterrupted =>
     \A i \in 1 .. Len(world) :
        world[i].handle /\ world[i].cleaned = "no" =>
           i = Len(world) /\ lpc \in {"register", "finish", "cleanup"}

LInv == LTypeOK /\ BookInv /\ WorldInv /\ Pending /\ HandlesHeld

\* Nothing is announced, stored or spawned at first.
LEMMA LInitInv == LInit => LInv
<1> SUFFICES ASSUME LInit PROVE LInv
  OBVIOUS
<1>1. /\ att = <<>> /\ Len(att) = 0 /\ ldisk = <<>> /\ Len(ldisk) = 0
      /\ world = <<>> /\ Len(world) = 0 /\ lacked = 0 /\ lpc = "idle"
      /\ run = NoRun /\ lrow = NoLRow
  BY DEF LInit
<1>2. LTypeOK
  <2>1. att \in Seq(Attempt) /\ ldisk \in Seq(LRow \cup {LStray})
        /\ world \in Seq(Process)
    BY <1>1
  <2>2. /\ lpoisoned \in BOOLEAN /\ ltorn \in BOOLEAN /\ linterrupted \in BOOLEAN
        /\ lwriter = "open" /\ lfile = "own"
    BY DEF LInit
  <2> QED
    BY <1>1, <2>1, <2>2 DEF LTypeOK
<1>3. Distinct /\ Clocked /\ Named /\ Told /\ Followed /\ Finished /\ RunPlace
  BY <1>1
     DEF Distinct, Clocked, Named, Told, ToldIn, Followed, Finished, RunPlace
<1>4. Pending /\ HandlesHeld
  BY <1>1 DEF Pending, HandlesHeld
<1> QED
  BY <1>2, <1>3, <1>4 DEF LInv, BookInv, WorldInv

\* The rows run() writes are rows.
LEMMA RowsOfRun ==
  ASSUME run \in Run
  PROVE  /\ IntentRow \in LRow /\ IntentRow.kind = "INTENT"
         /\ IntentRow.aid = run.aid /\ IntentRow.profile = run.profile
         /\ IntentRow.session = run.session
         /\ LaunchedRow \in LRow /\ LaunchedRow.kind = "LAUNCHED"
         /\ \A s \in Session, ns \in Time :
               ReapedRow(s, ns) \in LRow /\ ReapedRow(s, ns).kind = "REAPED"
<1>1. IntentRow \in [kind : {"INTENT"}, aid : Aid, profile : Profile,
                     session : Session, ns : Time]
  BY DEF IntentRow, Run
<1>2. LaunchedRow \in [kind : {"LAUNCHED"}, aid : Aid,
                       ident : Identity \cup {NoIdentity}]
  BY DEF LaunchedRow, Run
<1>3. ASSUME NEW s \in Session, NEW ns \in Time
      PROVE  ReapedRow(s, ns) \in
               [kind : {"REAPED"}, aid : Aid,
                ident : Identity \cup {NoIdentity}, session : Session,
                ns : Time, result : Result]
  BY DEF ReapedRow, Run
<1>4. ASSUME NEW s \in Session, NEW ns \in Time
      PROVE  ReapedRow(s, ns) \in LRow /\ ReapedRow(s, ns).kind = "REAPED"
  BY <1>3 DEF LRow, ReapedRow
<1>5. IntentRow \in LRow /\ LaunchedRow \in LRow
  BY <1>1, <1>2 DEF LRow
<1> QED
  BY <1>4, <1>5 DEF IntentRow, LaunchedRow

-----------------------------------------------------------------------------
\* What every step leaves of the file and the flags.

\* No line is lost or altered, and at most one is added, of whatever origin.
LineAdded ==
  ldisk' = ldisk \/ \E r \in LRow \cup {LStray} : ldisk' = Append(ldisk, r)

FlagsTyped ==
  /\ lacked' \in Nat
  /\ lrow' \in LRow \cup {NoLRow}
  /\ lpoisoned' \in BOOLEAN
  /\ lwriter' \in {"open", "closed", "dead"}
  /\ ltorn' \in BOOLEAN
  /\ lfile' \in {"own", "changed"}
  /\ linterrupted' \in BOOLEAN

LinesKept ==
  /\ ldisk' \in Seq(LRow \cup {LStray})
  /\ Len(ldisk) <= Len(ldisk')
  /\ \A n \in 1 .. Len(ldisk) : ldisk'[n] = ldisk[n]

LEMMA LineAddedKept ==
  ASSUME LTypeOK, LineAdded
  PROVE  LinesKept
<1>1. ldisk \in Seq(LRow \cup {LStray})
  BY DEF LTypeOK
<1>2. CASE ldisk' = ldisk
  BY <1>1, <1>2 DEF LinesKept
<1>3. ASSUME NEW r \in LRow \cup {LStray}, ldisk' = Append(ldisk, r)
      PROVE  LinesKept
  BY <1>1, <1>3 DEF LinesKept
<1> QED
  BY <1>2, <1>3 DEF LineAdded

\* The try block of an append adds no line but its row.
LEMMA AppendAdds ==
  ASSUME LTypeOK, NEW r \in LRow,
         Writes(r) \/ Publishes \/ Breaks(r) \/ Rejects(r), UNCHANGED aside
  PROVE  LineAdded /\ FlagsTyped
<1>1. /\ lacked \in Nat /\ lrow \in LRow \cup {NoLRow} /\ lpoisoned \in BOOLEAN
      /\ ltorn \in BOOLEAN /\ lwriter \in {"open", "closed", "dead"}
      /\ lfile \in {"own", "changed"} /\ linterrupted \in BOOLEAN
  BY DEF LTypeOK
<1>2. CASE Writes(r)
  BY <1>1, <1>2 DEF Writes, LineAdded, FlagsTyped, aside
<1>3. CASE Publishes
  BY <1>1, <1>3 DEF Publishes, LineAdded, FlagsTyped, aside
<1>4. CASE Breaks(r)
  BY <1>1, <1>4 DEF Breaks, LineAdded, FlagsTyped, aside
<1>5. CASE Rejects(r)
  BY <1>1, <1>5 DEF Rejects, LineAdded, FlagsTyped, aside, book
<1> QED
  BY <1>2, <1>3, <1>4, <1>5

LEMMA CrashAdds ==
  ASSUME LTypeOK, RunPlace, LCrash
  PROVE  LineAdded /\ FlagsTyped
<1>1. /\ lwriter' = "dead" /\ lrow' = NoLRow
      /\ UNCHANGED <<att, lacked, lpoisoned, lfile, world, linterrupted>>
  BY DEF LCrash
<1>2. LineAdded /\ (ltorn' = ltorn \/ ltorn' = TRUE)
  <2>1. CASE UNCHANGED <<ldisk, ltorn>>
    BY <2>1 DEF LineAdded
  <2>2. CASE lpc \in {"intent", "register"} /\ ~UNCHANGED <<ldisk, ltorn>>
    <3>1. run \in Run
      BY <2>2 DEF RunPlace
    <3>2. IntentRow \in LRow /\ LaunchedRow \in LRow
      BY <3>1, RowsOfRun
    <3>3. PICK r \in {IntentRow, LaunchedRow} :
             \/ ldisk' = Append(ldisk, r) /\ UNCHANGED ltorn
             \/ ltorn' = TRUE /\ UNCHANGED ldisk
      BY <2>2 DEF LCrash
    <3> QED
      BY <3>2, <3>3 DEF LineAdded
  <2>3. CASE lpc = "reap" /\ ~UNCHANGED <<ldisk, ltorn>>
    <3>1. run \in Run
      BY <2>3 DEF RunPlace
    <3>2. PICK s \in Session, ns \in Time :
             \/ ldisk' = Append(ldisk, ReapedRow(s, ns)) /\ UNCHANGED ltorn
             \/ ltorn' = TRUE /\ UNCHANGED ldisk
      BY <2>3 DEF LCrash
    <3>3. ReapedRow(s, ns) \in LRow
      BY <3>1, RowsOfRun
    <3> QED
      BY <3>2, <3>3 DEF LineAdded
  <2> QED
    BY <2>1, <2>2, <2>3 DEF LCrash
<1> QED
  BY <1>1, <1>2 DEF FlagsTyped, LTypeOK

\* The steps that write no line of run(): each of them leaves the count of
\* acknowledged rows alone.
LEMMA OthersAdd ==
  ASSUME LTypeOK, [LNext]_lvars, ~AppendIntent, ~AppendLaunched, ~LCrash,
         ~ \E s \in Session, ns \in Time : AppendReaped(s, ns)
  PROVE  /\ LineAdded /\ FlagsTyped /\ att' = att /\ lacked' = lacked
         /\ lrow' \in {lrow, NoLRow}
         /\ Available' => Available
         /\ ldisk' = ldisk \/ LInterfere
         /\ lfile' = lfile \/ LInterfere
         /\ linterrupted => linterrupted'
<1>1. /\ lacked \in Nat /\ lrow \in LRow \cup {NoLRow} /\ lpoisoned \in BOOLEAN
      /\ ltorn \in BOOLEAN /\ lwriter \in {"open", "closed", "dead"}
      /\ lfile \in {"own", "changed"} /\ linterrupted \in BOOLEAN
  BY DEF LTypeOK
<1> DEFINE Same == UNCHANGED <<att, lacked, ldisk, ltorn>>
           Less == lpoisoned' = lpoisoned \/ lpoisoned' = TRUE
           Room == UNCHANGED <<lwriter, lfile>>
<1>2. ASSUME \/ \E aid \in Aid, p \in Profile, s \in Session, ns \in Time :
                   RunStart(aid, p, s, ns)
             \/ \E ident \in Identity \cup {NoIdentity} : Launch(ident)
             \/ LaunchFails
             \/ (\E result \in Result : Finish(result)) \/ FinishRaises
             \/ Cleanup \/ ReapRaises \/ LSnapshot
             \/ UNCHANGED lvars
      PROVE  Same /\ Less /\ Room /\ UNCHANGED <<lrow, linterrupted>>
  BY <1>2
     DEF RunStart, Launch, LaunchFails, Finish, FinishRaises, Cleanup,
         ReapRaises, LSnapshot, lvars, book, aside
<1>3. ASSUME InterruptAppend \/ InterruptRun
      PROVE  /\ Same /\ Less /\ Room /\ linterrupted' = TRUE
             /\ lrow' \in {lrow, NoLRow}
  <2>1. CASE InterruptAppend
    BY <2>1 DEF InterruptAppend
  <2>2. CASE InterruptRun
    <3>1. lpoisoned' \in {lpoisoned, lpoisoned \/ lpc \in {"register", "cleanup"}}
      BY <2>2 DEF InterruptRun
    <3>2. (lpoisoned \/ lpc \in {"register", "cleanup"}) \in {lpoisoned, TRUE}
      BY <1>1, Zenon
    <3>3. Less
      BY <3>1, <3>2
    <3> QED
      BY <2>2, <3>3 DEF InterruptRun, book
  <2> QED
    BY <1>3, <2>1, <2>2
<1>4. ASSUME LClose
      PROVE  /\ Same /\ lfile' = lfile /\ lwriter' = "closed"
             /\ UNCHANGED <<lrow, linterrupted, lpoisoned>>
  BY <1>4 DEF LClose, book
<1>5. ASSUME Same, Less, lfile' = lfile,
             lwriter' = lwriter \/ lwriter' = "closed",
             lrow' \in {lrow, NoLRow},
             linterrupted' = linterrupted \/ linterrupted' = TRUE
      PROVE  /\ LineAdded /\ FlagsTyped /\ att' = att /\ lacked' = lacked
             /\ lrow' \in {lrow, NoLRow}
             /\ Available' => Available
             /\ ldisk' = ldisk /\ lfile' = lfile
             /\ linterrupted => linterrupted'
  <2>1. lpoisoned' \in BOOLEAN /\ linterrupted' \in BOOLEAN
    BY <1>1, <1>5, Zenon
  <2>2. FlagsTyped
    BY <1>1, <1>5, <2>1 DEF FlagsTyped
  <2>3. Available' => Available
    BY <1>5 DEF Available
  <2>4. linterrupted => linterrupted'
    BY <1>5, Zenon
  <2> QED
    BY <1>5, <2>2, <2>3, <2>4 DEF LineAdded
<1>6. CASE LInterfere
  <2>1. /\ UNCHANGED <<att, lacked, lrow, lpoisoned, lwriter, linterrupted>>
        /\ lfile' = "changed"
        /\ ldisk' = ldisk \/ ldisk' = Append(ldisk, LStray)
        /\ ltorn' \in {ltorn, TRUE}
    BY <1>6 DEF LInterfere
  <2>2. LineAdded /\ FlagsTyped
    BY <1>1, <2>1 DEF LineAdded, FlagsTyped
  <2> QED
    BY <1>6, <2>1, <2>2 DEF Available
<1> QED
  BY <1>2, <1>3, <1>4, <1>5, <1>6 DEF LNext, RunStep

\* A step publishes a row, or leaves the acknowledged attempts as they are.
LEMMA LGrows ==
  ASSUME LTypeOK, RunPlace, [LNext]_lvars
  PROVE  /\ LinesKept /\ FlagsTyped
         /\ Publishes \/ UNCHANGED <<att, lacked>>
<1>1. CASE AppendIntent
  <2>1. lpc = "intent" /\ UNCHANGED aside
        /\ (Writes(IntentRow) \/ Publishes \/ Breaks(IntentRow)
              \/ Rejects(IntentRow))
    BY <1>1 DEF AppendIntent
  <2>2. IntentRow \in LRow
    BY <2>1, RowsOfRun DEF RunPlace
  <2>3. Publishes \/ UNCHANGED <<att, lacked>>
    BY <2>1 DEF Writes, Breaks, Rejects, book
  <2> QED
    BY <2>1, <2>2, <2>3, AppendAdds, LineAddedKept
<1>2. CASE AppendLaunched
  <2>1. lpc = "register" /\ UNCHANGED aside
        /\ (Writes(LaunchedRow) \/ Publishes \/ Breaks(LaunchedRow)
              \/ Rejects(LaunchedRow))
    BY <1>2 DEF AppendLaunched
  <2>2. LaunchedRow \in LRow
    BY <2>1, RowsOfRun DEF RunPlace
  <2>3. Publishes \/ UNCHANGED <<att, lacked>>
    BY <2>1 DEF Writes, Breaks, Rejects, book
  <2> QED
    BY <2>1, <2>2, <2>3, AppendAdds, LineAddedKept
<1>3. ASSUME NEW s \in Session, NEW ns \in Time, AppendReaped(s, ns)
      PROVE  /\ LinesKept /\ FlagsTyped
             /\ Publishes \/ UNCHANGED <<att, lacked>>
  <2> DEFINE r == ReapedRow(s, ns)
  <2>1. lpc = "reap" /\ UNCHANGED aside
        /\ (Writes(r) \/ Publishes \/ Breaks(r))
    BY <1>3 DEF AppendReaped
  <2>2. r \in LRow
    BY <2>1, RowsOfRun DEF RunPlace
  <2> HIDE DEF r
  <2>3. Publishes \/ UNCHANGED <<att, lacked>>
    BY <2>1 DEF Writes, Breaks
  <2> QED
    BY <2>1, <2>2, <2>3, AppendAdds, LineAddedKept
<1>4. CASE LCrash
  <2>1. UNCHANGED <<att, lacked>>
    BY <1>4 DEF LCrash
  <2> QED
    BY <1>4, <2>1, CrashAdds, LineAddedKept
<1>5. CASE ~AppendIntent /\ ~AppendLaunched /\ ~LCrash
           /\ ~ \E s \in Session, ns \in Time : AppendReaped(s, ns)
  BY <1>5, OthersAdd, LineAddedKept
<1> QED
  BY <1>1, <1>2, <1>3, <1>4, <1>5

-----------------------------------------------------------------------------
\* What publishing does to the attempts.

\* What every step below may rely on.
Grown == LInv /\ LinesKept /\ FlagsTyped

\* The types that remain to be shown of a step.
StepTyped ==
  /\ att' \in Seq(Attempt)
  /\ lpc' \in {"idle", "intent", "launch", "register", "finish", "cleanup",
              "reap"}
  /\ run' \in Run \cup {NoRun}
  /\ world' \in Seq(Process)

LEMMA TypesKept ==
  ASSUME LinesKept, FlagsTyped, StepTyped
  PROVE  LTypeOK'
BY DEF LinesKept, FlagsTyped, StepTyped, LTypeOK

\* Publishing takes the row that the attempts accept.
LEMMA PublishTakes ==
  ASSUME Grown, Publishes
  PROVE  /\ lrow \in LRow /\ LAccepts(att, lrow) /\ att' = LAfter(att, lrow)
         /\ lrow' = NoLRow
         /\ \E n \in 1 .. Len(ldisk) : ldisk[n] = lrow
BY DEF Grown, LInv, LTypeOK, Pending, Publishes

\* What was told stays told.
LEMMA ToldStays ==
  ASSUME LinesKept, ldisk \in Seq(LRow \cup {LStray}), NEW A, ToldIn(ldisk, A)
  PROVE  ToldIn(ldisk', A)
<1>1. Len(ldisk) \in Nat /\ Len(ldisk') \in Nat
  BY DEF LinesKept
<1>2. ASSUME NEW i \in 1 .. Len(A)
      PROVE  \E n \in 1 .. Len(ldisk') :
                ldisk'[n].kind = "INTENT" /\ ldisk'[n].aid = A[i].aid
  <2>1. PICK n \in 1 .. Len(ldisk) :
           ldisk[n].kind = "INTENT" /\ ldisk[n].aid = A[i].aid
    BY DEF ToldIn
  <2>2. n \in 1 .. Len(ldisk') /\ ldisk'[n] = ldisk[n]
    BY <1>1 DEF LinesKept
  <2> QED
    BY <2>1, <2>2
<1> QED
  BY <1>2 DEF ToldIn

\* A step that leaves the attempts alone leaves the book as it is.
LEMMA BookKept ==
  ASSUME Grown, att' = att
  PROVE  BookInv' /\ att' \in Seq(Attempt)
<1>1. /\ Distinct /\ Clocked /\ Named /\ Told /\ att \in Seq(Attempt)
      /\ ldisk \in Seq(LRow \cup {LStray}) /\ LinesKept
  BY DEF Grown, LInv, BookInv, LTypeOK
<1>2. ToldIn(ldisk', att)
  BY <1>1, ToldStays DEF Told
<1>3. Told'
  BY <1>2 DEF Told, ToldIn
<1>4. Distinct' /\ Clocked' /\ Named'
  BY <1>1 DEF Distinct, Clocked, Named
<1> QED
  BY <1>1, <1>3, <1>4 DEF BookInv

\* The intent is acknowledged: the attempts before it are finished, and the
\* new one has no process yet.
LEMMA IntentPublished ==
  ASSUME Grown, lpc = "intent", Publishes, lpc' = "launch",
         UNCHANGED <<run, lwriter, lfile, world, linterrupted>>
  PROVE  LInv'
<1> USE DEF Grown
<1> DEFINE r == lrow
           n == Len(att)
<1>1. run \in Run
  BY DEF LInv, WorldInv, RunPlace
<1>2. r \in LRow /\ r.kind = "INTENT" /\ r.aid = run.aid /\ r.ns = run.start
  <2>1. lrow # NoLRow /\ lrow = IntentRow
    BY DEF LInv, Pending, Publishes
  <2> QED
    BY <1>1, <2>1, RowsOfRun DEF IntentRow
<1>3. att \in Book /\ n \in Nat /\ ldisk \in Seq(LRow \cup {LStray})
  BY DEF LInv, LTypeOK, Book
<1>4. /\ LAccepts(att, r) /\ att' = LAfter(att, r) /\ lrow' = NoLRow
      /\ \E k \in 1 .. Len(ldisk) : ldisk[k] = r
  BY PublishTakes
<1> HIDE DEF r
<1> DEFINE e == att'[n + 1]
<1>5. /\ att' \in Book /\ Len(att') = n + 1
      /\ \A i \in 1 .. n : att'[i] = att[i]
      /\ e.aid = r.aid /\ e.phase = "INTENT"
      /\ e.session = r.session /\ e.start = r.ns /\ e.end = r.ns
      /\ e.ident = NoIdentity
      /\ ~ActiveIn(att)
      /\ \A i \in 1 .. n : att[i].aid # r.aid
      /\ att # <<>> => r.session = att[n].session /\ att[n].end <= r.ns
  BY <1>2, <1>3, <1>4, AfterIntent
<1> HIDE DEF e
<1>6. \A i \in 1 .. n : att[i].phase = "REAPED"
  <2>1. n # 0 => att[n].phase = "REAPED"
    BY <1>3, <1>5 DEF ActiveIn, Last, Book
  <2> QED
    BY <1>3, <2>1 DEF LInv, WorldInv, Followed
<1>7. \A i \in 1 .. n + 1 : i \in 1 .. n \/ i = n + 1
  BY <1>3
<1>8. Distinct' /\ Told'
  <2>1. ToldIn(ldisk', att)
    BY <1>3, ToldStays DEF LInv, BookInv, Told
  <2>2. PICK k \in 1 .. Len(ldisk') : ldisk'[k] = r
    <3>1. PICK m \in 1 .. Len(ldisk) : ldisk[m] = r
      BY <1>4
    <3> QED
      BY <1>3, <3>1 DEF LinesKept
  <2>3. ASSUME NEW i \in 1 .. n + 1
        PROVE  \E m \in 1 .. Len(ldisk') :
                  ldisk'[m].kind = "INTENT" /\ ldisk'[m].aid = att'[i].aid
    <3>1. CASE i = n + 1
      BY <1>2, <1>5, <2>2, <3>1 DEF e
    <3>2. CASE i \in 1 .. n
      BY <1>5, <2>1, <3>2 DEF ToldIn
    <3> QED
      BY <1>7, <3>1, <3>2
  <2>4. ASSUME NEW i \in 1 .. n + 1, NEW j \in 1 .. n + 1,
               att'[i].aid = att'[j].aid
        PROVE  i = j
    <3>1. CASE i \in 1 .. n /\ j \in 1 .. n
      BY <1>5, <2>4, <3>1 DEF LInv, BookInv, Distinct
    <3>2. CASE i = n + 1 /\ j \in 1 .. n
      BY <1>5, <2>4, <3>2 DEF e
    <3>3. CASE j = n + 1 /\ i \in 1 .. n
      BY <1>5, <2>4, <3>3 DEF e
    <3> QED
      BY <1>7, <3>1, <3>2, <3>3
  <2>5. Told'
    BY <1>5, <2>3 DEF Told, ToldIn
  <2> QED
    BY <1>5, <2>4, <2>5 DEF Distinct
<1>9. Clocked'
  <2>1. /\ \A i \in 1 .. n : att[i].start \in Nat /\ att[i].end \in Nat
        /\ r.ns \in Nat
    <3>1. \A i \in 1 .. n : att[i] \in Attempt
      BY <1>3 DEF Book
    <3>2. r.ns \in Time
      BY <1>1, <1>2 DEF Run
    <3> QED
      BY <3>1, <3>2, LifecycleAssumption DEF Attempt
  <2>2. ASSUME NEW i \in 1 .. n + 1
        PROVE  att'[i].start <= att'[i].end
    <3>1. CASE i = n + 1
      BY <1>5, <2>1, <3>1 DEF e
    <3>2. CASE i \in 1 .. n
      BY <1>5, <3>2 DEF LInv, BookInv, Clocked
    <3> QED
      BY <1>7, <3>1, <3>2
  <2>3. ASSUME NEW i \in 1 .. n
        PROVE  att[i].session = r.session /\ att[i].end <= r.ns
    <3>1. /\ n \in 1 .. n /\ r.session = att[n].session /\ att[n].end <= r.ns
          /\ att[n].start <= att[n].end
      BY <1>3, <1>5 DEF LInv, BookInv, Clocked, Book
    <3>2. CASE i = n
      BY <3>1, <3>2
    <3>3. CASE i < n
      <4>1. att[i].session = att[n].session /\ att[i].end <= att[n].start
        BY <3>1, <3>3 DEF LInv, BookInv, Clocked
      <4> QED
        BY <2>1, <3>1, <4>1
    <3> QED
      BY <1>3, <3>2, <3>3
  <2>4. ASSUME NEW i \in 1 .. n + 1, NEW j \in 1 .. n + 1, i < j
        PROVE  att'[i].session = att'[j].session /\ att'[i].end <= att'[j].start
    <3>1. i \in 1 .. n
      BY <1>3, <2>4
    <3>2. CASE j = n + 1
      BY <1>5, <2>3, <3>1, <3>2 DEF e
    <3>3. CASE j \in 1 .. n
      BY <1>5, <2>4, <3>1, <3>3 DEF LInv, BookInv, Clocked
    <3> QED
      BY <1>7, <3>2, <3>3
  <2> QED
    BY <1>5, <2>2, <2>4 DEF Clocked
<1>10. Named'
  <2>1. \A i \in 1 .. n : att[i].ident \in Identity
    BY <1>6 DEF LInv, BookInv, Named
  <2>2. NoIdentity \notin Identity
    BY LifecycleAssumption DEF Identity
  <2>3. ASSUME NEW i \in 1 .. n + 1
        PROVE  IF att'[i].phase = "INTENT" THEN att'[i].ident = NoIdentity
               ELSE att'[i].ident \in Identity
    <3>1. CASE i = n + 1
      BY <1>5, <3>1 DEF e
    <3>2. CASE i \in 1 .. n
      BY <1>5, <1>6, <2>1, <3>2
    <3> QED
      BY <1>7, <3>1, <3>2
  <2>4. ASSUME NEW i \in 1 .. n + 1, NEW j \in 1 .. n + 1, i < j
        PROVE  att'[i].ident # att'[j].ident
    <3>1. i \in 1 .. n
      BY <1>3, <2>4
    <3>2. CASE j = n + 1
      BY <1>5, <2>1, <2>2, <3>1, <3>2 DEF e
    <3>3. CASE j \in 1 .. n
      BY <1>5, <2>4, <3>1, <3>3 DEF LInv, BookInv, Named
    <3> QED
      BY <1>7, <3>2, <3>3
  <2> QED
    BY <1>5, <2>3, <2>4 DEF Named
<1>11. /\ Len(world) = n
       /\ \A i \in 1 .. n : world[i].aid = att[i].aid
  <2>1. Len(world) <= n /\ Len(world) \in Nat
    BY DEF LInv, WorldInv, Followed, LTypeOK
  <2>2. n # 0 => n <= Len(world)
    BY <1>3, <1>6 DEF LInv, WorldInv, Followed
  <2> QED
    BY <1>3, <2>1, <2>2 DEF LInv, WorldInv, Followed
<1>12. Followed'
  <2>1. ASSUME NEW i \in 1 .. n + 1
        PROVE  /\ att'[i].phase # "INTENT" => i <= Len(world)
               /\ i < n + 1 => att'[i].phase = "REAPED"
    <3>1. CASE i = n + 1
      BY <1>3, <1>5, <3>1 DEF e
    <3>2. CASE i \in 1 .. n
      BY <1>5, <1>6, <1>11, <3>2
    <3> QED
      BY <1>7, <3>1, <3>2
  <2> QED
    BY <1>3, <1>5, <1>11, <2>1 DEF Followed
<1>13. Finished'
  <2>1. ASSUME NEW i \in 1 .. n + 1, att'[i].phase = "REAPED"
        PROVE  world[i].handle /\ world[i].cleaned = "verified"
    <3>1. i \in 1 .. n
      BY <1>5, <1>7, <2>1 DEF e
    <3> QED
      BY <1>6, <3>1 DEF LInv, WorldInv, Finished
  <2> QED
    BY <1>5, <2>1 DEF Finished
<1>14. RunPlace'
  BY <1>1, <1>2, <1>3, <1>5, <1>11 DEF RunPlace, e
<1>15. LTypeOK'
  BY <1>1, <1>5, TypesKept DEF StepTyped, Book, LInv, LTypeOK
<1>16. Pending' /\ HandlesHeld'
  BY <1>4 DEF LInv, Pending, HandlesHeld
<1> QED
  BY <1>8, <1>9, <1>10, <1>12, <1>13, <1>14, <1>15, <1>16
     DEF LInv, BookInv, WorldInv

\* A row that touches only the last attempt, neither its announced name nor its
\* clock before the end, leaves every name announced and the clock in order.
LEMMA LastMoved ==
  ASSUME Grown, NEW n \in Nat \ {0}, n = Len(att), Len(att') = n,
         \A i \in 1 .. n : i # n => att'[i] = att[i],
         att'[n].aid = att[n].aid, att'[n].session = att[n].session,
         att'[n].start = att[n].start, att'[n].start <= att'[n].end
  PROVE  Distinct' /\ Told' /\ Clocked'
<1> USE DEF Grown
<1>1. ldisk \in Seq(LRow \cup {LStray})
  BY DEF LInv, LTypeOK
<1>2. \A i \in 1 .. n : att'[i].aid = att[i].aid
  <2>1. SUFFICES ASSUME NEW i \in 1 .. n PROVE att'[i].aid = att[i].aid
    OBVIOUS
  <2>2. CASE i = n
    BY <2>2
  <2>3. CASE i # n
    BY <2>3
  <2> QED
    BY <2>2, <2>3
<1>3. Distinct' /\ Told'
  <2>1. ToldIn(ldisk', att)
    BY <1>1, ToldStays DEF LInv, BookInv, Told
  <2>2. Told'
    BY <1>2, <2>1 DEF Told, ToldIn
  <2> QED
    BY <1>2, <2>2 DEF LInv, BookInv, Distinct
<1>4. Clocked'
  <2>1. ASSUME NEW i \in 1 .. n
        PROVE  /\ att'[i].session = att[i].session
               /\ att'[i].start = att[i].start
               /\ att'[i].start <= att'[i].end
               /\ i # n => att'[i].end = att[i].end
    <3>1. CASE i = n
      BY <3>1
    <3>2. CASE i # n
      BY <3>2 DEF LInv, BookInv, Clocked
    <3> QED
      BY <3>1, <3>2
  <2>2. ASSUME NEW i \in 1 .. n, NEW j \in 1 .. n, i < j
        PROVE  att'[i].session = att'[j].session /\ att'[i].end <= att'[j].start
    <3>1. i # n /\ att[i].session = att[j].session /\ att[i].end <= att[j].start
      BY <2>2 DEF LInv, BookInv, Clocked
    <3> QED
      BY <2>1, <3>1
  <2> QED
    BY <2>1, <2>2 DEF Clocked
<1> QED
  BY <1>3, <1>4

\* The process of the last attempt gets a name nobody had.
LEMMA LaunchedPublished ==
  ASSUME Grown, lpc = "register", Publishes, lpc' = "finish",
         UNCHANGED <<run, lwriter, lfile, world, linterrupted>>
  PROVE  LInv'
<1> USE DEF Grown
<1> DEFINE r == lrow
           n == Len(att)
<1>1. /\ run \in Run /\ att[n].aid = run.aid
      /\ Len(world) = n /\ world[Len(world)].handle
  BY DEF LInv, WorldInv, RunPlace
<1>2. r \in LRow /\ r.kind = "LAUNCHED"
  <2>1. lrow # NoLRow /\ lrow = LaunchedRow
    BY DEF LInv, Pending, Publishes
  <2> QED
    BY <1>1, <2>1, RowsOfRun
<1>3. att \in Book
  BY DEF LInv, LTypeOK, Book
<1> HIDE DEF r
<1>4. LAccepts(att, r) /\ att' = LAfter(att, r) /\ lrow' = NoLRow
  BY PublishTakes DEF r
<1>5. /\ att' \in Book /\ Len(att') = n /\ n \in Nat \ {0}
      /\ \A i \in 1 .. n : i # n => att'[i] = att[i]
      /\ att'[n].aid = att[n].aid /\ att'[n].phase = "LAUNCHED"
      /\ att'[n].session = att[n].session
      /\ att'[n].start = att[n].start /\ att'[n].end = att[n].end
      /\ att'[n].ident = r.ident /\ r.ident \in Identity
      /\ \A i \in 1 .. n : att[i].ident # r.ident
  BY <1>2, <1>3, <1>4, AfterLaunched
<1>6. Distinct' /\ Told' /\ Clocked'
  <2>1. att[n].start <= att[n].end
    BY <1>5 DEF LInv, BookInv, Clocked
  <2>2. att'[n].start <= att'[n].end
    BY <1>5, <2>1
  <2> QED
    BY <1>5, <2>2, LastMoved
<1>7. Named'
  <2>1. ASSUME NEW i \in 1 .. n
        PROVE  IF att'[i].phase = "INTENT" THEN att'[i].ident = NoIdentity
               ELSE att'[i].ident \in Identity
    <3>1. CASE i = n
      BY <1>5, <3>1
    <3>2. CASE i # n
      BY <1>5, <3>2 DEF LInv, BookInv, Named
    <3> QED
      BY <3>1, <3>2
  <2>2. ASSUME NEW i \in 1 .. n, NEW j \in 1 .. n, i < j
        PROVE  att'[i].ident # att'[j].ident
    <3>1. i # n /\ att'[i] = att[i]
      BY <1>5, <2>2
    <3>2. CASE j = n
      BY <1>5, <3>1, <3>2
    <3>3. CASE j # n
      BY <1>5, <2>2, <3>1, <3>3 DEF LInv, BookInv, Named
    <3> QED
      BY <3>2, <3>3
  <2> QED
    BY <1>5, <2>1, <2>2 DEF Named
<1>8. Followed'
  <2>1. ASSUME NEW i \in 1 .. n
        PROVE  /\ world[i].aid = att'[i].aid
               /\ i < n => att'[i].phase = "REAPED"
    <3>1. i \in 1 .. Len(world) /\ world[i].aid = att[i].aid
      BY <1>1 DEF LInv, WorldInv, Followed
    <3>2. CASE i = n
      BY <1>5, <3>1, <3>2
    <3>3. CASE i # n
      BY <1>5, <3>1, <3>3 DEF LInv, WorldInv, Followed
    <3> QED
      BY <3>2, <3>3
  <2> QED
    BY <1>1, <1>5, <2>1 DEF Followed
<1>9. Finished'
  <2>1. ASSUME NEW i \in 1 .. n, att'[i].phase = "REAPED"
        PROVE  world[i].handle /\ world[i].cleaned = "verified"
    <3>1. i # n /\ att[i].phase = "REAPED"
      BY <1>5, <2>1
    <3> QED
      BY <3>1 DEF LInv, WorldInv, Finished
  <2> QED
    BY <1>5, <2>1 DEF Finished
<1>10. RunPlace'
  BY <1>1, <1>5 DEF RunPlace
<1>11. LTypeOK'
  BY <1>1, <1>5, TypesKept DEF StepTyped, Book, LInv, LTypeOK
<1>12. Pending' /\ HandlesHeld'
  BY <1>4 DEF LInv, Pending, HandlesHeld
<1> QED
  BY <1>6, <1>7, <1>8, <1>9, <1>10, <1>11, <1>12 DEF LInv, BookInv, WorldInv

\* The end of the last attempt: its process has been cleaned up by now.
LEMMA ReapedPublished ==
  ASSUME Grown, lpc = "reap", Publishes, Leave,
         UNCHANGED <<lwriter, lfile, world, linterrupted>>
  PROVE  LInv'
<1> USE DEF Grown
<1> DEFINE r == lrow
           n == Len(att)
<1>1. /\ run \in Run /\ Len(world) = n
      /\ world[Len(world)].handle /\ world[Len(world)].cleaned = "verified"
  BY DEF LInv, WorldInv, RunPlace
<1>2. r \in LRow /\ r.kind = "REAPED"
  <2>1. PICK s \in Session, ns \in Time : lrow = ReapedRow(s, ns)
    BY DEF LInv, Pending, Publishes
  <2> QED
    BY <1>1, <2>1, RowsOfRun
<1>3. att \in Book
  BY DEF LInv, LTypeOK, Book
<1> HIDE DEF r
<1>4. LAccepts(att, r) /\ att' = LAfter(att, r) /\ lrow' = NoLRow
  BY PublishTakes DEF r
<1>5. /\ att' \in Book /\ Len(att') = n /\ n \in Nat \ {0}
      /\ \A i \in 1 .. n : i # n => att'[i] = att[i]
      /\ att'[n].aid = att[n].aid /\ att'[n].phase = "REAPED"
      /\ att'[n].session = att[n].session
      /\ att'[n].start = att[n].start /\ att'[n].end = r.ns
      /\ att'[n].ident = att[n].ident
      /\ att[n].phase = "LAUNCHED" /\ att[n].start <= r.ns
  BY <1>2, <1>3, <1>4, AfterReaped
<1>6. Distinct' /\ Told' /\ Clocked'
  BY <1>5, LastMoved
<1>7. Named'
  <2>1. \A i \in 1 .. n : att'[i].ident = att[i].ident
    <3>1. SUFFICES ASSUME NEW i \in 1 .. n PROVE att'[i].ident = att[i].ident
      OBVIOUS
    <3>2. CASE i = n
      BY <1>5, <3>2
    <3>3. CASE i # n
      BY <1>5, <3>3
    <3> QED
      BY <3>2, <3>3
  <2>2. ASSUME NEW i \in 1 .. n
        PROVE  IF att'[i].phase = "INTENT" THEN att'[i].ident = NoIdentity
               ELSE att'[i].ident \in Identity
    <3>1. CASE i = n
      BY <1>5, <3>1 DEF LInv, BookInv, Named
    <3>2. CASE i # n
      BY <1>5, <3>2 DEF LInv, BookInv, Named
    <3> QED
      BY <3>1, <3>2
  <2>3. \A i, j \in 1 .. n : i < j => att'[i].ident # att'[j].ident
    BY <2>1 DEF LInv, BookInv, Named
  <2> QED
    BY <1>5, <2>2, <2>3 DEF Named
<1>8. Followed' /\ Finished'
  <2>1. ASSUME NEW i \in 1 .. n
        PROVE  /\ world[i].aid = att'[i].aid
               /\ i < n => att'[i].phase = "REAPED"
               /\ att'[i].phase = "REAPED" =>
                     world[i].handle /\ world[i].cleaned = "verified"
    <3>1. i \in 1 .. Len(world) /\ world[i].aid = att[i].aid
      BY <1>1 DEF LInv, WorldInv, Followed
    <3>2. CASE i = n
      BY <1>1, <1>5, <3>1, <3>2
    <3>3. CASE i # n
      BY <1>5, <3>1, <3>3 DEF LInv, WorldInv, Followed, Finished
    <3> QED
      BY <3>2, <3>3
  <2> QED
    BY <1>1, <1>5, <2>1 DEF Followed, Finished
<1>9. RunPlace'
  BY DEF RunPlace, Leave
<1>10. LTypeOK'
  BY <1>5, TypesKept DEF StepTyped, Book, Leave, LInv, LTypeOK
<1>11. Pending' /\ HandlesHeld'
  <2>1. HandlesHeld'
    BY DEF LInv, HandlesHeld
  <2> QED
    BY <1>4, <2>1 DEF Pending
<1> QED
  BY <1>6, <1>7, <1>8, <1>9, <1>10, <1>11 DEF LInv, BookInv, WorldInv

-----------------------------------------------------------------------------
\* The steps of run().

\* A step that keeps the attempts has the processes to answer for.
LEMMA StepInv ==
  ASSUME Grown, att' = att, world' \in Seq(Process), run' \in Run \cup {NoRun},
         lpc' \in {"idle", "intent", "launch", "register", "finish", "cleanup",
                  "reap"},
         WorldInv', Pending', HandlesHeld'
  PROVE  LInv'
<1>1. BookInv' /\ att' \in Seq(Attempt)
  BY BookKept
<1>2. LTypeOK'
  BY <1>1, TypesKept DEF StepTyped, Grown
<1> QED
  BY <1>1, <1>2 DEF LInv

\* Leaving run() is always possible for what the processes promise, but where
\* a process waits for its cleanup only an interrupt or a death does so.
LEMMA LeaveInv ==
  ASSUME Grown, UNCHANGED <<att, world>>, Leave, lrow' = NoLRow,
         \/ lwriter' = "dead" \/ linterrupted'
         \/ /\ lpc \notin {"register", "finish", "cleanup"}
            /\ UNCHANGED <<lwriter, linterrupted>>
  PROVE  LInv'
<1>1. /\ world' \in Seq(Process) /\ lpc' = "idle" /\ run' = NoRun
  BY DEF Grown, LInv, LTypeOK, Leave
<1>2. WorldInv'
  BY <1>1 DEF Grown, LInv, WorldInv, Followed, Finished, RunPlace
<1>3. Pending'
  BY DEF Pending
<1>4. HandlesHeld'
  <2>1. CASE lwriter' = "dead" \/ linterrupted'
    BY <2>1 DEF HandlesHeld
  <2>2. CASE /\ lpc \notin {"register", "finish", "cleanup"}
             /\ UNCHANGED <<lwriter, linterrupted>>
    BY <2>2 DEF Grown, LInv, HandlesHeld
  <2> QED
    BY <2>1, <2>2
<1> QED
  BY <1>1, <1>2, <1>3, <1>4, StepInv

\* A row that is durable and checked waits for its publication.
LEMMA WritesInv ==
  ASSUME Grown, NEW r \in LRow, Writes(r), UNCHANGED <<lpc, run>>,
         UNCHANGED aside,
         \/ lpc = "intent" /\ r = IntentRow
         \/ lpc = "register" /\ r = LaunchedRow
         \/ lpc = "reap" /\ \E s \in Session, ns \in Time : r = ReapedRow(s, ns)
  PROVE  LInv'
<1>1. /\ att' = att /\ ldisk' = Append(ldisk, r) /\ lrow' = r
      /\ LAccepts(att, r)
      /\ UNCHANGED <<lpc, run, world, lwriter, linterrupted>>
  BY DEF Writes, aside
<1>2. /\ world' \in Seq(Process) /\ run' \in Run \cup {NoRun}
      /\ lpc' \in {"idle", "intent", "launch", "register", "finish", "cleanup",
                  "reap"}
      /\ ldisk \in Seq(LRow \cup {LStray})
  BY <1>1 DEF Grown, LInv, LTypeOK
<1>3. \E n \in 1 .. Len(ldisk') : ldisk'[n] = r
  <2>1. Len(ldisk) + 1 \in 1 .. Len(ldisk') /\ ldisk'[Len(ldisk) + 1] = r
    BY <1>1, <1>2
  <2> QED
    BY <2>1
<1>4. Pending'
  BY <1>1, <1>3 DEF Pending, IntentRow, LaunchedRow, ReapedRow
<1>5. WorldInv' /\ HandlesHeld'
  BY <1>1
     DEF Grown, LInv, WorldInv, Followed, Finished, RunPlace, HandlesHeld
<1> QED
  BY <1>1, <1>2, <1>4, <1>5, StepInv

\* The guards of run() pass: nothing is written or spawned yet.
LEMMA RunStartInv ==
  ASSUME Grown, NEW aid \in Aid, NEW p \in Profile, NEW s \in Session,
         NEW ns \in Time, RunStart(aid, p, s, ns)
  PROVE  LInv'
<1>1. /\ lpc = "idle" /\ lpc' = "intent"
      /\ UNCHANGED <<att, lrow, lwriter, world, linterrupted>>
      /\ run' = [aid |-> aid, profile |-> p, session |-> s, start |-> ns,
                 ident |-> NoIdentity, result |-> "OTHER", problem |-> FALSE]
  BY DEF RunStart, Goto, book, aside
<1>2. run' \in Run /\ world' \in Seq(Process)
  BY <1>1 DEF Run, Result, Grown, LInv, LTypeOK
<1>3. Pending' /\ HandlesHeld'
  BY <1>1 DEF Grown, LInv, Pending, HandlesHeld
<1>4. WorldInv'
  BY <1>1, <1>2 DEF Grown, LInv, WorldInv, Followed, Finished, RunPlace
<1> QED
  BY <1>1, <1>2, <1>3, <1>4, StepInv

\* The intent that is not acknowledged is the end of its run.
LEMMA AppendIntentInv ==
  ASSUME Grown, AppendIntent
  PROVE  LInv'
<1>1. lpc = "intent" /\ UNCHANGED aside
  BY DEF AppendIntent
<1>2. CASE Writes(IntentRow) /\ UNCHANGED <<lpc, run>>
  <2>1. IntentRow \in LRow
    BY <1>1, RowsOfRun DEF Grown, LInv, WorldInv, RunPlace
  <2> QED
    BY <1>1, <1>2, <2>1, WritesInv
<1>3. CASE Publishes /\ Goto("launch") /\ UNCHANGED run
  BY <1>1, <1>3, IntentPublished DEF Goto, aside
<1>4. CASE (Breaks(IntentRow) \/ Rejects(IntentRow)) /\ Leave
  <2>1. /\ att' = att /\ lrow' = NoLRow
        /\ UNCHANGED <<world, lwriter, linterrupted>>
    BY <1>1, <1>4 DEF Breaks, Rejects, book, aside
  <2> QED
    BY <1>1, <1>4, <2>1, LeaveInv
<1> QED
  BY <1>2, <1>3, <1>4 DEF AppendIntent

\* A launch gives the last attempt its process; every earlier one is reaped.
LEMMA SpawnedWorld ==
  ASSUME LInv, lpc = "launch", NEW h \in BOOLEAN, Spawned(h), att' = att
  PROVE  /\ Followed' /\ Finished'
         /\ world' \in Seq(Process)
         /\ Len(world') = Len(att) /\ Len(att) > 0
         /\ world'[Len(att)].handle = h
         /\ \A i \in 1 .. Len(world) : world'[i] = world[i]
<1> DEFINE p == [aid |-> run.aid, handle |-> h, cleaned |-> "no"]
           n == Len(att)
<1>1. /\ run \in Run /\ n > 0 /\ att[n].aid = run.aid
      /\ att[n].phase # "REAPED" /\ Len(world) + 1 = n
  BY DEF LInv, WorldInv, RunPlace
<1>2. world \in Seq(Process) /\ Len(world) \in Nat /\ n \in Nat
  BY DEF LInv, LTypeOK
<1>3. p \in Process /\ p.aid = run.aid /\ p.handle = h
  BY <1>1 DEF Run, Process
<1>4. world' = Append(world, p)
  BY DEF Spawned
<1> HIDE DEF p
<1>5. /\ world' \in Seq(Process) /\ Len(world') = n /\ world'[n] = p
      /\ \A i \in 1 .. Len(world) : world'[i] = world[i]
  BY <1>1, <1>2, <1>3, <1>4
<1>6. Followed'
  <2>1. ASSUME NEW i \in 1 .. n
        PROVE  world'[i].aid = att[i].aid
    <3>1. CASE i = n
      BY <1>1, <1>3, <1>5, <3>1
    <3>2. CASE i \in 1 .. Len(world)
      BY <1>5, <3>2 DEF LInv, WorldInv, Followed
    <3> QED
      BY <1>1, <1>2, <3>1, <3>2
  <2> QED
    BY <1>2, <1>5, <2>1 DEF LInv, WorldInv, Followed
<1>7. Finished'
  <2>1. ASSUME NEW i \in 1 .. n, att[i].phase = "REAPED"
        PROVE  world'[i].handle /\ world'[i].cleaned = "verified"
    <3>1. i \in 1 .. Len(world)
      BY <1>1, <1>2, <2>1
    <3> QED
      BY <1>5, <2>1, <3>1 DEF LInv, WorldInv, Finished
  <2> QED
    BY <2>1 DEF Finished
<1> QED
  BY <1>1, <1>3, <1>5, <1>6, <1>7

\* The backend returned a handle: the book is as it was.
LEMMA LaunchInv ==
  ASSUME Grown, NEW ident \in Identity \cup {NoIdentity}, Launch(ident)
  PROVE  LInv'
<1>1. /\ lpc = "launch" /\ lpc' = "register" /\ Spawned(TRUE)
      /\ UNCHANGED <<att, lrow, lwriter, linterrupted>>
      /\ run' = [run EXCEPT !.ident = ident]
  BY DEF Launch, Goto, book
<1>2. /\ run \in Run /\ Len(att) > 0 /\ att[Len(att)].aid = run.aid
      /\ att[Len(att)].phase # "REAPED" /\ Len(world) + 1 = Len(att)
      /\ world \in Seq(Process)
  BY <1>1 DEF Grown, LInv, LTypeOK, WorldInv, RunPlace
<1>3. run' \in Run /\ run'.aid = run.aid
  BY <1>1, <1>2 DEF Run
<1>4. /\ Followed' /\ Finished'
      /\ world' \in Seq(Process)
      /\ Len(world') = Len(att) /\ Len(att) > 0
      /\ world'[Len(att)].handle = TRUE
      /\ \A i \in 1 .. Len(world) : world'[i] = world[i]
  <2>1. TRUE \in BOOLEAN
    OBVIOUS
  <2> QED
    BY <1>1, <2>1, SpawnedWorld DEF Grown
<1>5. WorldInv'
  BY <1>1, <1>2, <1>3, <1>4 DEF RunPlace, WorldInv
<1>6. Pending'
  BY <1>1 DEF Grown, LInv, Pending
<1>7. HandlesHeld'
  <2>1. \A i \in 1 .. Len(world') : i \in 1 .. Len(world) \/ i = Len(world')
    BY <1>2, <1>4
  <2> QED
    BY <1>1, <1>4, <2>1 DEF Grown, LInv, HandlesHeld
<1> QED
  BY <1>1, <1>3, <1>4, <1>5, <1>6, <1>7, StepInv

\* It returned none, and may have left a process behind.
LEMMA LaunchFailsInv ==
  ASSUME Grown, LaunchFails
  PROVE  LInv'
<1>1. /\ lpc = "launch" /\ Leave
      /\ UNCHANGED <<att, lrow, lwriter, linterrupted>>
      /\ lrow = NoLRow
  BY DEF LaunchFails, book, Grown, LInv, Pending
<1>2. CASE UNCHANGED world
  BY <1>1, <1>2, LeaveInv
<1>3. CASE Spawned(FALSE)
  <2>1. /\ Followed' /\ Finished' /\ world' \in Seq(Process)
        /\ Len(world') = Len(att) /\ Len(world) + 1 = Len(att)
        /\ world'[Len(att)].handle = FALSE /\ Len(world) \in Nat
        /\ \A i \in 1 .. Len(world) : world'[i] = world[i]
    <3>1. FALSE \in BOOLEAN
      OBVIOUS
    <3>2. Len(world) + 1 = Len(att) /\ Len(world) \in Nat
      BY <1>1 DEF Grown, LInv, LTypeOK, WorldInv, RunPlace
    <3> QED
      BY <1>1, <1>3, <3>1, <3>2, SpawnedWorld DEF Grown
  <2>2. WorldInv'
    BY <1>1, <2>1 DEF RunPlace, Leave, WorldInv
  <2>3. Pending'
    BY <1>1 DEF Pending
  <2>4. HandlesHeld'
    <3>1. \A i \in 1 .. Len(world') : i \in 1 .. Len(world) \/ i = Len(att)
      BY <2>1
    <3> QED
      BY <1>1, <2>1, <3>1 DEF Grown, LInv, HandlesHeld
  <2> QED
    BY <1>1, <2>1, <2>2, <2>3, <2>4, StepInv DEF Leave
<1> QED
  BY <1>2, <1>3 DEF LaunchFails

\* A process nobody could register still has its handle, for the cleanup.
LEMMA ToCleanup ==
  ASSUME Grown, lpc = "register", lpc' = "cleanup", lrow' = NoLRow,
         UNCHANGED <<att, world, lwriter>>,
         run' = [run EXCEPT !.problem = TRUE], linterrupted => linterrupted'
  PROVE  LInv'
<1>1. run \in Run /\ world' \in Seq(Process)
  BY DEF Grown, LInv, LTypeOK, WorldInv, RunPlace
<1>2. run' \in Run /\ run'.aid = run.aid
  BY <1>1 DEF Run
<1>3. WorldInv'
  BY <1>2 DEF Grown, LInv, WorldInv, Followed, Finished, RunPlace
<1>4. Pending' /\ HandlesHeld'
  BY DEF Grown, LInv, Pending, HandlesHeld
<1> QED
  BY <1>1, <1>2, <1>3, <1>4, StepInv

LEMMA AppendLaunchedInv ==
  ASSUME Grown, AppendLaunched
  PROVE  LInv'
<1>1. lpc = "register" /\ UNCHANGED aside
  BY DEF AppendLaunched
<1>2. CASE Writes(LaunchedRow) /\ UNCHANGED <<lpc, run>>
  <2>1. LaunchedRow \in LRow
    BY <1>1, RowsOfRun DEF Grown, LInv, WorldInv, RunPlace
  <2> QED
    BY <1>1, <1>2, <2>1, WritesInv
<1>3. CASE Publishes /\ Goto("finish") /\ UNCHANGED run
  BY <1>1, <1>3, LaunchedPublished DEF Goto, aside
<1>4. CASE /\ Breaks(LaunchedRow) \/ Rejects(LaunchedRow)
           /\ run' = [run EXCEPT !.problem = TRUE]
           /\ Goto("cleanup")
  <2>1. /\ att' = att /\ lrow' = NoLRow /\ lpc' = "cleanup"
        /\ UNCHANGED <<world, lwriter, linterrupted>>
    BY <1>1, <1>4 DEF Breaks, Rejects, book, aside, Goto
  <2> QED
    BY <1>1, <1>4, <2>1, ToCleanup
<1> QED
  BY <1>2, <1>3, <1>4 DEF AppendLaunched

\* However finish() ends, the cleanup comes next.
LEMMA FinishedInv ==
  ASSUME Grown, lpc = "finish", lpc' = "cleanup", run' \in Run,
         run'.aid = run.aid,
         UNCHANGED <<att, lrow, lwriter, world, linterrupted>>
  PROVE  LInv'
<1>1. world' \in Seq(Process)
  BY DEF Grown, LInv, LTypeOK
<1>2. WorldInv'
  BY DEF Grown, LInv, WorldInv, Followed, Finished, RunPlace
<1>3. Pending' /\ HandlesHeld'
  BY DEF Grown, LInv, Pending, HandlesHeld
<1> QED
  BY <1>1, <1>2, <1>3, StepInv

\* finish() returns or raises.
LEMMA FinishInv ==
  ASSUME Grown, (\E result \in Result : Finish(result)) \/ FinishRaises
  PROVE  LInv'
<1>1. /\ lpc = "finish" /\ lpc' = "cleanup"
      /\ UNCHANGED <<att, lrow, lwriter, world, linterrupted>>
  BY DEF Finish, FinishRaises, Goto, book, aside
<1>2. run \in Run
  BY <1>1 DEF Grown, LInv, WorldInv, RunPlace
<1>3. run' \in Run /\ run'.aid = run.aid
  <2>1. CASE FinishRaises
    BY <1>2, <2>1 DEF FinishRaises, Run
  <2>2. CASE \E result \in Result : Finish(result)
    BY <1>2, <2>2 DEF Finish, Run
  <2> QED
    BY <2>1, <2>2
<1> QED
  BY <1>1, <1>3, FinishedInv

\* The cleanup marks the process of the last attempt, and nothing else.
LEMMA CleanedWorld ==
  ASSUME LInv, lpc = "cleanup", NEW how \in {"verified", "unverified"},
         Cleaned(how), att' = att
  PROVE  /\ Followed' /\ Finished'
         /\ world' \in Seq(Process) /\ Len(world') = Len(att)
         /\ world'[Len(att)].handle /\ world'[Len(att)].cleaned = how
         /\ Len(world) = Len(att)
         /\ \A i \in 1 .. Len(att) : i # Len(att) => world'[i] = world[i]
<1> DEFINE n == Len(world)
           p == [world[n] EXCEPT !.cleaned = how]
<1>1. /\ Len(att) > 0 /\ att[Len(att)].phase # "REAPED"
      /\ n = Len(att) /\ world[n].handle
  BY DEF LInv, WorldInv, RunPlace
<1>2. world \in Seq(Process) /\ world # <<>> /\ n \in Nat \ {0}
  BY <1>1 DEF LInv, LTypeOK
<1>3. world[n] \in Process
  BY <1>2
<1>4. p \in Process /\ p.aid = world[n].aid /\ p.handle /\ p.cleaned = how
  BY <1>1, <1>3 DEF Process
<1>5. world' = [world EXCEPT ![n] = p]
  BY DEF Cleaned
<1> HIDE DEF p
<1>6. /\ world' \in Seq(Process) /\ Len(world') = n /\ world'[n] = p
      /\ \A i \in 1 .. n : i # n => world'[i] = world[i]
  BY <1>2, <1>4, <1>5, LastReplaced
<1>7. Followed'
  <2>1. ASSUME NEW i \in 1 .. n
        PROVE  world'[i].aid = att[i].aid
    <3>1. world[i].aid = att[i].aid
      BY DEF LInv, WorldInv, Followed
    <3>2. CASE i = n
      BY <1>4, <1>6, <3>1, <3>2
    <3>3. CASE i # n
      BY <1>6, <3>1, <3>3
    <3> QED
      BY <3>2, <3>3
  <2> QED
    BY <1>1, <1>6, <2>1 DEF LInv, WorldInv, Followed
<1>8. Finished'
  <2>1. ASSUME NEW i \in 1 .. n, att[i].phase = "REAPED"
        PROVE  world'[i].handle /\ world'[i].cleaned = "verified"
    <3>1. i # n
      BY <1>1, <2>1
    <3> QED
      BY <1>1, <1>6, <2>1, <3>1 DEF LInv, WorldInv, Finished
  <2> QED
    BY <1>1, <2>1 DEF Finished
<1> QED
  BY <1>1, <1>4, <1>6, <1>7, <1>8

LEMMA CleanupInv ==
  ASSUME Grown, Cleanup
  PROVE  LInv'
<1>1. /\ lpc = "cleanup"
      /\ UNCHANGED <<att, lrow, lwriter, linterrupted>>
  BY DEF Cleanup, book
<1>2. PICK how \in {"verified", "unverified"} :
         /\ Cleaned(how)
         /\ \/ how = "verified" /\ lpc' = "reap" /\ UNCHANGED run
            \/ Leave
  BY DEF Cleanup, Goto
<1>3. /\ Followed' /\ Finished'
      /\ world' \in Seq(Process) /\ Len(world') = Len(att)
      /\ world'[Len(att)].handle /\ world'[Len(att)].cleaned = how
      /\ Len(world) = Len(att)
      /\ \A i \in 1 .. Len(att) : i # Len(att) => world'[i] = world[i]
  BY <1>1, <1>2, CleanedWorld DEF Grown
<1>4. lrow = NoLRow
  BY <1>1 DEF Grown, LInv, Pending
<1>5. Pending'
  BY <1>1, <1>4 DEF Pending
<1>6. HandlesHeld'
  <2> SUFFICES ASSUME lwriter # "dead", ~linterrupted,
                      NEW i \in 1 .. Len(att), world'[i].handle,
                      world'[i].cleaned = "no"
               PROVE  FALSE
    BY <1>1, <1>3 DEF HandlesHeld
  <2>1. CASE i = Len(att)
    BY <1>3, <2>1
  <2>2. CASE i # Len(att)
    BY <1>3, <2>2 DEF Grown, LInv, HandlesHeld
  <2> QED
    BY <2>1, <2>2
<1>7. CASE how = "verified" /\ lpc' = "reap" /\ UNCHANGED run
  <2>1. WorldInv' /\ run' \in Run \cup {NoRun}
    BY <1>1, <1>3, <1>7
       DEF Grown, LInv, LTypeOK, WorldInv, RunPlace
  <2> QED
    BY <1>1, <1>3, <1>5, <1>6, <1>7, <2>1, StepInv
<1>8. CASE Leave
  <2>1. WorldInv'
    BY <1>3, <1>8 DEF RunPlace, Leave, WorldInv
  <2> QED
    BY <1>1, <1>3, <1>5, <1>6, <1>8, <2>1, StepInv DEF Leave
<1> QED
  BY <1>2, <1>7, <1>8

LEMMA AppendReapedInv ==
  ASSUME Grown, NEW s \in Session, NEW ns \in Time, AppendReaped(s, ns)
  PROVE  LInv'
<1> DEFINE r == ReapedRow(s, ns)
<1>1. lpc = "reap" /\ UNCHANGED aside
  BY DEF AppendReaped
<1>2. CASE Writes(r) /\ UNCHANGED <<lpc, run>>
  <2>1. r \in LRow
    BY <1>1, RowsOfRun DEF Grown, LInv, WorldInv, RunPlace
  <2>2. \E t \in Session, m \in Time : r = ReapedRow(t, m)
    OBVIOUS
  <2> HIDE DEF r
  <2> QED
    BY <1>1, <1>2, <2>1, <2>2, WritesInv
<1>3. CASE Publishes /\ Leave
  BY <1>1, <1>3, ReapedPublished DEF aside
<1>4. CASE Breaks(r) /\ Leave
  <2>1. /\ att' = att /\ lrow' = NoLRow
        /\ UNCHANGED <<world, lwriter, linterrupted>>
    BY <1>1, <1>4 DEF Breaks, aside
  <2> QED
    BY <1>1, <1>4, <2>1, LeaveInv
<1> QED
  BY <1>2, <1>3, <1>4 DEF AppendReaped

-----------------------------------------------------------------------------
\* What falls between the steps of run().

\* An interrupt leaves a row, or a process, to nobody; only while a process
\* is being registered does run() still clean it up.
LEMMA InterruptInv ==
  ASSUME Grown, InterruptAppend \/ InterruptRun
  PROVE  LInv'
<1>1. /\ linterrupted' = TRUE /\ lrow' = NoLRow
      /\ UNCHANGED <<att, world, lwriter>>
  BY DEF InterruptAppend, InterruptRun, book
<1>2. CASE Leave
  BY <1>1, <1>2, LeaveInv
<1>3. CASE ~Leave
  <2>1. /\ lpc = "register" /\ lpc' = "cleanup"
        /\ run' = [run EXCEPT !.problem = TRUE]
    BY <1>3 DEF InterruptAppend, InterruptRun, Goto
  <2> QED
    BY <1>1, <2>1, ToCleanup
<1> QED
  BY <1>2, <1>3

\* A snapshot, a close(), a change of the file and a poisoning from outside
\* touch neither attempts nor processes.
LEMMA AsideInv ==
  ASSUME Grown, UNCHANGED <<att, lrow, lpc, run, world, linterrupted>>,
         lwriter' = lwriter \/ lwriter # "dead"
  PROVE  LInv'
<1>1. /\ world' \in Seq(Process) /\ run' \in Run \cup {NoRun}
      /\ lpc' \in {"idle", "intent", "launch", "register", "finish",
                  "cleanup", "reap"}
  BY DEF Grown, LInv, LTypeOK
<1>2. WorldInv' /\ HandlesHeld'
  BY DEF Grown, LInv, WorldInv, Followed, Finished, RunPlace, HandlesHeld
<1>3. Pending'
  <2> SUFFICES ASSUME lrow # NoLRow PROVE Pending'
    BY DEF Pending
  <2>1. /\ LAccepts(att, lrow)
        /\ \/ lpc = "intent" /\ lrow = IntentRow
           \/ lpc = "register" /\ lrow = LaunchedRow
           \/ /\ lpc = "reap"
              /\ \E s \in Session, ns \in Time : lrow = ReapedRow(s, ns)
    BY DEF Grown, LInv, Pending
  <2>2. PICK n \in 1 .. Len(ldisk) : ldisk[n] = lrow
    BY DEF Grown, LInv, Pending
  <2>3. n \in 1 .. Len(ldisk') /\ ldisk'[n] = lrow
    BY <2>2 DEF Grown, LInv, LTypeOK, LinesKept
  <2> QED
    BY <2>1, <2>3 DEF Pending, IntentRow, LaunchedRow, ReapedRow
<1> QED
  BY <1>1, <1>2, <1>3, StepInv

LEMMA LRunStepInv ==
  ASSUME Grown, RunStep
  PROVE  LInv'
<1>1. CASE AppendIntent
  BY <1>1, AppendIntentInv
<1>2. CASE \E ident \in Identity \cup {NoIdentity} : Launch(ident)
  BY <1>2, LaunchInv
<1>3. CASE LaunchFails
  BY <1>3, LaunchFailsInv
<1>4. CASE AppendLaunched
  BY <1>4, AppendLaunchedInv
<1>5. CASE (\E result \in Result : Finish(result)) \/ FinishRaises
  BY <1>5, FinishInv
<1>6. CASE Cleanup
  BY <1>6, CleanupInv
<1>7. CASE \E s \in Session, ns \in Time : AppendReaped(s, ns)
  BY <1>7, AppendReapedInv
<1>8. CASE ReapRaises
  <2>1. /\ UNCHANGED <<att, lwriter, world, linterrupted>> /\ lrow' = NoLRow
        /\ lpc \notin {"register", "finish", "cleanup"} /\ Leave
    BY <1>8 DEF ReapRaises, book, aside
  <2> QED
    BY <2>1, LeaveInv
<1> QED
  BY <1>1, <1>2, <1>3, <1>4, <1>5, <1>6, <1>7, <1>8 DEF RunStep

LEMMA LNextInv ==
  ASSUME LInv, [LNext]_lvars
  PROVE  LInv'
<1>1. Grown
  BY LGrows DEF Grown, LInv, WorldInv
<1>2. CASE \E aid \in Aid, p \in Profile, s \in Session, ns \in Time :
             RunStart(aid, p, s, ns)
  BY <1>1, <1>2, RunStartInv
<1>3. CASE RunStep
  BY <1>1, <1>3, LRunStepInv
<1>4. CASE InterruptAppend \/ InterruptRun
  BY <1>1, <1>4, InterruptInv
<1>5. CASE LSnapshot \/ LClose \/ LInterfere \/ UNCHANGED lvars
  <2>1. /\ UNCHANGED <<att, lrow, lpc, run, world, linterrupted>>
        /\ lwriter' = lwriter \/ lwriter # "dead"
    BY <1>5 DEF LSnapshot, LClose, LInterfere, lvars, book, aside
  <2> QED
    BY <1>1, <2>1, AsideInv
<1>6. CASE LCrash
  <2>1. UNCHANGED <<att, world>> /\ Leave /\ lrow' = NoLRow /\ lwriter' = "dead"
    BY <1>6 DEF LCrash
  <2> QED
    BY <1>1, <2>1, LeaveInv
<1> QED
  BY <1>2, <1>3, <1>4, <1>5, <1>6 DEF LNext

\* Whoever finds a changed file may poison the journal, and no more.
LEMMA LPoisonInv ==
  ASSUME LInv, lpoisoned' \in BOOLEAN,
         UNCHANGED <<att, lacked, lwriter, lpc, run, lrow, ldisk, ltorn, lfile,
                     world, linterrupted>>
  PROVE  LInv'
<1>1. LinesKept /\ FlagsTyped
  BY DEF LInv, LTypeOK, LinesKept, FlagsTyped
<1> QED
  BY <1>1, AsideInv DEF Grown

\* A finish() that its caller refuses, behind a check that may have poisoned
\* the journal, raises like any other.
LEMMA LRefusedInv ==
  ASSUME LInv, lpoisoned' \in BOOLEAN, lpc = "finish", Goto("cleanup"),
         run' = [run EXCEPT !.problem = TRUE],
         UNCHANGED <<att, lacked, lwriter, lrow, ldisk, ltorn, lfile, world,
                     linterrupted>>
  PROVE  LInv'
<1>1. LinesKept /\ FlagsTyped
  BY DEF LInv, LTypeOK, LinesKept, FlagsTyped
<1>2. run \in Run
  BY DEF LInv, WorldInv, RunPlace
<1>3. run' \in Run /\ run'.aid = run.aid
  BY <1>2 DEF Run
<1> QED
  BY <1>1, <1>3, FinishedInv DEF Grown, Goto

-----------------------------------------------------------------------------
\* How the attempts change.

\* No attempt changes what its INTENT said of it, and a reaped one changes in
\* nothing.
AttemptsKept ==
  \A i \in 1 .. Len(att) :
     /\ att'[i].aid = att[i].aid
     /\ att'[i].profile = att[i].profile
     /\ att'[i].session = att[i].session
     /\ att[i].phase = "REAPED" => att'[i] = att[i]

\* The attempt of the run under way is added.
AttemptAdded ==
  /\ lpc = "intent" /\ lpc' = "launch" /\ Publishes /\ lrow = IntentRow
  /\ Len(att') = Len(att) + 1
  /\ att'[Len(att) + 1].aid = run.aid
  /\ att'[Len(att) + 1].profile = run.profile
  /\ att'[Len(att) + 1].session = run.session

\* An attempt is added by the INTENT of the run under way, and no step alters
\* another.
LEMMA OnlyIntentAdds ==
  ASSUME LInv, [LNext]_lvars
  PROVE  AttemptsKept /\ (Len(att') = Len(att) \/ AttemptAdded)
<1>1. att \in Book
  BY DEF LInv, LTypeOK, Book
<1>2. Grown /\ (Publishes \/ UNCHANGED <<att, lacked>>)
  BY LGrows DEF Grown, LInv, WorldInv
<1>3. CASE att' = att
  BY <1>3 DEF AttemptsKept
<1>4. CASE Publishes
  <2> DEFINE r == lrow
  <2>1. r \in LRow /\ LAccepts(att, r) /\ att' = LAfter(att, r) /\ r # NoLRow
    BY <1>2, <1>4, PublishTakes DEF Publishes
  <2>2. \/ lpc = "intent" /\ r = IntentRow
        \/ lpc = "register" /\ r = LaunchedRow
        \/ /\ lpc = "reap"
           /\ \E s \in Session, ns \in Time : r = ReapedRow(s, ns)
    BY <2>1 DEF LInv, Pending
  <2>3. run \in Run
    BY <2>2 DEF LInv, WorldInv, RunPlace
  <2>4. ASSUME r.kind \in {"LAUNCHED", "REAPED"}
        PROVE  Len(att') = Len(att) /\ AttemptsKept
    <3> HIDE DEF r
    <3>1. LET n == Len(att)
          IN  /\ Len(att') = n
              /\ \A i \in 1 .. n : i # n => att'[i] = att[i]
              /\ att'[n].aid = att[n].aid
              /\ att'[n].profile = att[n].profile
              /\ att'[n].session = att[n].session
              /\ att[n].phase # "REAPED"
      <4>1. CASE r.kind = "LAUNCHED"
        BY <1>1, <2>1, <4>1, AfterLaunched
      <4>2. CASE r.kind = "REAPED"
        BY <1>1, <2>1, <4>2, AfterReaped
      <4> QED
        BY <2>4, <4>1, <4>2
    <3> QED
      BY <3>1 DEF AttemptsKept
  <2>5. CASE lpc = "intent" /\ r = IntentRow
    <3>1. /\ r.kind = "INTENT" /\ r.aid = run.aid
          /\ r.profile = run.profile /\ r.session = run.session
      BY <2>3, <2>5, RowsOfRun
    <3>2. lpc' = "launch"
      <4>1. lacked' # lacked
        BY <1>4 DEF Publishes, LInv, LTypeOK
      <4>2. AppendIntent \/ AppendLaunched \/ LCrash
            \/ \E s \in Session, ns \in Time : AppendReaped(s, ns)
        BY <4>1, OthersAdd DEF LInv
      <4>3. AppendIntent
        BY <2>5, <4>1, <4>2 DEF AppendLaunched, LCrash, AppendReaped
      <4> QED
        BY <4>1, <4>3 DEF AppendIntent, Writes, Breaks, Rejects, Goto, book
    <3>4. Publishes /\ lrow = IntentRow /\ lpc = "intent"
      BY <1>4, <2>5
    <3> HIDE DEF r
    <3>3. /\ Len(att') = Len(att) + 1
          /\ \A i \in 1 .. Len(att) : att'[i] = att[i]
          /\ att'[Len(att) + 1].aid = r.aid
          /\ att'[Len(att) + 1].profile = r.profile
          /\ att'[Len(att) + 1].session = r.session
      BY <1>1, <2>1, <3>1, AfterIntent
    <3> QED
      BY <3>1, <3>2, <3>3, <3>4 DEF AttemptsKept, AttemptAdded
  <2>6. CASE lpc = "register" /\ r = LaunchedRow
    BY <2>3, <2>4, <2>6, RowsOfRun
  <2>7. CASE \E s \in Session, ns \in Time : r = ReapedRow(s, ns)
    BY <2>3, <2>4, <2>7, RowsOfRun
  <2> QED
    BY <2>2, <2>5, <2>6, <2>7
<1> QED
  BY <1>2, <1>3, <1>4

-----------------------------------------------------------------------------
\* The file, as long as no interrupt keeps a row of it from the attempts.

\* What run() may still do after an interrupt: clean up.
LSteady ==
  linterrupted =>
     /\ lrow = NoLRow
     /\ lpc = "idle" \/ (lpc \in {"cleanup", "reap"} /\ run.problem)

\* The acknowledged rows replay to the attempts.  Past them there is at most
\* one row of the writer, which the attempts accept, and one line of others.
Stored ==
  /\ lacked <= Len(ldisk) /\ Len(ldisk) <= lacked + 2
  /\ lfile = "own" => Len(ldisk) <= lacked + 1
  /\ lrow = NoLRow /\ Available /\ ~linterrupted =>
        \/ Len(ldisk) = lacked
        \/ /\ Len(ldisk) = lacked + 1 /\ ldisk[lacked + 1] = LStray
           /\ lfile = "changed"
  /\ lrow # NoLRow => Len(ldisk) >= lacked + 1 /\ ldisk[lacked + 1] = lrow
  /\ Len(ldisk) >= lacked + 1 =>
        ldisk[lacked + 1] = LStray \/ LAccepts(att, ldisk[lacked + 1])
  /\ Len(ldisk) = lacked + 2 => LStray \in {ldisk[lacked + 1], ldisk[lacked + 2]}

LReplayed == LReplay(SubSeq(ldisk, 1, lacked)) = {att}

\* Every attempt was announced by an acknowledged row.
Announced ==
  \A i \in 1 .. Len(att) : \E n \in 1 .. lacked :
     ldisk[n].kind = "INTENT" /\ ldisk[n].aid = att[i].aid

LFile == Stored /\ LReplayed /\ Announced

LEMMA LInitFile == LInit => LFile
<1> SUFFICES ASSUME LInit PROVE LFile
  OBVIOUS
<1>1. /\ att = <<>> /\ Len(att) = 0 /\ ldisk = <<>> /\ Len(ldisk) = 0
      /\ lacked = 0 /\ lrow = NoLRow
  BY DEF LInit
<1>2. SubSeq(ldisk, 1, lacked) = <<>>
  BY <1>1
<1>3. LReplayed
  BY <1>1, <1>2, LReplayEmpty, Zenon DEF LReplayed
<1>4. Stored /\ Announced
  BY <1>1 DEF Stored, Announced
<1> QED
  BY <1>3, <1>4 DEF LFile

\* A published row is the first past the acknowledged ones, and moves the book.
LEMMA PublishStored ==
  ASSUME Grown, LFile, Publishes, UNCHANGED <<lfile, lwriter, linterrupted>>
  PROVE  /\ Stored' /\ LReplayed' /\ lacked' = lacked + 1
         /\ Len(ldisk) >= lacked + 1 /\ ldisk[lacked + 1] = lrow /\ ldisk' = ldisk
<1>1. /\ lrow \in LRow /\ LAccepts(att, lrow) /\ att' = LAfter(att, lrow)
      /\ lrow' = NoLRow
  BY PublishTakes
<1>2. /\ ldisk \in Seq(LRow \cup {LStray}) /\ lacked \in Nat /\ lrow # NoLRow
      /\ lacked' = lacked + 1 /\ UNCHANGED <<ldisk, lpoisoned>>
  BY DEF Grown, LInv, LTypeOK, Publishes
<1>3. /\ Len(ldisk) >= lacked + 1 /\ ldisk[lacked + 1] = lrow
      /\ Len(ldisk) <= lacked + 2 /\ Len(ldisk) \in Nat
      /\ lfile = "own" => Len(ldisk) <= lacked + 1
      /\ Len(ldisk) = lacked + 2 =>
            LStray \in {ldisk[lacked + 1], ldisk[lacked + 2]}
  BY <1>2 DEF LFile, Stored
<1>4. lrow # LStray
  BY <1>1 DEF LRow, LStray
<1>5. Len(ldisk) = lacked + 1 \/ Len(ldisk) = lacked + 2
  BY <1>2, <1>3
<1>6. Stored'
  <2>1. CASE Len(ldisk) = lacked + 1
    BY <1>1, <1>2, <1>3, <2>1 DEF Stored
  <2>2. CASE Len(ldisk) = lacked + 2
    <3>1. ldisk[lacked + 2] = LStray /\ lfile # "own"
      BY <1>2, <1>3, <1>4, <2>2
    <3>2. /\ lacked + 1 + 1 = lacked + 2 /\ Len(ldisk) = lacked' + 1
          /\ ldisk'[lacked' + 1] = LStray /\ lfile' = "changed"
      BY <1>2, <2>2, <3>1 DEF Grown, LInv, LTypeOK
    <3> QED
      BY <1>1, <1>2, <2>2, <3>2 DEF Stored
  <2> QED
    BY <1>5, <2>1, <2>2
<1>7. LReplayed'
  <2> DEFINE old == SubSeq(ldisk, 1, lacked)
             r == lrow
  <2>1. /\ old \in Seq(LRow \cup {LStray})
        /\ SubSeq(ldisk, 1, lacked + 1) = Append(old, r)
    BY <1>2, <1>3
  <2>2. LReplay(old) = {att}
    BY DEF LFile, LReplayed
  <2>3. r \in LRow \cup {LStray} /\ LAccepts(att, r) /\ att' = LAfter(att, r)
    BY <1>1
  <2> HIDE DEF old, r
  <2>4. LReplay(Append(old, r)) = LMoved(LReplay(old), r)
    BY <2>1, <2>3, LReplayAppend
  <2>5. LMoved({att}, r) = {att'}
    BY <2>3 DEF LMoved
  <2>6. SubSeq(ldisk', 1, lacked') = Append(old, r)
    BY <1>2, <2>1
  <2> QED
    BY <2>2, <2>4, <2>5, <2>6, Zenon DEF LReplayed
<1> QED
  BY <1>2, <1>3, <1>6, <1>7

\* A line past the acknowledged rows does not touch what they replay to.
LEMMA LReplayedKept ==
  ASSUME Grown, LFile, UNCHANGED <<att, lacked>>
  PROVE  LReplayed' /\ Announced'
<1>1. /\ ldisk \in Seq(LRow \cup {LStray}) /\ lacked \in Nat
      /\ lacked <= Len(ldisk) /\ Len(ldisk) \in Nat
      /\ ldisk' \in Seq(LRow \cup {LStray}) /\ Len(ldisk) <= Len(ldisk')
      /\ Len(ldisk') \in Nat
      /\ \A n \in 1 .. Len(ldisk) : ldisk'[n] = ldisk[n]
  BY DEF Grown, LInv, LTypeOK, LinesKept, LFile, Stored
<1>2. \A n \in 1 .. lacked : ldisk'[n] = ldisk[n]
  BY <1>1
<1>3. SubSeq(ldisk', 1, lacked') = SubSeq(ldisk, 1, lacked)
  BY <1>1, <1>2
<1>4. LReplayed'
  BY <1>3, Zenon DEF LFile, LReplayed
<1>5. Announced'
  BY <1>2 DEF LFile, Announced
<1> QED
  BY <1>4, <1>5

\* A row the try block leaves in the file is the first past the acknowledged
\* ones, unless somebody else was there before it.
LEMMA RowStored ==
  ASSUME Grown, LFile, lrow = NoLRow, Available, ~linterrupted,
         NEW r \in LRow, LAccepts(att, r), ldisk' = Append(ldisk, r),
         UNCHANGED <<att, lacked, lfile, linterrupted>>,
         \/ lfile = "own" /\ lrow' = r
         \/ lrow' = NoLRow /\ ~Available'
  PROVE  Stored'
<1>1. /\ ldisk \in Seq(LRow \cup {LStray}) /\ lacked \in Nat
      /\ ldisk' \in Seq(LRow \cup {LStray})
      /\ Len(ldisk') = Len(ldisk) + 1 /\ ldisk'[Len(ldisk) + 1] = r
      /\ \A n \in 1 .. Len(ldisk) : ldisk'[n] = ldisk[n]
      /\ Len(ldisk) \in Nat
  BY DEF Grown, LInv, LTypeOK
<1>2. \/ Len(ldisk) = lacked
      \/ /\ Len(ldisk) = lacked + 1 /\ ldisk[lacked + 1] = LStray
         /\ lfile = "changed"
  BY DEF LFile, Stored
<1>3. CASE Len(ldisk) = lacked
  <2>1. /\ Len(ldisk') = lacked + 1 /\ ldisk'[lacked + 1] = r
        /\ lacked + 1 # lacked /\ lacked + 1 # lacked + 2
    BY <1>1, <1>3
  <2>2. LAccepts(att', ldisk'[lacked' + 1])
    BY <2>1
  <2>3. CASE lfile = "own" /\ lrow' = r
    <3>1. r # NoLRow
      BY DEF LRow, NoLRow
    <3> QED
      BY <1>1, <2>1, <2>2, <2>3, <3>1 DEF Stored
  <2>4. CASE lrow' = NoLRow /\ ~Available'
    BY <1>1, <2>1, <2>2, <2>4 DEF Stored
  <2> QED
    BY <2>3, <2>4
<1>4. CASE /\ Len(ldisk) = lacked + 1 /\ ldisk[lacked + 1] = LStray
           /\ lfile = "changed"
  <2>1. /\ Len(ldisk') = lacked + 2 /\ ldisk'[lacked + 1] = LStray
        /\ lrow' = NoLRow /\ ~Available'
    BY <1>1, <1>4
  <2> QED
    BY <1>1, <1>4, <2>1 DEF Stored
<1> QED
  BY <1>2, <1>3, <1>4

\* The try block of an append, at a place where run() is when nothing has been
\* interrupted.
LEMMA AppendStored ==
  ASSUME Grown, LFile, ~linterrupted, NEW r \in LRow,
         Writes(r) \/ Publishes \/ Breaks(r) \/ Rejects(r), UNCHANGED aside
  PROVE  Stored'
<1>1. UNCHANGED <<lwriter, lfile, linterrupted>>
  BY DEF aside
<1>2. CASE Writes(r)
  BY <1>1, <1>2, RowStored DEF Writes
<1>3. CASE Publishes
  BY <1>1, <1>3, PublishStored
<1>4. CASE Rejects(r)
  <2>1. UNCHANGED <<att, lacked, lrow, ldisk, lpoisoned>>
    BY <1>4 DEF Rejects, book
  <2> QED
    BY <1>1, <2>1 DEF LFile, Stored, Available
<1>5. CASE Breaks(r)
  <2>1. /\ lrow = NoLRow /\ Available /\ LAccepts(att, r) /\ lpoisoned' = TRUE
        /\ UNCHANGED <<att, lacked, lrow>>
    BY <1>5 DEF Breaks
  <2>2. ~Available'
    BY <2>1 DEF Available
  <2>3. CASE ldisk' = Append(ldisk, r)
    BY <1>1, <2>1, <2>2, <2>3, RowStored
  <2>4. CASE ldisk' = ldisk
    BY <1>1, <2>1, <2>2, <2>4 DEF LFile, Stored
  <2> QED
    BY <1>5, <2>3, <2>4 DEF Breaks
<1> QED
  BY <1>2, <1>3, <1>4, <1>5

LEMMA InterfereStored ==
  ASSUME Grown, LFile, LInterfere
  PROVE  Stored'
<1>1. /\ lfile = "own" /\ lfile' = "changed"
      /\ UNCHANGED <<att, lacked, lrow, lpoisoned, lwriter, linterrupted>>
      /\ ldisk' = ldisk \/ ldisk' = Append(ldisk, LStray)
  BY DEF LInterfere
<1>2. /\ ldisk \in Seq(LRow \cup {LStray}) /\ lacked \in Nat
      /\ lacked <= Len(ldisk) /\ Len(ldisk) <= lacked + 1 /\ Len(ldisk) \in Nat
      /\ Available' = Available
  BY <1>1 DEF Grown, LInv, LTypeOK, LFile, Stored, Available
<1>3. CASE ldisk' = ldisk
  BY <1>1, <1>2, <1>3 DEF LFile, Stored
<1>4. CASE ldisk' = Append(ldisk, LStray)
  <2>1. /\ Len(ldisk') = Len(ldisk) + 1 /\ ldisk'[Len(ldisk) + 1] = LStray
        /\ \A n \in 1 .. Len(ldisk) : ldisk'[n] = ldisk[n]
    BY <1>2, <1>4
  <2>2. CASE Len(ldisk) = lacked
    BY <1>1, <1>2, <2>1, <2>2 DEF LFile, Stored
  <2>3. CASE Len(ldisk) = lacked + 1
    <3>1. Len(ldisk') = lacked + 2 /\ ldisk'[lacked + 2] = LStray
          /\ ldisk'[lacked + 1] = ldisk[lacked + 1]
      BY <1>2, <2>1, <2>3
    <3>2. ~(lrow = NoLRow /\ Available /\ ~linterrupted)
      BY <1>1, <1>2, <2>3 DEF LFile, Stored
    <3> QED
      BY <1>1, <1>2, <2>3, <3>1, <3>2 DEF LFile, Stored
  <2> QED
    BY <1>2, <2>2, <2>3
<1> QED
  BY <1>1, <1>3, <1>4

LEMMA CrashStored ==
  ASSUME Grown, LFile, LSteady, LCrash
  PROVE  Stored'
<1>1. /\ lwriter' = "dead" /\ lrow' = NoLRow
      /\ UNCHANGED <<att, lacked, lpoisoned, lfile, linterrupted>>
  BY DEF LCrash
<1>2. ~Available'
  BY <1>1 DEF Available
<1>3. CASE ldisk' = ldisk
  BY <1>1, <1>2, <1>3 DEF LFile, Stored
<1>4. CASE ldisk' # ldisk
  <2>1. /\ lrow = NoLRow /\ Available /\ lpc \in {"intent", "register", "reap"}
        /\ lpc = "reap" => ~run.problem
    BY <1>4 DEF LCrash
  <2>2. ~linterrupted
    BY <2>1 DEF LSteady
  <2>3. run \in Run
    BY <2>1 DEF Grown, LInv, WorldInv, RunPlace
  <2>4. \E r \in LRow : LAccepts(att, r) /\ ldisk' = Append(ldisk, r)
    <3>1. CASE lpc \in {"intent", "register"}
      <4>1. PICK r \in {IntentRow, LaunchedRow} :
               LAccepts(att, r) /\ ldisk' = Append(ldisk, r)
        BY <1>4, <3>1 DEF LCrash
      <4> QED
        BY <2>3, <4>1, RowsOfRun
    <3>2. CASE lpc = "reap"
      <4>1. PICK s \in Session, ns \in Time :
               /\ LAccepts(att, ReapedRow(s, ns))
               /\ ldisk' = Append(ldisk, ReapedRow(s, ns))
        BY <1>4, <3>2 DEF LCrash
      <4> QED
        BY <2>3, <4>1, RowsOfRun
    <3> QED
      BY <2>1, <3>1, <3>2
  <2> QED
    BY <1>1, <1>2, <2>1, <2>2, <2>4, RowStored
<1> QED
  BY <1>3, <1>4

LEMMA StoredStep ==
  ASSUME Grown, LFile, LSteady, [LNext]_lvars
  PROVE  Stored'
<1>1. lpc # "idle" => run \in Run
  BY DEF Grown, LInv, WorldInv, RunPlace
<1>2. CASE AppendIntent
  <2>1. /\ lpc = "intent" /\ UNCHANGED aside
        /\ \/ Writes(IntentRow) \/ Publishes
           \/ Breaks(IntentRow) \/ Rejects(IntentRow)
    BY <1>2 DEF AppendIntent
  <2>2. ~linterrupted /\ IntentRow \in LRow
    BY <1>1, <2>1, RowsOfRun DEF LSteady
  <2> QED
    BY <2>1, <2>2, AppendStored
<1>3. CASE AppendLaunched
  <2>1. /\ lpc = "register" /\ UNCHANGED aside
        /\ \/ Writes(LaunchedRow) \/ Publishes
           \/ Breaks(LaunchedRow) \/ Rejects(LaunchedRow)
    BY <1>3 DEF AppendLaunched
  <2>2. ~linterrupted /\ LaunchedRow \in LRow
    BY <1>1, <2>1, RowsOfRun DEF LSteady
  <2> QED
    BY <2>1, <2>2, AppendStored
<1>4. ASSUME NEW s \in Session, NEW ns \in Time, AppendReaped(s, ns)
      PROVE  Stored'
  <2> DEFINE r == ReapedRow(s, ns)
  <2>1. /\ lpc = "reap" /\ ~run.problem /\ UNCHANGED aside
        /\ Writes(r) \/ Publishes \/ Breaks(r)
    BY <1>4 DEF AppendReaped
  <2>2. ~linterrupted /\ r \in LRow
    BY <1>1, <2>1, RowsOfRun DEF LSteady
  <2> HIDE DEF r
  <2> QED
    BY <2>1, <2>2, AppendStored
<1>5. CASE LCrash
  BY <1>5, CrashStored
<1>6. CASE LInterfere
  BY <1>6, InterfereStored
<1>7. CASE ~AppendIntent /\ ~AppendLaunched /\ ~LCrash /\ ~LInterfere
           /\ ~ \E s \in Session, ns \in Time : AppendReaped(s, ns)
  <2>1. /\ UNCHANGED <<att, lacked, ldisk, lfile>>
        /\ Available' => Available
        /\ linterrupted => linterrupted'
        /\ lrow' \in {lrow, NoLRow}
    BY <1>7, OthersAdd DEF Grown, LInv
  <2>2. lrow' = lrow \/ linterrupted'
    BY <1>7
       DEF LNext, RunStep, RunStart, Launch, LaunchFails, Finish, FinishRaises,
           Cleanup, ReapRaises, InterruptAppend, InterruptRun, LSnapshot,
           LClose, book, lvars
  <2> QED
    BY <2>1, <2>2 DEF LFile, Stored
<1> QED
  BY <1>2, <1>3, <1>4, <1>5, <1>6, <1>7

LEMMA AnnouncedStep ==
  ASSUME Grown, LFile, Publishes, AttemptsKept,
         Len(att') = Len(att) \/ AttemptAdded,
         lacked' = lacked + 1, ldisk' = ldisk, ldisk[lacked + 1] = lrow
  PROVE  Announced'
<1>1. lacked \in Nat /\ Len(att) \in Nat
  BY DEF Grown, LInv, LTypeOK
<1>2. ASSUME NEW i \in 1 .. Len(att)
      PROVE  \E n \in 1 .. lacked' :
                ldisk'[n].kind = "INTENT" /\ ldisk'[n].aid = att'[i].aid
  <2>1. PICK n \in 1 .. lacked :
           ldisk[n].kind = "INTENT" /\ ldisk[n].aid = att[i].aid
    BY DEF LFile, Announced
  <2>2. n \in 1 .. lacked' /\ att'[i].aid = att[i].aid
    BY <1>1 DEF AttemptsKept
  <2> QED
    BY <2>1, <2>2
<1>3. CASE Len(att') = Len(att)
  BY <1>2, <1>3 DEF Announced
<1>4. CASE AttemptAdded
  <2>1. /\ Len(att') = Len(att) + 1 /\ att'[Len(att) + 1].aid = run.aid
        /\ lrow = IntentRow /\ lacked + 1 \in 1 .. lacked'
    BY <1>1, <1>4 DEF AttemptAdded
  <2>2. lrow.kind = "INTENT" /\ lrow.aid = run.aid
    BY <2>1 DEF IntentRow
  <2>3. ldisk'[lacked + 1].kind = "INTENT" /\ ldisk'[lacked + 1].aid = run.aid
    BY <2>2
  <2>4. \A i \in 1 .. Len(att') : i \in 1 .. Len(att) \/ i = Len(att) + 1
    BY <1>1, <2>1
  <2> QED
    BY <1>2, <2>1, <2>3, <2>4 DEF Announced
<1> QED
  BY <1>3, <1>4

\* Until an interrupt lets run() write on, every step keeps the file.
LEMMA LFileStep ==
  ASSUME LInv, LFile, LSteady, [LNext]_lvars
  PROVE  LFile'
<1>1. Grown /\ (Publishes \/ UNCHANGED <<att, lacked>>)
  BY LGrows DEF Grown, LInv, WorldInv
<1>2. Stored'
  BY <1>1, StoredStep
<1>3. CASE UNCHANGED <<att, lacked>>
  BY <1>1, <1>2, <1>3, LReplayedKept DEF LFile
<1>4. CASE Publishes /\ ~UNCHANGED <<att, lacked>>
  <2>1. UNCHANGED <<lfile, lwriter, linterrupted>>
    BY <1>4
       DEF LNext, RunStep, RunStart, AppendIntent, Launch, LaunchFails,
           AppendLaunched, Finish, FinishRaises, Cleanup, AppendReaped,
           ReapRaises, InterruptAppend, InterruptRun, LSnapshot, LClose,
           LInterfere, LCrash, aside, book, lvars
  <2>2. /\ LReplayed' /\ lacked' = lacked + 1
        /\ ldisk[lacked + 1] = lrow /\ ldisk' = ldisk
    BY <1>1, <1>4, <2>1, PublishStored
  <2>3. Announced'
    BY <1>1, <1>4, <2>2, OnlyIntentAdds, AnnouncedStep
  <2> QED
    BY <1>2, <2>2, <2>3 DEF LFile
<1> QED
  BY <1>1, <1>3, <1>4

\* Whoever poisons the journal leaves its file as it is.
LEMMA LFilePoison ==
  ASSUME LFile, lpoisoned => lpoisoned',
         UNCHANGED <<att, lacked, lwriter, lrow, ldisk, lfile, linterrupted>>
  PROVE  LFile'
<1>1. Available' => Available
  BY DEF Available
<1>2. Stored'
  BY <1>1 DEF LFile, Stored
<1>3. LReplayed' /\ Announced'
  BY Zenon DEF LFile, LReplayed, Announced
<1> QED
  BY <1>2, <1>3 DEF LFile

\* An INTENT nobody acknowledged is that of the run that was under way when it
\* was written, and no attempt has been added since.
LEMMA TailIsOfRun ==
  ASSUME LInv, LFile, LSteady, [LNext]_lvars, Len(ldisk') >= lacked' + 1
  PROVE  \/ /\ att' = att /\ Len(ldisk) >= lacked + 1
            /\ ldisk'[lacked' + 1] = ldisk[lacked + 1]
         \/ /\ att' = att /\ lpc = "intent"
            /\ ldisk'[lacked' + 1] = IntentRow
         \/ ldisk'[lacked' + 1].kind # "INTENT"
<1>1. Grown /\ (Publishes \/ UNCHANGED <<att, lacked>>)
  BY LGrows DEF Grown, LInv, WorldInv
<1>2. /\ ldisk \in Seq(LRow \cup {LStray}) /\ lacked \in Nat
      /\ lacked <= Len(ldisk) /\ Len(ldisk) \in Nat
      /\ \A n \in 1 .. Len(ldisk) : ldisk'[n] = ldisk[n]
  BY <1>1 DEF Grown, LInv, LTypeOK, LFile, Stored, LinesKept
<1>3. CASE UNCHANGED <<att, lacked>> /\ Len(ldisk) >= lacked + 1
  BY <1>2, <1>3
<1>4. CASE UNCHANGED <<att, lacked>> /\ Len(ldisk) = lacked
  <2>1. ldisk' # ldisk
    BY <1>2, <1>4
  <2>2. \/ lpc = "intent" /\ ldisk' = Append(ldisk, IntentRow)
        \/ \E r : ldisk' = Append(ldisk, r) /\ r.kind # "INTENT"
    <3>1. /\ LaunchedRow.kind # "INTENT" /\ LStray.kind # "INTENT"
          /\ \A s, ns : ReapedRow(s, ns).kind # "INTENT"
      BY DEF LaunchedRow, ReapedRow, LStray
    <3>2. CASE AppendIntent
      BY <1>4, <2>1, <3>2
         DEF AppendIntent, Writes, Publishes, Breaks, Rejects, book
    <3>3. CASE AppendLaunched
      BY <1>4, <2>1, <3>1, <3>3
         DEF AppendLaunched, Writes, Publishes, Breaks, Rejects, book
    <3>4. CASE \E s \in Session, ns \in Time : AppendReaped(s, ns)
      BY <1>4, <2>1, <3>1, <3>4 DEF AppendReaped, Writes, Publishes, Breaks
    <3>5. CASE LCrash
      BY <2>1, <3>1, <3>5 DEF LCrash
    <3>6. CASE LInterfere
      BY <2>1, <3>1, <3>6 DEF LInterfere
    <3>7. CASE ~AppendIntent /\ ~AppendLaunched /\ ~LCrash /\ ~LInterfere
               /\ ~ \E s \in Session, ns \in Time : AppendReaped(s, ns)
      BY <2>1, <3>7, OthersAdd DEF LInv
    <3> QED
      BY <3>2, <3>3, <3>4, <3>5, <3>6, <3>7
  <2>3. \A r : ldisk' = Append(ldisk, r) => ldisk'[lacked' + 1] = r
    BY <1>2, <1>4
  <2> QED
    BY <1>4, <2>2, <2>3
<1>5. CASE Publishes
  <2>1. /\ ldisk' = ldisk /\ lacked' = lacked + 1 /\ lrow # NoLRow
    BY <1>5 DEF Publishes
  <2>2. /\ Len(ldisk) = lacked + 2
        /\ ldisk[lacked + 1] = lrow
        /\ LStray \in {ldisk[lacked + 1], ldisk[lacked + 2]}
    BY <1>2, <2>1 DEF LFile, Stored
  <2>3. lrow # LStray
    BY <2>1 DEF LInv, LTypeOK, LRow, LStray
  <2>4. ldisk'[lacked' + 1] = LStray
    BY <1>2, <2>1, <2>2, <2>3
  <2> QED
    BY <2>4 DEF LStray
<1> QED
  BY <1>1, <1>2, <1>3, <1>4, <1>5

-----------------------------------------------------------------------------
\* What a load() of the file finds.

\* No file with a line of somebody else replays to anything: every prefix
\* behind it has no book.
LEMMA LReplayRefuses ==
  ASSUME NEW S, NEW s \in Seq(S), NEW k \in 1 .. Len(s), s[k] = LStray
  PROVE  LReplay(s) = {}
<1>1. PICK f : IsLReplay(f, s) /\ LReplay(s) = f[Len(s)]
  BY LReplayIsLReplay
<1>2. \A n \in 0 .. Len(s) :
         f[n] = IF n = 0 THEN {<<>>} ELSE LMoved(f[n - 1], s[n])
  BY <1>1 DEF IsLReplay
<1> DEFINE T == {n \in k .. Len(s) : f[n] # {}}
<1>3. SUFFICES ASSUME T # {} PROVE FALSE
  <2>1. Len(s) \in k .. Len(s)
    OBVIOUS
  <2> QED
    BY <1>1, <1>3, <2>1
<1>4. PICK m \in T : \A n \in T : m <= n
  <2>1. T \in SUBSET Nat
    OBVIOUS
  <2> QED
    BY <1>3, <2>1, P!LeastNumber, BudgetAssumptions
<1>5. f[m] = LMoved(f[m - 1], s[m]) /\ f[m] # {} /\ m \in k .. Len(s)
  <2>1. m \in 0 .. Len(s) /\ m # 0 /\ f[m] # {} /\ m \in k .. Len(s)
    BY <1>4
  <2> QED
    BY <1>2, <2>1, Zenon
<1>6. CASE m = k
  <2>1. \A A : ~LAccepts(A, s[k])
    BY DEF LAccepts, LStray
  <2> QED
    BY <1>5, <1>6, <2>1 DEF LMoved
<1>7. CASE m # k
  <2>1. m - 1 \in k .. Len(s) /\ m - 1 \notin T
    BY <1>4, <1>5, <1>7
  <2>2. f[m - 1] = {}
    BY <2>1
  <2> QED
    BY <1>5, <2>2 DEF LMoved
<1> QED
  BY <1>6, <1>7

\* Every line of the file is one the writer wrote.
OwnLRows == \A n \in 1 .. Len(ldisk) : ldisk[n] # LStray

\* The acknowledged attempts, or these after the one row nobody acknowledged.
AttemptsOnFile ==
  IF Len(ldisk) = lacked THEN att ELSE LAfter(att, ldisk[lacked + 1])

LEMMA LFileReplays ==
  ASSUME LInv, LFile, OwnLRows
  PROVE  /\ LReplay(ldisk) = {AttemptsOnFile}
         /\ Len(ldisk) \in {lacked, lacked + 1}
         /\ Len(ldisk) = lacked + 1 =>
               /\ ldisk[lacked + 1] \in LRow
               /\ LAccepts(att, ldisk[lacked + 1])
<1>1. /\ ldisk \in Seq(LRow \cup {LStray}) /\ lacked \in Nat
      /\ lacked <= Len(ldisk) /\ Len(ldisk) <= lacked + 2 /\ Len(ldisk) \in Nat
      /\ LReplay(SubSeq(ldisk, 1, lacked)) = {att}
  BY DEF LInv, LTypeOK, LFile, Stored, LReplayed
<1>2. Len(ldisk) # lacked + 2
  <2>1. Len(ldisk) = lacked + 2 =>
           /\ lacked + 1 \in 1 .. Len(ldisk) /\ lacked + 2 \in 1 .. Len(ldisk)
           /\ LStray \in {ldisk[lacked + 1], ldisk[lacked + 2]}
    BY <1>1 DEF LFile, Stored
  <2> QED
    BY <2>1 DEF OwnLRows
<1>3. Len(ldisk) \in {lacked, lacked + 1}
  BY <1>1, <1>2
<1>4. CASE Len(ldisk) = lacked
  <2>1. SubSeq(ldisk, 1, lacked) = ldisk
    BY <1>1, <1>4
  <2>2. LReplay(ldisk) = {att}
    BY <1>1, <2>1, Zenon
  <2> QED
    BY <1>1, <1>4, <2>2 DEF AttemptsOnFile
<1>5. CASE Len(ldisk) = lacked + 1
  <2> DEFINE old == SubSeq(ldisk, 1, lacked)
             r == ldisk[lacked + 1]
  <2>1. /\ old \in Seq(LRow \cup {LStray}) /\ r \in LRow \cup {LStray}
        /\ ldisk = Append(old, r) /\ lacked + 1 \in 1 .. Len(ldisk)
    BY <1>1, <1>5
  <2>2. r # LStray
    BY <2>1 DEF OwnLRows
  <2>3. LAccepts(att, r) /\ LReplay(old) = {att} /\ r \in LRow
    BY <1>1, <1>5, <2>1, <2>2 DEF LFile, Stored
  <2>4. AttemptsOnFile = LAfter(att, r)
    BY <1>1, <1>5 DEF AttemptsOnFile
  <2> HIDE DEF old
  <2>5. LReplay(ldisk) = {AttemptsOnFile}
    <3> HIDE DEF r
    <3>1. LReplay(Append(old, r)) = LMoved(LReplay(old), r)
      BY <2>1, LReplayAppend
    <3>2. LMoved({att}, r) = {AttemptsOnFile}
      BY <2>3, <2>4 DEF LMoved
    <3> QED
      BY <2>1, <2>3, <3>1, <3>2, Zenon
  <2> QED
    BY <1>3, <2>3, <2>5
<1> QED
  BY <1>3, <1>4, <1>5

-----------------------------------------------------------------------------
\* The inductive invariant of the lifecycle journal holds through every failure,
\* interrupt and crash: its processes are those of its attempts, run() stands
\* where they say, and a row still to be published is accepted when it is.
\* Until an interrupt keeps a row from the attempts, the acknowledged rows of
\* the file replay to them (State.apply, append, run).
THEOREM LifecycleInductive == LSpec => [](LInv /\ (~linterrupted => LFile))
<1>1. LInit => LInv /\ (~linterrupted => LFile)
  BY LInitInv, LInitFile
<1>2. LInv /\ (~linterrupted => LFile) /\ [LNext]_lvars
        => LInv' /\ (~linterrupted' => LFile')
  <2> SUFFICES ASSUME LInv, ~linterrupted => LFile, [LNext]_lvars
               PROVE  LInv' /\ (~linterrupted' => LFile')
    OBVIOUS
  <2>1. LInv'
    BY LNextInv
  <2>2. linterrupted => linterrupted'
    BY DEF LNext, RunStep, RunStart, AppendIntent, Launch, LaunchFails,
           AppendLaunched, Finish, FinishRaises, Cleanup, AppendReaped,
           ReapRaises, InterruptAppend, InterruptRun, LSnapshot, LClose,
           LInterfere, LCrash, aside, lvars
  <2>3. ASSUME ~linterrupted' PROVE LFile'
    <3>1. ~linterrupted /\ LSteady
      BY <2>2, <2>3 DEF LSteady
    <3> QED
      BY <3>1, LFileStep
  <2> QED
    BY <2>1, <2>3
<1> QED
  BY <1>1, <1>2, PTL DEF LSpec

\* Every process was announced by an INTENT in the file, and no attempt has two;
\* the acknowledged rows replay to the attempts of the live journal until an
\* interrupt keeps one from them.
THEOREM IntentBeforeProcess == LSpec => []SpawnHasDurableIntent
<1>1. LInv /\ (~linterrupted => LFile) => SpawnHasDurableIntent
  <2> SUFFICES ASSUME LInv, ~linterrupted => LFile
               PROVE  SpawnHasDurableIntent
    OBVIOUS
  <2>1. /\ Len(world) \in Nat /\ Len(att) \in Nat /\ Len(world) <= Len(att)
        /\ \A i \in 1 .. Len(world) : world[i].aid = att[i].aid
    BY DEF LInv, LTypeOK, WorldInv, Followed
  <2>2. \A i \in 1 .. Len(world) : i \in 1 .. Len(att)
    BY <2>1
  <2>3. /\ \A i \in 1 .. Len(att) : \E n \in 1 .. Len(ldisk) :
              ldisk[n].kind = "INTENT" /\ ldisk[n].aid = att[i].aid
        /\ \A i, j \in 1 .. Len(att) : att[i].aid = att[j].aid => i = j
    BY DEF LInv, BookInv, Told, ToldIn, Distinct
  <2>4. \A i \in 1 .. Len(world) : \E n \in 1 .. Len(ldisk) :
           ldisk[n].kind = "INTENT" /\ ldisk[n].aid = world[i].aid
    BY <2>1, <2>2, <2>3
  <2>5. \A i, j \in 1 .. Len(world) : world[i].aid = world[j].aid => i = j
    BY <2>1, <2>2, <2>3
  <2>6. ~linterrupted => /\ lacked <= Len(ldisk)
                         /\ LReplay(SubSeq(ldisk, 1, lacked)) = {att}
    BY DEF LFile, Stored, LReplayed
  <2> QED
    BY <2>4, <2>5, <2>6 DEF SpawnHasDurableIntent
<1> QED
  BY <1>1, LifecycleInductive, PTL

\* A journal that says it is complete and acknowledged speaks of one process
\* for each attempt, all of them verified gone, of intervals that follow each
\* other, and, if no interrupt kept a row from it, of a file another process
\* reads the same from.
THEOREM CompleteIsGone == LSpec => []CompleteMeansAllGone
<1>1. LInv /\ (~linterrupted => LFile) => CompleteMeansAllGone
  <2> SUFFICES ASSUME LInv, ~linterrupted => LFile, CompleteLive, lpc = "idle"
               PROVE  /\ Len(world) = Len(att)
                      /\ \A i \in 1 .. Len(world) :
                            world[i].handle /\ world[i].cleaned = "verified"
                      /\ \A i, j \in 1 .. Len(att) :
                            i < j => /\ att[i].session = att[j].session
                                     /\ att[i].end <= att[j].start
                                     /\ att[i].ident # att[j].ident
                      /\ lfile = "own" /\ ~linterrupted => LReplay(ldisk) = {att}
    BY DEF CompleteMeansAllGone
  <2>1. /\ Available /\ att # <<>>
        /\ \A i \in 1 .. Len(att) : att[i].phase = "REAPED"
    BY DEF CompleteLive, AllReaped
  <2>2. /\ att \in Seq(Attempt) /\ world \in Seq(Process)
        /\ ldisk \in Seq(LRow \cup {LStray}) /\ lacked \in Nat
    BY DEF LInv, LTypeOK
  <2>3. Len(world) = Len(att)
    <3>1. Len(att) \in 1 .. Len(att)
      BY <2>1, <2>2
    <3>2. Len(att) <= Len(world)
      BY <2>1, <3>1 DEF LInv, WorldInv, Followed
    <3>3. Len(world) <= Len(att) /\ Len(world) \in Nat
      BY <2>2 DEF LInv, WorldInv, Followed
    <3> QED
      BY <2>2, <3>2, <3>3
  <2>4. \A i \in 1 .. Len(world) :
           world[i].handle /\ world[i].cleaned = "verified"
    BY <2>1, <2>3 DEF LInv, WorldInv, Finished
  <2>5. ASSUME lfile = "own", ~linterrupted
        PROVE  LReplay(ldisk) = {att}
    <3>1. lrow = NoLRow
      BY DEF LInv, Pending
    <3>2. Len(ldisk) = lacked /\ LReplay(SubSeq(ldisk, 1, lacked)) = {att}
      BY <2>1, <2>5, <3>1 DEF LFile, Stored, LReplayed
    <3>3. SubSeq(ldisk, 1, lacked) = ldisk
      BY <2>2, <3>2
    <3> QED
      BY <3>2, <3>3, Zenon
  <2>6. \A i, j \in 1 .. Len(att) :
           i < j => /\ att[i].session = att[j].session
                    /\ att[i].end <= att[j].start
                    /\ att[i].ident # att[j].ident
    BY DEF LInv, BookInv, Clocked, Named
  <2> QED
    BY <2>3, <2>4, <2>5, <2>6
<1> QED
  BY <1>1, LifecycleInductive, PTL

\* Nothing is launched once a process is unresolved: whatever spawns does so
\* when every attempt but the last is reaped.
THEOREM NothingAfterUnresolved == LSpec => NoSpawnAfterUnresolved
<1>1. LInv /\ [LNext]_lvars =>
        [Len(world') # Len(world) =>
           \A i \in 1 .. Len(world) :
              world[i].handle /\ world[i].cleaned = "verified"]_lvars
  <2> SUFFICES ASSUME LInv, LNext, Len(world') # Len(world)
               PROVE  \A i \in 1 .. Len(world) :
                         world[i].handle /\ world[i].cleaned = "verified"
    OBVIOUS
  <2>1. \/ world' = world
        \/ lpc = "cleanup" /\ \E how \in {"verified", "unverified"} :
                                  Cleaned(how)
        \/ lpc = "launch"
    BY DEF LNext, RunStep, RunStart, AppendIntent, AppendLaunched,
           Finish, FinishRaises, Cleanup, AppendReaped, ReapRaises,
           InterruptAppend, InterruptRun, LSnapshot, LClose, LInterfere,
           LCrash, Launch, LaunchFails, aside
  <2>2. CASE lpc = "cleanup" /\ \E how \in {"verified", "unverified"} :
                                    Cleaned(how)
    <3>1. world \in Seq(Process)
      BY DEF LInv, LTypeOK
    <3> QED
      BY <2>2, <3>1 DEF Cleaned
  <2>3. CASE lpc = "launch"
    <3>1. /\ world \in Seq(Process) /\ att \in Seq(Attempt)
          /\ Len(world) + 1 = Len(att)
      BY <2>3 DEF LInv, LTypeOK, WorldInv, RunPlace
    <3>2. \A i \in 1 .. Len(world) : i \in 1 .. Len(att) /\ i < Len(att)
      BY <3>1
    <3> QED
      BY <3>2 DEF LInv, WorldInv, Followed, Finished
  <2> QED
    BY <2>1, <2>2, <2>3
<1> QED
  BY <1>1, LifecycleInductive, PTL DEF LSpec, NoSpawnAfterUnresolved

\* Whatever fails in a run, no process whose handle is known is left without a
\* cleanup, but by an interrupt between the try blocks of run() or a death.
THEOREM KnownHandlesCleaned == LSpec => []KnownHandleIsCleaned
<1>1. LInv => KnownHandleIsCleaned
  BY DEF LInv, HandlesHeld, KnownHandleIsCleaned, Forsaken
<1> QED
  BY <1>1, LifecycleInductive, PTL
=============================================================================
