----------------------------- MODULE BudgetJournal -----------------------------
(***************************************************************************)
(* The durable debit journal around the declared task budget               *)
(* (src/data/prospective_stage_budget_journal_v2.py).  A single writer     *)
(* appends one row per event and commits the event to its RAM budget only  *)
(* after write, fsync and a re-check of the file; any failure in between   *)
(* poisons the writer for good.  A reader (load) replays the rows from the *)
(* header, at any time, in any other process.                              *)
(*                                                                         *)
(* One call is several steps here, so that a reentrant call, a change of   *)
(* the file by somebody else, an interrupt, a crash of the process or a    *)
(* loss of power can fall between any two of them.  The last two of the    *)
(* steps, the availability check and the commit of the budget, lie behind  *)
(* the except clause of _append: an interrupt there poisons nothing.       *)
(***************************************************************************)
EXTENDS StageBudgetOps

CONSTANTS
  ElapsedChoice,   \* bounds the elapsed_ns a caller may report
  MaxEvents        \* MAX_EVENTS

ASSUME JournalAssumption ==
  /\ ElapsedChoice \subseteq Elapsed
  /\ MaxEvents \in Nat
  \* 128 slots at most and MAX_EVENTS = 256: two rows for every slot.
  /\ \A d \in Declarations : 2 * Len(d.plan) <= MaxEvents

VARIABLES
  decl,      \* the declaration frozen in the header row
  bud,       \* RAM: the acknowledged budget
  obs,       \* history: the acknowledged settlements
  acked,     \* history: how many rows were committed to the RAM budget
  events,    \* RAM: _events (with _head), the rows the writer counts
  poisoned,  \* RAM: _poisoned
  writer,    \* "open", "closed", or "dead" when the process is gone
  pc,        \* progress of the call that holds the lock (_busy)
  row,       \* the row that call appends
  disk,      \* the complete lines in the file after the header
  synced,    \* how many of them a completed fsync covers
  torn,      \* the file ends in an incomplete line
  file,      \* what others did to the file since the last check of it
  interrupted  \* history: an interrupt fell between a count and its commit

ram == <<bud, obs, acked, events, interrupted>>
store == <<disk, synced, torn>>
vars == <<decl, bud, obs, acked, events, poisoned, writer, pc, row,
          disk, synced, torn, file, interrupted>>

Row ==
  [kind : {"DEBIT"}, uid : Uid, slot : Nat] \cup
  [kind : {"DENIED"}, uid : Uid] \cup
  [kind : {"SETTLE"}, slot : Nat, status : Status, elapsed : Elapsed,
   clean : BOOLEAN]

\* A line that somebody else appended, and a row that somebody overwrote.
Stray == [kind |-> "STRAY"]
Overwritten == [kind |-> "OVERWRITTEN"]

\* "touched": same size, link and inode; "foreign": another of these.
FileView == {"own", "touched", "foreign"}

NoRow == [kind |-> "NONE"]

-----------------------------------------------------------------------------
\* Replay, as load() does it: the set of budgets a sequence of rows leads to,
\* empty when load() raises.

DebitRow(d, b, uid) == [kind |-> "DEBIT", uid |-> uid, slot |-> b.index + 1]

Accepts(d, b, r) ==
  \/ /\ r.kind = "DEBIT"
     /\ Reservable(d, b, r.uid)
     /\ ~Exhausted(d, b)
     /\ r = DebitRow(d, b, r.uid)
  \/ /\ r.kind = "DENIED"
     /\ Reservable(d, b, r.uid)
     /\ Exhausted(d, b)
  \/ /\ r.kind = "SETTLE"
     /\ b.active # NoSlot
     /\ r.slot = b.active

\* Mutant: the trial takes every cleanup for verified.
AfterAssumesClean(d, b, r) ==
  CASE r.kind = "DEBIT"  -> Debit(d, b)
    [] r.kind = "DENIED" -> Deny(b)
    [] r.kind = "SETTLE" -> Settlement(d, b, r.status, r.elapsed, TRUE)

\* The budget after an accepted row: `trial' in the writer, `budget' in load.
After(d, b, r) ==
  CASE r.kind = "DEBIT"  -> Debit(d, b)
    [] r.kind = "DENIED" -> Deny(b)
    [] r.kind = "SETTLE" -> Settlement(d, b, r.status, r.elapsed, r.clean)

Replay(d, rows) ==
  LET budgets[n \in 0 .. Len(rows)] ==
        IF n = 0 THEN {InitBudget}
        ELSE {After(d, b, rows[n]) :
                b \in {c \in budgets[n - 1] : Accepts(d, c, rows[n])}}
  IN  budgets[Len(rows)]

-----------------------------------------------------------------------------
\* Journal.create has succeeded: the header is in the file and acknowledged.
Init ==
  /\ decl \in {d \in Declarations : DeclarationOK(d)}
  /\ bud = InitBudget
  /\ obs = <<>>
  /\ acked = 0
  /\ events = 0
  /\ interrupted = FALSE
  /\ poisoned = FALSE
  /\ writer = "open"
  /\ pc = "idle"
  /\ row = NoRow
  /\ disk = <<>>
  /\ synced = 0
  /\ torn = FALSE
  /\ file = "own"

\* _begin() and the trial run on a copy of the budget.
Begin(r) ==
  /\ writer = "open"
  /\ ~poisoned
  /\ pc = "idle"
  /\ pc' = "check"
  /\ row' = r
  /\ UNCHANGED <<decl, ram, poisoned, writer, store, file>>

\* reserve(): a DEBIT row, or a DENIED one when the budget is exhausted.
BeginReserve(uid) ==
  /\ Reservable(decl, bud, uid)
  /\ Begin(IF Exhausted(decl, bud) THEN [kind |-> "DENIED", uid |-> uid]
                                   ELSE DebitRow(decl, bud, uid))

\* settle() with the active token.
BeginSettle(status, elapsed, clean) ==
  /\ bud.active # NoSlot
  /\ Begin([kind |-> "SETTLE", slot |-> bud.active, status |-> status,
            elapsed |-> elapsed, clean |-> clean])

\* The call raises out of _append: poisoned, and the lock is released.
Raise ==
  /\ poisoned' = TRUE
  /\ pc' = "idle"
  /\ row' = NoRow
  /\ UNCHANGED <<decl, ram, writer, file>>

\* _check() finds another file, or there is no room for the event.
Refuse ==
  /\ pc = "check"
  /\ file # "own" \/ events >= MaxEvents
  /\ Raise
  /\ UNCHANGED store

Write ==
  /\ pc = "check"
  /\ file = "own"
  /\ events < MaxEvents
  /\ disk' = Append(disk, row)
  /\ pc' = "written"
  /\ UNCHANGED <<decl, ram, poisoned, writer, row, synced, torn, file>>

\* os.write raises, or writes less than the line.
WriteFails ==
  /\ pc = "check"
  /\ torn' \in {torn, TRUE}
  /\ Raise
  /\ UNCHANGED <<disk, synced>>

Fsync ==
  /\ pc = "written"
  /\ synced' = Len(disk)
  /\ pc' = "synced"
  /\ UNCHANGED <<decl, ram, poisoned, writer, row, disk, torn, file>>

\* fsync raises: the row stays where it is, acknowledged by nobody.
FsyncFails ==
  /\ pc = "written"
  /\ Raise
  /\ UNCHANGED store

\* Mutant: the re-check after fsync forgets a reentrant poisoning.
AdoptPoisoned ==
  /\ pc = "synced"
  /\ file # "foreign"
  /\ file' = "own"
  /\ pc' = "adopted"
  /\ UNCHANGED <<decl, ram, poisoned, writer, row, store>>

\* Mutant: the re-check does not wait for fsync.
AdoptEarly ==
  /\ pc \in {"written", "synced"}
  /\ ~poisoned
  /\ file # "foreign"
  /\ file' = "own"
  /\ pc' = "adopted"
  /\ UNCHANGED <<decl, ram, poisoned, writer, row, store>>

\* Mutant: the size is taken over from the open file like the identity.
AdoptAnySize ==
  /\ pc = "synced"
  /\ ~poisoned
  /\ file' = "own"
  /\ pc' = "adopted"
  /\ UNCHANGED <<decl, ram, poisoned, writer, row, store>>

\* Availability and size are looked at again after fsync; the identity is
\* first taken over from the open file, so that what leaves its size, link
\* and inode alone goes unnoticed (lines 175-181).
Adopt ==
  /\ pc = "synced"
  /\ ~poisoned
  /\ file # "foreign"
  /\ file' = "own"
  /\ pc' = "adopted"
  /\ UNCHANGED <<decl, ram, poisoned, writer, row, store>>

\* _head and _events move to the row (lines 182, 183).
Count ==
  /\ pc = "adopted"
  /\ events' = events + 1
  /\ pc' = "counted"
  /\ UNCHANGED <<decl, bud, obs, acked, interrupted, poisoned, writer, row,
                 store, file>>

\* Whatever raises after fsync and inside of the try, an interrupt included.
AdoptFails ==
  /\ pc \in {"synced", "adopted"}
  /\ Raise
  /\ UNCHANGED store

\* _available() once more, in reserve() and settle() after _append.
Recheck ==
  /\ pc = "counted"
  /\ ~poisoned
  /\ pc' = "cleared"
  /\ UNCHANGED <<decl, ram, poisoned, writer, row, store, file>>

RecheckFails ==
  /\ pc = "counted"
  /\ poisoned
  /\ Raise
  /\ UNCHANGED store

\* _budget = trial: the event is acknowledged.
Commit ==
  /\ pc = "cleared"
  /\ bud' = After(decl, bud, row)
  /\ acked' = acked + 1
  /\ obs' = IF row.kind # "SETTLE" THEN obs
            ELSE Append(obs, [status |-> row.status, elapsed |-> row.elapsed,
                              clean |-> row.clean])
  /\ pc' = "idle"
  /\ row' = NoRow
  /\ UNCHANGED <<decl, events, interrupted, poisoned, writer, store, file>>

\* A KeyboardInterrupt in reserve() or settle() but outside of the try of
\* _append: the lock is released (line 208 or 225), and nothing poisoned.
\* Before _append that is a call that never was; after it the row is in the
\* file and counted, and the budget does not know of it.
Interrupt ==
  /\ pc \in {"check", "counted", "cleared"}
  /\ interrupted' = (interrupted \/ pc # "check")
  /\ pc' = "idle"
  /\ row' = NoRow
  /\ UNCHANGED <<decl, bud, obs, acked, events, poisoned, writer, store, file>>

\* Any operation called back into while one holds the lock only poisons.
Reentrant ==
  /\ pc # "idle"
  /\ poisoned' = TRUE
  /\ UNCHANGED <<decl, ram, writer, pc, row, store, file>>

\* The check that snapshot() makes of a live writer fails: the file has
\* changed, or looking at it raised.
Snapshot ==
  /\ writer = "open"
  /\ pc = "idle"
  /\ poisoned' = TRUE
  /\ UNCHANGED <<decl, ram, writer, pc, row, store, file>>

\* close(); os.close may raise, which poisons.
Close ==
  /\ writer = "open"
  /\ pc = "idle"
  /\ writer' = "closed"
  /\ poisoned' \in {poisoned, TRUE}
  /\ UNCHANGED <<decl, ram, pc, row, store, file>>

\* What no journal can answer for: rows that were overwritten in place.
Intact == \A n \in 1 .. Len(disk) : disk[n] # Overwritten

\* Somebody else changes the file: touches it, overwrites a row in place
\* (once: a second time adds nothing), appends a line or a part of one, links
\* or replaces it.
Interfere ==
  /\ file # "foreign"
  /\ \/ file = "own" /\ file' = "touched" /\ UNCHANGED <<disk, torn>>
     \/ /\ Intact
        /\ file' = "touched"
        /\ \E n \in 1 .. Len(disk) : disk' = [disk EXCEPT ![n] = Overwritten]
        /\ UNCHANGED torn
     \/ /\ file' = "foreign"
        /\ \/ disk' = Append(disk, Stray) /\ UNCHANGED torn
           \/ torn' \in {torn, TRUE} /\ UNCHANGED disk
  /\ UNCHANGED <<decl, ram, poisoned, writer, pc, row, synced>>

\* The process dies; a write under way may leave part of its line.
Crash ==
  /\ writer # "dead"
  /\ writer' = "dead"
  /\ pc' = "idle"
  /\ row' = NoRow
  /\ torn' \in IF pc = "check" THEN {torn, TRUE} ELSE {torn}
  /\ UNCHANGED <<decl, ram, poisoned, disk, synced, file>>

\* The machine loses power: whatever no fsync covers may be gone, or partly.
PowerLoss ==
  /\ writer' = "dead"
  /\ pc' = "idle"
  /\ row' = NoRow
  /\ \E n \in synced .. Len(disk) :
        /\ disk' = SubSeq(disk, 1, n)
        /\ torn' \in IF torn \/ n < Len(disk) \/ pc = "check"
                     THEN BOOLEAN ELSE {FALSE}
  /\ UNCHANGED <<decl, ram, poisoned, synced, file>>

Next ==
  \/ \E uid \in Uid : BeginReserve(uid)
  \/ \E status \in Status, elapsed \in ElapsedChoice, clean \in BOOLEAN :
        BeginSettle(status, elapsed, clean)
  \/ Refuse \/ Write \/ WriteFails \/ Fsync \/ FsyncFails
  \/ Adopt \/ Count \/ AdoptFails \/ Recheck \/ RecheckFails \/ Commit
  \/ Interrupt \/ Reentrant
  \/ Snapshot \/ Close \/ Interfere \/ Crash \/ PowerLoss

Spec == Init /\ [][Next]_vars

-----------------------------------------------------------------------------
TypeOK ==
  /\ decl \in Declaration
  /\ bud \in Budget
  /\ obs \in Seq([status : Status, elapsed : Elapsed, clean : BOOLEAN])
  /\ acked \in Nat
  /\ events \in Nat
  /\ interrupted \in BOOLEAN
  /\ poisoned \in BOOLEAN
  /\ writer \in {"open", "closed", "dead"}
  /\ pc \in {"idle", "check", "written", "synced", "adopted", "counted",
            "cleared"}
  /\ row \in Row \cup {NoRow}
  /\ disk \in Seq(Row \cup {Stray, Overwritten})
  /\ synced \in Nat
  /\ torn \in BOOLEAN
  /\ file \in FileView

\* What settle() returns says fsync_acknowledgments_verified.
Acknowledged == writer = "open" /\ ~poisoned

\* Whatever the writer committed is in the file, on stable storage, and stays
\* there through every crash and loss of power, and replays to exactly the
\* committed budget: no caller holds a token whose debit can be forgotten,
\* unless an interrupt once came between a row and its commit.
AckedIsRecoverable ==
  ~interrupted /\ Intact =>
     /\ acked <= synced /\ synced <= Len(disk)
     /\ Replay(decl, SubSeq(disk, 1, acked)) = {bud}

\* While snapshot() of the live writer reports its fsync acknowledgments, a
\* reader of the file sees the same budget, on stable storage and with no torn
\* line: nothing that somebody else appended is ever taken for the writer's
\* own, unless an interrupt once came between a row and its commit.
LiveAgreesWithReplay ==
  Acknowledged /\ file = "own" /\ pc = "idle" /\ ~interrupted /\ Intact =>
     /\ Replay(decl, disk) = {bud}
     /\ synced = Len(disk)
     /\ ~torn

\* The bound on events is never what refuses an event: two rows per slot fit.
RoomForEveryEvent == pc = "check" /\ ~interrupted => events < MaxEvents

\* Once poisoned, by a failure or by a reentrant call in the middle of an
\* append, no call begins and no check of availability passes: what is still
\* counted or committed is the one event whose own last check came before.
NoAckAfterPoison ==
  [][poisoned => /\ pc = "idle" => pc' = "idle"
                 /\ pc' = "adopted" => pc = "adopted"
                 /\ pc' = "cleared" => pc = "cleared"
                 /\ events' # events => pc = "adopted"
                 /\ <<bud, acked>>' # <<bud, acked>> => pc = "cleared"]_vars

Abstract == INSTANCE StageBudget

\* What the writer acknowledges is a behaviour of the declared budget.
ImplementsStageBudget == Abstract!Spec
=============================================================================
