------------------------------- MODULE TaskBridge -------------------------------
(***************************************************************************)
(* The task bridge of src/data/prospective_task_lifecycle_bridge_v1.py: it *)
(* runs the tasks of a declared plan in order, each through the budget     *)
(* journal (a durable DEBIT), the lifecycle journal (INTENT, LAUNCHED,     *)
(* REAPED) and the budget journal again (a durable SETTLE).  The bridge    *)
(* keeps no record of its own: the two files are joined, before every      *)
(* callback and by load() in another process.                              *)
(*                                                                         *)
(* The two journals are instances of their own modules.  A run is the      *)
(* bridge's steps with the journals' steps in between, so a crash, a       *)
(* reentrant call, a failed write or a change of either file can fall      *)
(* anywhere in a run.                                                      *)
(***************************************************************************)
EXTENDS StageBudgetOps, SequencesExt

CONSTANTS
  ElapsedChoice, MaxEvents,                           \* of the budget journal
  Host, Pid, Session, Time, MaxAttempts, NoIdentity,  \* of the other one
  BoundSession,   \* the clock session of the binding
  ProfileMaps,    \* the profiles a binding may give its tasks
  NoHost          \* _host_boot = None

VARIABLES
  decl, bud, obs, acked, events, poisoned, writer, pc, row, disk, synced, torn,
  file, interrupted,
  att, lacked, lpoisoned, lwriter, lpc, run, lrow, ldisk, ltorn, lfile, world,
  linterrupted

VARIABLES
  profiles,   \* the profile of every task in the binding
  bpc,        \* progress of Bridge.run, or "dead"
  bpoisoned,  \* _poisoned
  bopen,      \* not _closed
  next,       \* _next, the number of paired tasks
  host,       \* _host_boot
  ids,        \* _identities
  ready       \* the pre-callback check has passed; the callback is next

bvars == <<decl, bud, obs, acked, events, poisoned, writer, pc, row, disk,
           synced, torn, file, interrupted>>
lvars == <<att, lacked, lpoisoned, lwriter, lpc, run, lrow, ldisk, ltorn,
           lfile, world, linterrupted>>
\* What a check of a journal leaves alone.
bkept == <<decl, bud, obs, acked, events, writer, pc, row, disk, synced, torn,
           file, interrupted>>
lkept == <<att, lacked, lwriter, lrow, ldisk, ltorn, lfile, world, linterrupted>>

own == <<bpc, bpoisoned, bopen, next, host, ids, ready>>
vars == <<bvars, lvars, profiles, own>>

B == INSTANCE BudgetJournal

Profiles == {"success", "failure", "timeout_group"}

L == INSTANCE LifecycleJournal WITH Aid <- Uid, Profile <- Profiles

ASSUME BridgeAssumption ==
  /\ BoundSession \in Session
  /\ NoHost \notin Host
  /\ ProfileMaps \subseteq [Uid -> Profiles]
  \* What the two journals assume of their constants.
  /\ Time \subseteq Nat
  /\ NoIdentity \notin [host : Host, pid : Pid]
  /\ MaxAttempts \in Nat
  /\ MaxEvents \in Nat
  /\ ElapsedChoice \subseteq Elapsed
  /\ \A d \in Declarations : 2 * Len(d.plan) <= MaxEvents

-----------------------------------------------------------------------------
\* The join of the rows of the two files.

Plan == decl.plan

\* The rows of one kind, in their order.
Rows(rows, k) ==
  LET chosen[n \in 0 .. Len(rows)] ==
        IF n = 0 THEN <<>>
        ELSE IF rows[n].kind = k THEN Append(chosen[n - 1], rows[n])
        ELSE chosen[n - 1]
  IN  chosen[Len(rows)]

Debits(rows) == Rows(rows, "DEBIT")
Settlements(rows) == Rows(rows, "SETTLE")

StatusOf(profile) ==
  CASE profile = "success" -> "SUCCESS"
    [] profile = "failure" -> "FAILED"
    [] profile = "timeout_group" -> "TIMEOUT"

\* Slot i of the budget and attempt i of the lifecycle are the same task.
\* Attempt ids are a digest of binding, slot and task: one per task.
SlotJoined(rows, A, i) ==
  /\ Debits(rows)[i].uid = Plan[i].uid
  /\ i <= Len(A) =>
       /\ A[i].aid = Plan[i].uid
       /\ A[i].profile = profiles[Plan[i].uid]
       /\ A[i].session = BoundSession
  /\ i <= Len(Settlements(rows)) =>
       LET s == Settlements(rows)[i]
       IN  /\ A[i].phase = "REAPED"
           /\ s.slot = i
           /\ s.status = StatusOf(A[i].profile)
           /\ s.elapsed = A[i].end - A[i].start
           /\ s.clean

\* One host and boot for the phase, and no identity twice.
OneHost(A) ==
  \A i, j \in {n \in 1 .. Len(A) : A[n].ident # NoIdentity} :
     /\ A[i].ident.host = A[j].ident.host
     /\ A[i].ident = A[j].ident => i = j

CountsJoin(rows, A) ==
  /\ Len(Debits(rows)) <= Len(Plan)
  /\ Len(A) <= Len(Debits(rows))
  /\ Len(Settlements(rows)) <= Len(A)
  /\ \A i \in 1 .. Len(Debits(rows)) : SlotJoined(rows, A, i)

Join(rows, A) == CountsJoin(rows, A) /\ OneHost(A)

Paired(rows) == Len(Settlements(rows))

FullSuccess(rows, b, A) ==
  /\ Paired(rows) = Len(Plan)
  /\ DeclaredPlanComplete(decl, b)
  /\ L!AllReaped(A)

\* Both journals are live and hold exactly the rows they count.
JournalsAcked ==
  /\ writer = "open" /\ ~poisoned /\ file = "own" /\ ~torn /\ Len(disk) = events
  /\ L!Available /\ lfile = "own" /\ ~ltorn /\ Len(ldisk) = lacked

LiveJoin(n) == JournalsAcked /\ Join(disk, att) /\ Paired(disk) = n

-----------------------------------------------------------------------------
\* Bridge.create has succeeded: binding and both headers are acknowledged.
Init ==
  /\ B!Init
  /\ L!LInit
  /\ profiles \in ProfileMaps
  /\ bpc = "idle"
  /\ bpoisoned = FALSE
  /\ bopen = TRUE
  /\ next = 0
  /\ host = NoHost
  /\ ids = {}
  /\ ready = FALSE

Task == Plan[next + 1].uid

Goto(step) == bpc' = step

\* run() is entered with the next task: reserve() writes its debit.
Start ==
  /\ bpc = "idle"
  /\ bopen
  /\ ~bpoisoned
  /\ next < Len(Plan)
  /\ B!BeginReserve(Task)
  /\ Goto("reserve")
  /\ UNCHANGED <<lvars, profiles, bpoisoned, bopen, next, host, ids, ready>>

BudgetStep ==
  /\ bpc \in {"reserve", "settle"}
  /\ \/ B!Refuse \/ B!Write \/ B!WriteFails \/ B!Fsync \/ B!FsyncFails
     \/ B!Adopt \/ B!Count \/ B!AdoptFails
     \/ B!Recheck \/ B!RecheckFails \/ B!Commit
  /\ UNCHANGED <<lvars, profiles, own>>

DebitAcked == bpc = "reserve" /\ pc = "idle" /\ bud.active = next + 1

\* reserve() has returned its token: the attempt begins.
BeginLife(ns) ==
  /\ DebitAcked
  /\ ~bpoisoned
  /\ L!RunStart(Task, profiles[Task], BoundSession, ns)
  /\ Goto("life")
  /\ UNCHANGED <<bvars, profiles, bpoisoned, bopen, next, host, ids, ready>>

JoinedAt(phase) ==
  /\ LiveJoin(next)
  /\ bud.active = next + 1
  /\ Last(att).aid = Task
  /\ Last(att).phase = phase

\* _BoundBackend._ready, before launch and before finish.
Callback == \/ lpc = "launch" /\ JoinedAt("INTENT")
            \/ lpc = "finish" /\ JoinedAt("LAUNCHED")

\* Mutant: the check looks at the journals, not at the bridge's own poison.
CheckReadyPoisoned ==
  /\ bpc = "life"
  /\ ~ready
  /\ Callback
  /\ ready' = TRUE
  /\ UNCHANGED <<bvars, lvars, profiles, bpc, bpoisoned, bopen, next, host, ids>>

CheckReady ==
  /\ bpc = "life"
  /\ ~ready
  /\ ~bpoisoned
  /\ Callback
  /\ ready' = TRUE
  /\ UNCHANGED <<bvars, lvars, profiles, bpc, bpoisoned, bopen, next, host, ids>>

\* A snapshot of the budget journal, whose check may fail.
SnapshotsBudget ==
  /\ poisoned' \in {poisoned, TRUE}
  /\ UNCHANGED bkept

\* The check fails: launch or finish raises without calling the backend.
\* It may fail at any time, since it also reads the binding and the directory;
\* the snapshots it takes may poison both journals.
NotReady ==
  /\ bpc = "life"
  /\ ~ready
  /\ \/ /\ lpc = "launch"
        /\ lpoisoned' = TRUE
        /\ L!Leave
        /\ UNCHANGED lkept
     \/ /\ lpc = "finish"
        /\ lpoisoned' \in {lpoisoned, TRUE}
        /\ run' = [run EXCEPT !.problem = TRUE]
        /\ L!Goto("cleanup")
        /\ UNCHANGED lkept
  /\ SnapshotsBudget
  /\ UNCHANGED <<profiles, own>>

\* The backend's callbacks, once the check has passed.
BackendCall ==
  /\ bpc = "life"
  /\ ready
  /\ \/ \E ident \in L!Identity \cup {NoIdentity} : L!Launch(ident)
     \/ L!LaunchFails
     \/ \E result \in L!Result : L!Finish(result)
     \/ L!FinishRaises
  /\ ready' = FALSE
  /\ UNCHANGED <<bvars, profiles, bpc, bpoisoned, bopen, next, host, ids>>

\* The lifecycle's own appends, and the cleanup, which nothing obstructs.
LifecycleStep ==
  /\ bpc = "life"
  /\ \/ L!AppendIntent
     \/ L!AppendLaunched
     \/ L!Cleanup
     \/ \E ns \in Time : L!AppendReaped(BoundSession, ns)
     \/ L!ReapRaises
  /\ UNCHANGED <<bvars, profiles, own>>

\* The lifecycle returned a complete, acknowledged attempt of this phase.
Settleable ==
  /\ bpc = "life"
  /\ lpc = "idle"
  /\ ~bpoisoned
  /\ L!CompleteLive
  /\ Last(att).aid = Task
  /\ host \in {NoHost, Last(att).ident.host}
  /\ Last(att).ident \notin ids

\* Mutant: the settlement always says that the task succeeded.
BeginSettleOptimist ==
  /\ Settleable
  /\ B!BeginSettle("SUCCESS", Last(att).end - Last(att).start, TRUE)
  /\ host' = Last(att).ident.host
  /\ ids' = ids \cup {Last(att).ident}
  /\ Goto("settle")
  /\ UNCHANGED <<lvars, profiles, bpoisoned, bopen, next, ready>>

BeginSettle ==
  /\ Settleable
  /\ B!BeginSettle(StatusOf(Last(att).profile),
                   Last(att).end - Last(att).start, TRUE)
  /\ host' = Last(att).ident.host
  /\ ids' = ids \cup {Last(att).ident}
  /\ Goto("settle")
  /\ UNCHANGED <<lvars, profiles, bpoisoned, bopen, next, ready>>

\* settle() has returned the snapshot of a live, acknowledged journal.
Settled ==
  /\ bpc = "settle"
  /\ pc = "idle"
  /\ bud.active = NoSlot
  /\ B!Acknowledged
  /\ file = "own"
  /\ ~bpoisoned

\* The snapshots of both journals, taken together: a check of one that fails
\* poisons it, and with it the bridge.
Snapshots ==
  /\ SnapshotsBudget
  /\ lpoisoned' \in {lpoisoned, TRUE}
  /\ <<poisoned, lpoisoned>>' # <<poisoned, lpoisoned>> => bpoisoned'
  /\ UNCHANGED <<lkept, lpc, run>>

\* run() ends with a snapshot, which may still poison bridge and journals,
\* but not undo the task.
Finish ==
  /\ Settled
  /\ next' = next + 1
  /\ bpoisoned' \in {~LiveJoin(next + 1), TRUE}
  /\ Snapshots
  /\ Goto("idle")
  /\ UNCHANGED <<profiles, bopen, host, ids, ready>>

\* run() raises where it stands: it poisons, and releases the lock.
Raise ==
  /\ pc = "idle"
  /\ lpc = "idle"
  /\ Goto("idle")
  /\ bpoisoned' = TRUE
  /\ UNCHANGED <<bvars, lvars, profiles, bopen, next, host, ids, ready>>

\* Mutant: a failed settlement is outside of the try block.
FailButNotInSettle == bpc \in {"idle", "reserve", "life"} /\ Raise

\* Wrong arguments, a closed or poisoned bridge, a binding or a directory that
\* changed, a lifecycle that is not complete, a journal that refused or lost
\* an append, or an interrupt outside of both journals.
Fail == bpc # "dead" /\ Raise

\* run, snapshot or close is called while a run holds the lock.
Reenter ==
  /\ bpc \in {"reserve", "life", "settle"}
  /\ bpoisoned' = TRUE
  /\ UNCHANGED <<bvars, lvars, profiles, bpc, bopen, next, host, ids, ready>>

\* snapshot() outside a run, when its check or its join fails.
Snapshot ==
  /\ bpc = "idle"
  /\ bopen
  /\ bpoisoned' = TRUE
  /\ Snapshots
  /\ UNCHANGED <<profiles, bpc, bopen, next, host, ids, ready>>

Close ==
  /\ bpc = "idle"
  /\ bopen
  /\ bopen' = FALSE
  /\ B!Close
  /\ L!LClose
  /\ bpoisoned' \in {bpoisoned, bpoisoned \/ poisoned'}
  /\ UNCHANGED <<profiles, bpc, next, host, ids, ready>>

\* Somebody else changes one of the two files.
Interfere ==
  /\ \/ B!Interfere /\ UNCHANGED lvars
     \/ L!LInterfere /\ UNCHANGED bvars
  /\ UNCHANGED <<profiles, own>>

\* A KeyboardInterrupt in a journal, where that journal poisons nothing.
Interrupt ==
  /\ \/ bpc \in {"reserve", "settle"} /\ B!Interrupt /\ UNCHANGED lvars
     \/ /\ bpc = "life"
        /\ ~ready
        /\ L!InterruptAppend \/ L!InterruptRun
        /\ UNCHANGED bvars
  /\ UNCHANGED <<profiles, own>>

\* The process dies, with both writers in it.
Crash ==
  /\ bpc # "dead"
  /\ Goto("dead")
  /\ B!Crash
  /\ L!LCrash
  /\ UNCHANGED <<profiles, bpoisoned, bopen, next, host, ids, ready>>

RunStep ==
  \/ BudgetStep
  \/ \E ns \in Time : BeginLife(ns)
  \/ CheckReady \/ NotReady \/ BackendCall \/ LifecycleStep
  \/ BeginSettle \/ Finish
  \/ bpc # "idle" /\ Fail

Next ==
  \/ Start \/ RunStep \/ Fail \/ Interrupt
  \/ Reenter \/ Snapshot \/ Close \/ Interfere \/ Crash

\* The caller's code is running: the clock, launch, finish or cleanup.  The
\* bridge passes none of them a timeout.
InCallback ==
  \/ DebitAcked
  \/ ready
  \/ lpc = "cleanup"
  \/ lpc = "reap" /\ lrow = L!NoLRow

\* The run's own steps, between two callbacks, go on: I/O returns or raises.
\* Nothing is assumed of the callbacks.
Spec == Init /\ [][Next]_vars /\ WF_vars(~InCallback /\ RunStep)

-----------------------------------------------------------------------------
TypeOK ==
  /\ profiles \in ProfileMaps
  /\ bpc \in {"idle", "reserve", "life", "settle", "dead"}
  /\ bpoisoned \in BOOLEAN
  /\ bopen \in BOOLEAN
  /\ next \in 0 .. Len(Plan)
  /\ host \in Host \cup {NoHost}
  /\ ids \subseteq L!Identity
  /\ ready \in BOOLEAN

\* Nobody else wrote into the two files.
NothingForeign ==
  /\ \A n \in 1 .. Len(disk) : disk[n] \notin {B!Stray, B!Overwritten}
  /\ \A n \in 1 .. Len(ldisk) : ldisk[n] # L!LStray

\* Every process that ever existed was paid for: the launches follow the plan,
\* one for each task at most, and the debit of each, that of its own slot, is
\* on stable storage, as is its intent, so that a crash or an interrupt at any
\* point cannot lead to a second one.
LaunchPaidFor ==
  \A i \in 1 .. Len(world) :
     /\ i <= Len(Plan) /\ world[i].aid = Plan[i].uid
     /\ B!Intact =>
          \E n \in 1 .. synced :
             disk[n] = [kind |-> "DEBIT", uid |-> world[i].aid, slot |-> i]
     /\ \E n \in 1 .. lacked :
           ldisk[n].kind = "INTENT" /\ ldisk[n].aid = world[i].aid

\* At every moment of a run, and after an interrupt or a crash at any of them,
\* load() accepts the two files, unless one is torn, somebody else wrote into
\* one, or the backend named two hosts.
JoinHoldsOnDisk ==
  NothingForeign =>
     \E b \in B!Replay(decl, disk), A \in L!LReplay(ldisk) :
        OneHost(A) => Join(disk, A)

\* Neither the live bridge nor a load() reports a complete phase unless every
\* task ran in its own process, all of them on one host, and each process is
\* known to be gone, was a success, and stayed within the envelope that was
\* debited for it.
CompleteMeansEveryTaskRan ==
  \A b \in B!Replay(decl, disk), A \in L!LReplay(ldisk) :
     FullSuccess(disk, b, A) =>
        /\ Len(world) = Len(Plan)
        /\ OneHost(A)
        /\ \A i \in 1 .. Len(Plan) :
              /\ world[i].handle
              /\ world[i].cleaned = "verified"
              /\ profiles[Plan[i].uid] = "success"
              /\ A[i].end - A[i].start <= Envelope(Plan[i])

\* A poisoned bridge, even one poisoned in the middle of a run by a reentrant
\* call, lets no further callback through to the backend, launches nothing it
\* had not let through before, and pairs no task (_ready, run, snapshot).
NothingAfterPoison ==
  [][bpoisoned => /\ ready' => ready
                  /\ Len(world') > Len(world) => ready
                  /\ bpc' = "settle" => bpc = "settle"
                  /\ UNCHANGED next]_vars

\* If every callback comes to an end, so does a run, whatever fails in it: the
\* lock is released.
RunReleasesLock ==
  []<>~InCallback => ((bpc = "reserve") ~> (bpc \in {"idle", "dead"}))
=============================================================================
