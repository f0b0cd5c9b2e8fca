---------------------------- MODULE LifecycleJournal ----------------------------
(***************************************************************************)
(* The lifecycle journal of src/data/prospective_lifecycle_journal_v2.py:  *)
(* State.apply, append and run.  One attempt is a durable INTENT, a launch *)
(* by the backend, a durable LAUNCHED, the wait for its end, a cleanup     *)
(* that is tried after whatever a callback raises, and a durable REAPED.   *)
(*                                                                         *)
(* An append is two steps: the try block that writes, syncs and checks the *)
(* row (how its parts interleave with other calls is what BudgetJournal    *)
(* models), and the publication of the attempts behind that block, where   *)
(* an interrupt poisons nothing.  run() has such places of its own.        *)
(***************************************************************************)
EXTENDS Naturals, Sequences, SequencesExt

CONSTANTS
  Aid,          \* attempt identifiers
  Host, Pid,    \* a process identity is a host (and boot) with a pid
  Profile,      \* PROFILES
  Session,      \* clock sessions
  Time,         \* readings of the clock, in nanoseconds
  MaxAttempts,  \* MAX_ATTEMPTS
  NoIdentity    \* an identity the schema rejects, and that of no process

ASSUME LifecycleAssumption ==
  /\ Time \subseteq Nat
  /\ MaxAttempts \in Nat
  /\ NoIdentity \notin [host : Host, pid : Pid]

VARIABLES
  att,        \* RAM: the acknowledged attempts, in order of their INTENT
  lacked,     \* RAM: how many rows are acknowledged
  lpoisoned,  \* RAM: _poisoned
  lwriter,    \* "open", "closed", or "dead" when the process is gone
  lpc,        \* progress of run()
  run,        \* the locals of run()
  lrow,       \* the row that is durable and checked, not yet published
  ldisk,      \* the complete lines in the file after the header
  ltorn,      \* the file ends in an incomplete line
  lfile,      \* "own", or "changed" by somebody else
  world,      \* history: every process the backend spawned, in order
  linterrupted  \* history: an interrupt left run() or append() poisoning nothing

book == <<att, lacked, lrow, ldisk, ltorn>>
lvars == <<att, lacked, lpoisoned, lwriter, lpc, run, lrow, ldisk, ltorn, lfile,
           world, linterrupted>>

Phase == {"INTENT", "LAUNCHED", "REAPED"}
Identity == [host : Host, pid : Pid]

\* What finish() returns: the outcome EXPECTED for a profile, or another one.
Result == Profile \cup {"OTHER"}

Attempt == [aid : Aid, profile : Profile, phase : Phase, session : Session,
            start : Time, end : Time, ident : Identity \cup {NoIdentity}]

\* handle: the caller got one; cleaned: no attempt, a failed or a verified one.
Process == [aid : Aid, handle : BOOLEAN,
            cleaned : {"no", "unverified", "verified"}]

Run == [aid : Aid, profile : Profile, session : Session, start : Time,
        ident : Identity \cup {NoIdentity}, result : Result,
        problem : BOOLEAN]

LRow ==
  [kind : {"INTENT"}, aid : Aid, profile : Profile, session : Session,
   ns : Time] \cup
  [kind : {"LAUNCHED"}, aid : Aid, ident : Identity \cup {NoIdentity}] \cup
  [kind : {"REAPED"}, aid : Aid, ident : Identity \cup {NoIdentity},
   session : Session, ns : Time, result : Result]

NoLRow == [kind |-> "NONE"]

\* A line that somebody else appended.
LStray == [kind |-> "STRAY"]

-----------------------------------------------------------------------------
\* State.apply: which rows it takes, and the attempts after one.

Aids(A) == {A[i].aid : i \in 1 .. Len(A)}

\* At most the last attempt is active: an INTENT waits for the REAPED before.
ActiveIn(A) == A # <<>> /\ Last(A).phase # "REAPED"

\* Mutant: a new intent does not look at the clock of the last attempt.
LAcceptsAnyClock(A, r) ==
  \/ /\ r.kind = "INTENT"
     /\ ~ActiveIn(A)
     /\ r.aid \notin Aids(A)
     /\ Len(A) < MaxAttempts
  \/ /\ r.kind = "LAUNCHED"
     /\ ActiveIn(A)
     /\ Last(A).aid = r.aid
     /\ Last(A).phase = "INTENT"
     /\ r.ident \in Identity
     /\ \A i \in 1 .. Len(A) : A[i].ident # r.ident
  \/ /\ r.kind = "REAPED"
     /\ ActiveIn(A)
     /\ Last(A).aid = r.aid
     /\ Last(A).phase = "LAUNCHED"
     /\ r.ident = Last(A).ident
     /\ r.session = Last(A).session
     /\ Last(A).start <= r.ns
     /\ r.result = Last(A).profile

LAccepts(A, r) ==
  \/ /\ r.kind = "INTENT"
     /\ ~ActiveIn(A)
     /\ r.aid \notin Aids(A)
     /\ Len(A) < MaxAttempts
     /\ A # <<>> => r.session = Last(A).session /\ Last(A).end <= r.ns
  \/ /\ r.kind = "LAUNCHED"
     /\ ActiveIn(A)
     /\ Last(A).aid = r.aid
     /\ Last(A).phase = "INTENT"
     /\ r.ident \in Identity
     /\ \A i \in 1 .. Len(A) : A[i].ident # r.ident
  \/ /\ r.kind = "REAPED"
     /\ ActiveIn(A)
     /\ Last(A).aid = r.aid
     /\ Last(A).phase = "LAUNCHED"
     /\ r.ident = Last(A).ident
     /\ r.session = Last(A).session
     /\ Last(A).start <= r.ns
     /\ r.result = Last(A).profile

\* The end of an attempt means nothing before its REAPED.
LAfter(A, r) ==
  CASE r.kind = "INTENT" ->
         Append(A, [aid |-> r.aid, profile |-> r.profile, phase |-> "INTENT",
                    session |-> r.session, start |-> r.ns, end |-> r.ns,
                    ident |-> NoIdentity])
    [] r.kind = "LAUNCHED" ->
         [A EXCEPT ![Len(A)].phase = "LAUNCHED", ![Len(A)].ident = r.ident]
    [] r.kind = "REAPED" ->
         [A EXCEPT ![Len(A)].phase = "REAPED", ![Len(A)].end = r.ns]

LReplay(rows) ==
  LET books[n \in 0 .. Len(rows)] ==
        IF n = 0 THEN {<<>>}
        ELSE {LAfter(A, rows[n]) :
                A \in {B \in books[n - 1] : LAccepts(B, rows[n])}}
  IN  books[Len(rows)]

-----------------------------------------------------------------------------
\* append(): rejected before any I/O, failed in the try block, or through it
\* with a row that is durable and still to be published.

Available == lwriter = "open" /\ ~lpoisoned

Rejects(r) ==
  /\ lrow = NoLRow
  /\ ~Available \/ ~LAccepts(att, r)
  /\ UNCHANGED <<book, lpoisoned>>

Breaks(r) ==
  /\ lrow = NoLRow
  /\ Available
  /\ LAccepts(att, r)
  /\ lpoisoned' = TRUE
  /\ \/ UNCHANGED <<ldisk, ltorn>>
     \/ lfile = "own" /\ ltorn' = TRUE /\ UNCHANGED ldisk
     \/ lfile = "own" /\ ldisk' = Append(ldisk, r) /\ UNCHANGED ltorn
  /\ UNCHANGED <<att, lacked, lrow>>

Writes(r) ==
  /\ lrow = NoLRow
  /\ Available
  /\ LAccepts(att, r)
  /\ lfile = "own"
  /\ ldisk' = Append(ldisk, r)
  /\ lrow' = r
  /\ UNCHANGED <<att, lacked, ltorn, lpoisoned>>

\* self._state = trial: whatever has become of the journal meanwhile.
Publishes ==
  /\ lrow # NoLRow
  /\ att' = LAfter(att, lrow)
  /\ lacked' = lacked + 1
  /\ lrow' = NoLRow
  /\ UNCHANGED <<ldisk, ltorn, lpoisoned>>

-----------------------------------------------------------------------------
\* run(), step by step.

NoRun == [aid |-> "NONE"]

\* What no append of run() changes.
aside == <<lwriter, lfile, world, linterrupted>>

LInit ==
  /\ att = <<>>
  /\ lacked = 0
  /\ lpoisoned = FALSE
  /\ lwriter = "open"
  /\ lpc = "idle"
  /\ run = NoRun
  /\ lrow = NoLRow
  /\ ldisk = <<>>
  /\ ltorn = FALSE
  /\ lfile = "own"
  /\ world = <<>>
  /\ linterrupted = FALSE

Goto(step) == lpc' = step

\* Leaving run(), by return or by an exception.
Leave == lpc' = "idle" /\ run' = NoRun

\* The guards of run(), and the first reading of the clock.
RunStart(aid, profile, session, ns) ==
  /\ Available
  /\ lpc = "idle"
  /\ ~ActiveIn(att)
  /\ aid \notin Aids(att)
  /\ run' = [aid |-> aid, profile |-> profile, session |-> session,
             start |-> ns, ident |-> NoIdentity, result |-> "OTHER",
             problem |-> FALSE]
  /\ Goto("intent")
  /\ UNCHANGED <<book, lpoisoned, aside>>

IntentRow == [kind |-> "INTENT", aid |-> run.aid, profile |-> run.profile,
              session |-> run.session, ns |-> run.start]

\* Mutant: the launch does not wait for the acknowledgment of its intent.
AppendIntentOptimistic ==
  /\ lpc = "intent"
  /\ \/ Writes(IntentRow) /\ UNCHANGED <<lpc, run>>
     \/ (Publishes \/ Breaks(IntentRow)) /\ Goto("launch") /\ UNCHANGED run
     \/ Rejects(IntentRow) /\ Leave
  /\ UNCHANGED aside

AppendIntent ==
  /\ lpc = "intent"
  /\ \/ Writes(IntentRow) /\ UNCHANGED <<lpc, run>>
     \/ Publishes /\ Goto("launch") /\ UNCHANGED run
     \/ (Breaks(IntentRow) \/ Rejects(IntentRow)) /\ Leave
  /\ UNCHANGED aside

Spawned(handle) ==
  world' = Append(world, [aid |-> run.aid, handle |-> handle, cleaned |-> "no"])

\* backend.launch returns a handle, with whatever it claims as identity.
Launch(ident) ==
  /\ lpc = "launch"
  /\ Spawned(TRUE)
  /\ run' = [run EXCEPT !.ident = ident]
  /\ Goto("register")
  /\ UNCHANGED <<book, lpoisoned, lwriter, lfile, linterrupted>>

\* backend.launch raises or returns no handle; a process may be left behind.
LaunchFails ==
  /\ lpc = "launch"
  /\ Spawned(FALSE) \/ UNCHANGED world
  /\ lpoisoned' = TRUE
  /\ Leave
  /\ UNCHANGED <<book, lwriter, lfile, linterrupted>>

LaunchedRow == [kind |-> "LAUNCHED", aid |-> run.aid, ident |-> run.ident]

\* Mutant: a failed registration leaves run() without the cleanup.
AppendLaunchedNoCleanup ==
  /\ lpc = "register"
  /\ \/ Writes(LaunchedRow) /\ UNCHANGED <<lpc, run>>
     \/ Publishes /\ Goto("finish") /\ UNCHANGED run
     \/ (Breaks(LaunchedRow) \/ Rejects(LaunchedRow)) /\ Leave
  /\ UNCHANGED aside

\* A rejected identity or a failed append is a problem; cleanup comes first.
AppendLaunched ==
  /\ lpc = "register"
  /\ \/ Writes(LaunchedRow) /\ UNCHANGED <<lpc, run>>
     \/ Publishes /\ Goto("finish") /\ UNCHANGED run
     \/ /\ Breaks(LaunchedRow) \/ Rejects(LaunchedRow)
        /\ run' = [run EXCEPT !.problem = TRUE]
        /\ Goto("cleanup")
  /\ UNCHANGED aside

\* backend.finish returns a result, or raises.
Finish(result) ==
  /\ lpc = "finish"
  /\ run' = [run EXCEPT !.result = result]
  /\ Goto("cleanup")
  /\ UNCHANGED <<book, lpoisoned, aside>>

FinishRaises ==
  /\ lpc = "finish"
  /\ run' = [run EXCEPT !.problem = TRUE]
  /\ Goto("cleanup")
  /\ UNCHANGED <<book, lpoisoned, aside>>

Cleaned(how) == world' = [world EXCEPT ![Len(world)].cleaned = how]

\* Mutant: nobody looks at the two flags cleanup returns.
CleanupUnchecked ==
  /\ lpc = "cleanup"
  /\ Cleaned("verified") \/ Cleaned("unverified")
  /\ Goto("reap")
  /\ UNCHANGED <<run, lpoisoned, book, lwriter, lfile, linterrupted>>

\* backend.cleanup, whatever the callbacks raised: verified, or not.
Cleanup ==
  /\ lpc = "cleanup"
  /\ \/ Cleaned("verified") /\ Goto("reap") /\ UNCHANGED <<run, lpoisoned>>
     \/ Cleaned("unverified") /\ lpoisoned' = TRUE /\ Leave
  /\ UNCHANGED <<book, lwriter, lfile, linterrupted>>

ReapedRow(session, ns) ==
  [kind |-> "REAPED", aid |-> run.aid, ident |-> run.ident,
   session |-> session, ns |-> ns, result |-> run.result]

\* The second reading of the clock, and the terminal row; whatever raises in
\* this part (the clock, the result, the row) poisons.
AppendReaped(session, ns) ==
  /\ lpc = "reap"
  /\ ~run.problem
  /\ \/ Writes(ReapedRow(session, ns)) /\ UNCHANGED <<lpc, run>>
     \/ (Publishes \/ Breaks(ReapedRow(session, ns))) /\ Leave
  /\ UNCHANGED aside

\* An earlier problem is raised again, or this part raises: both poison.
ReapRaises ==
  /\ lpc = "reap"
  /\ lrow = NoLRow
  /\ lpoisoned' = TRUE
  /\ Leave
  /\ UNCHANGED <<book, aside>>

\* A KeyboardInterrupt while a row is durable and not yet published (lines
\* 241-246), where append() catches nothing: run() catches it for LAUNCHED,
\* to clean up, and for REAPED, to poison, but not for INTENT.
InterruptAppend ==
  /\ lrow # NoLRow
  /\ \/ lpc = "intent" /\ Leave /\ UNCHANGED lpoisoned
     \/ /\ lpc = "register"
        /\ run' = [run EXCEPT !.problem = TRUE]
        /\ Goto("cleanup")
        /\ UNCHANGED lpoisoned
     \/ lpc = "reap" /\ lpoisoned' = TRUE /\ Leave
  /\ lrow' = NoLRow
  /\ linterrupted' = TRUE
  /\ UNCHANGED <<att, lacked, ldisk, ltorn, lwriter, lfile, world>>

\* A KeyboardInterrupt between the try blocks of run(): before the INTENT,
\* behind it (line 264), once launch has returned its handle (267, poisoning,
\* or 271-272), before the cleanup (280) or behind it (290-292).
InterruptRun ==
  /\ lrow = NoLRow
  /\ lpc \in {"intent", "launch", "register", "cleanup", "reap"}
  /\ lpoisoned' \in {lpoisoned, lpoisoned \/ lpc \in {"register", "cleanup"}}
  /\ Leave
  /\ linterrupted' = TRUE
  /\ UNCHANGED <<book, lwriter, lfile, world>>

\* The check of snapshot(), in a run or out of one, by any thread, fails: the
\* file has changed, if only by an append under way, or looking at it raised.
LSnapshot ==
  /\ Available
  /\ lpoisoned' = TRUE
  /\ UNCHANGED <<book, lpc, run, aside>>

\* close() takes no lock: it may come in the middle of a run.
LClose ==
  /\ lwriter = "open"
  /\ lwriter' = "closed"
  /\ UNCHANGED <<book, lpoisoned, lpc, run, lfile, world, linterrupted>>

\* Somebody else touches, links or replaces the file, or appends to it.
LInterfere ==
  /\ lfile = "own"
  /\ lfile' = "changed"
  /\ \/ ldisk' = Append(ldisk, LStray) /\ UNCHANGED ltorn
     \/ ltorn' \in {ltorn, TRUE} /\ UNCHANGED ldisk
  /\ UNCHANGED <<att, lacked, lrow, lpoisoned, lwriter, lpc, run, world,
                 linterrupted>>

\* The process dies: in an append, part of a row or all of it may be written.
LCrash ==
  /\ lwriter # "dead"
  /\ lwriter' = "dead"
  /\ Leave
  /\ lrow' = NoLRow
  /\ UNCHANGED <<att, lacked, lpoisoned, lfile, world, linterrupted>>
  /\ \/ UNCHANGED <<ldisk, ltorn>>
     \/ /\ lpc \in {"intent", "register"}
        /\ lrow = NoLRow
        /\ Available
        /\ LET r == IF lpc = "intent" THEN IntentRow ELSE LaunchedRow
           IN  /\ LAccepts(att, r)
               /\ \/ ldisk' = Append(ldisk, r) /\ UNCHANGED ltorn
                  \/ ltorn' = TRUE /\ UNCHANGED ldisk
     \/ /\ lpc = "reap"
        /\ ~run.problem
        /\ lrow = NoLRow
        /\ Available
        /\ \E s \in Session, ns \in Time :
              /\ LAccepts(att, ReapedRow(s, ns))
              /\ \/ ldisk' = Append(ldisk, ReapedRow(s, ns)) /\ UNCHANGED ltorn
                 \/ ltorn' = TRUE /\ UNCHANGED ldisk

\* run() takes one of its own steps.
RunStep ==
  \/ AppendIntent
  \/ \E ident \in Identity \cup {NoIdentity} : Launch(ident)
  \/ LaunchFails
  \/ AppendLaunched
  \/ \E result \in Result : Finish(result)
  \/ FinishRaises
  \/ Cleanup
  \/ \E s \in Session, ns \in Time : AppendReaped(s, ns)
  \/ ReapRaises

LNext ==
  \/ \E aid \in Aid, p \in Profile, s \in Session, ns \in Time :
        RunStart(aid, p, s, ns)
  \/ RunStep
  \/ InterruptAppend \/ InterruptRun
  \/ LSnapshot \/ LClose \/ LInterfere \/ LCrash

LSpec == LInit /\ [][LNext]_lvars

-----------------------------------------------------------------------------
LTypeOK ==
  /\ att \in Seq(Attempt)
  /\ lacked \in Nat
  /\ lpoisoned \in BOOLEAN
  /\ lwriter \in {"open", "closed", "dead"}
  /\ lpc \in {"idle", "intent", "launch", "register", "finish", "cleanup", "reap"}
  /\ run \in Run \cup {NoRun}
  /\ lrow \in LRow \cup {NoLRow}
  /\ ldisk \in Seq(LRow \cup {LStray})
  /\ ltorn \in BOOLEAN
  /\ lfile \in {"own", "changed"}
  /\ world \in Seq(Process)
  /\ linterrupted \in BOOLEAN

\* structural_complete and complete_live_acknowledged of summary().
AllReaped(A) == A # <<>> /\ \A i \in 1 .. Len(A) : A[i].phase = "REAPED"
CompleteLive == Available /\ AllReaped(att)

\* run() has been left without the cleanup of a process it had a handle of.
Forsaken ==
  /\ lpc = "idle"
  /\ \E i \in 1 .. Len(world) : world[i].handle /\ world[i].cleaned = "no"

\* Every process was announced: its INTENT is in the file, and no attempt
\* spawns twice, whatever was interrupted.  The rows that were acknowledged
\* replay to the attempts in memory, unless an interrupt kept one from them.
SpawnHasDurableIntent ==
  /\ \A i \in 1 .. Len(world) :
        /\ \E n \in 1 .. Len(ldisk) :
              ldisk[n].kind = "INTENT" /\ ldisk[n].aid = world[i].aid
        /\ \A j \in 1 .. Len(world) : world[i].aid = world[j].aid => i = j
  /\ ~linterrupted =>
        /\ lacked <= Len(ldisk)
        /\ LReplay(SubSeq(ldisk, 1, lacked)) = {att}

\* A journal that reports itself complete and acknowledged has, for every
\* attempt, one process, whose end was verified; the measured intervals follow
\* each other on one clock, so that their sum counts no moment twice; and the
\* file, which nobody else has changed, says the same, unless an interrupt once
\* kept a row from the attempts in memory.
CompleteMeansAllGone ==
  CompleteLive /\ lpc = "idle" =>
     /\ Len(world) = Len(att)
     /\ \A i \in 1 .. Len(world) :
           world[i].handle /\ world[i].cleaned = "verified"
     /\ \A i, j \in 1 .. Len(att) :
           i < j => /\ att[i].session = att[j].session
                    /\ att[i].end <= att[j].start
                    /\ att[i].ident # att[j].ident
     /\ lfile = "own" /\ ~linterrupted => LReplay(ldisk) = {att}

\* Nothing is launched unless every process before it had a handle and is
\* verified gone: a launch that raised, a cleanup that is not verified and an
\* interrupt that left run() before its cleanup are the last of the journal.
NoSpawnAfterUnresolved ==
  [][Len(world') # Len(world) =>
        \A i \in 1 .. Len(world) :
           world[i].handle /\ world[i].cleaned = "verified"]_lvars

\* Whatever fails in a run, and whoever closes or poisons the journal in the
\* middle of it: when run() has been left, no process whose handle it got is
\* without its cleanup, unless an interrupt fell between its try blocks.
KnownHandleIsCleaned ==
  lwriter # "dead" /\ ~linterrupted => ~Forsaken
=============================================================================
