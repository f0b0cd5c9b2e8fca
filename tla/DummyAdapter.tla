------------------------------ MODULE DummyAdapter ------------------------------
(***************************************************************************)
(* The adapter that runs one fixed child at a time and records it in an    *)
(* attempt journal (src/data/prospective_dummy_adapter_v1.py): PLAN and    *)
(* START before the child, END after it was reaped.  One worker lock and   *)
(* one flag hold for all journals of the process.                          *)
(*                                                                         *)
(* A journal is what AttemptJournal promises: an append publishes, or      *)
(* raises and publishes nothing; raising, it may have disabled the writer. *)
(***************************************************************************)
EXTENDS Naturals

CONSTANTS Journal, DAttempt

VARIABLES
  state,     \* the published state of every attempt of every journal
  writable,  \* the journals that are open and not poisoned
  dpc, job,   \* progress of run_dummy, which holds _WORKER, and its attempt
  cause,     \* why the child is killed
  unreaped,  \* _UNREAPED_CHILD
  running    \* the children that exist, by their attempt

dvars == <<state, writable, dpc, job, cause, unreaped, running>>

Job == Journal \X DAttempt
DTerminal == {"SUCCESS", "FAILED", "TIMEOUT"}
DState == {"ABSENT", "PLANNED", "RUNNING"} \cup DTerminal

DInit ==
  /\ state = [j \in Job |-> "ABSENT"]
  /\ writable = Journal
  /\ dpc = "idle"
  /\ job \in Job
  /\ cause = "none"
  /\ unreaped = FALSE
  /\ running = {}

\* run_dummy() takes the lock; a call that finds it taken is refused.
RunDummy(j) ==
  /\ dpc = "idle"
  /\ dpc' = "admit"
  /\ job' = j
  /\ cause' = "none"
  /\ UNCHANGED <<state, writable, unreaped, running>>

\* No child of this process is at large, and every attempt of the journal has
\* come to its end.
Admit ==
  /\ dpc = "admit"
  /\ ~unreaped
  /\ \A a \in DAttempt : state[<<job[1], a>>] \in {"ABSENT"} \cup DTerminal
  /\ dpc' = "plan"
  /\ UNCHANGED <<state, writable, job, cause, unreaped, running>>

\* An append is published.
Record(from, to) ==
  /\ job[1] \in writable
  /\ state[job] = from
  /\ state' = [state EXCEPT ![job] = to]
  /\ UNCHANGED <<writable, job, cause, running>>

Plan ==
  /\ dpc = "plan"
  /\ dpc' = "start"
  /\ Record("ABSENT", "PLANNED")
  /\ UNCHANGED unreaped

Start ==
  /\ dpc = "start"
  /\ dpc' = "flag"
  /\ Record("PLANNED", "RUNNING")
  /\ UNCHANGED unreaped

Flag ==
  /\ dpc = "flag"
  /\ unreaped' = TRUE
  /\ dpc' = "spawn"
  /\ UNCHANGED <<state, writable, job, cause, running>>

Spawn ==
  /\ dpc = "spawn"
  /\ running' = running \cup {job}
  /\ dpc' = "wait"
  /\ UNCHANGED <<state, writable, job, cause, unreaped>>

\* Popen raises, with or without a child.
SpawnFails ==
  /\ dpc = "spawn"
  /\ running' \in {running, running \cup {job}}
  /\ unreaped' = TRUE
  /\ dpc' = "release"
  /\ UNCHANGED <<state, writable, job, cause>>

Wait ==
  /\ dpc = "wait"
  /\ job \notin running
  /\ dpc' = "end"
  /\ UNCHANGED <<state, writable, job, cause, unreaped, running>>

\* The wait times out, returns what is not an exit code, or raises.
WaitFails(why) ==
  /\ dpc = "wait"
  /\ cause' = why
  /\ dpc' = "kill"
  /\ UNCHANGED <<state, writable, job, unreaped, running>>

\* Mutant: the reap has no timeout.
KillUnbounded ==
  /\ dpc = "kill"
  /\ job \notin running
  /\ dpc' = IF cause = "timeout" THEN "end" ELSE "release"
  /\ UNCHANGED <<state, writable, job, cause, unreaped, running>>

\* Mutant: what was killed is taken for reaped.
KillAssumesDead ==
  /\ dpc = "kill"
  /\ running' \in {running, running \ {job}}
  /\ dpc' = IF cause = "timeout" THEN "end" ELSE "release"
  /\ UNCHANGED <<state, writable, job, cause, unreaped>>

\* _kill_reap(): kill() and the bounded wait may each fail.  Only a timed out
\* child that was killed and reaped without an error comes to an END.
Kill ==
  /\ dpc = "kill"
  /\ running' \in {running, running \ {job}}
  /\ \E killed, reaped \in BOOLEAN :
        /\ reaped => job \notin running'
        /\ unreaped' = (unreaped \/ ~reaped)
        /\ dpc' = IF cause = "timeout" /\ killed /\ reaped THEN "end" ELSE "release"
  /\ UNCHANGED <<state, writable, job, cause>>

End ==
  /\ dpc = "end"
  /\ dpc' = "clear"
  /\ \E s \in IF cause = "timeout" THEN {"TIMEOUT"} ELSE {"SUCCESS", "FAILED"} :
        Record("RUNNING", s)
  /\ UNCHANGED unreaped

Clear ==
  /\ dpc = "clear"
  /\ unreaped' = FALSE
  /\ dpc' = "release"
  /\ UNCHANGED <<state, writable, job, cause, running>>

\* An append raises; I/O errors disable the writer, a rejection or an
\* interrupt does not.
RecordFails ==
  /\ dpc \in {"plan", "start", "end"}
  /\ writable' \in {writable, writable \ {job[1]}}
  /\ dpc' = "release"
  /\ UNCHANGED <<state, job, cause, unreaped, running>>

\* The attempt is not admitted, or an interrupt strikes between two calls.
Raises ==
  /\ dpc \in {"admit", "flag", "clear"}
  /\ dpc' = "release"
  /\ UNCHANGED <<state, writable, job, cause, unreaped, running>>

\* Mutant: the next call begins with a clean slate.
ReleaseClears ==
  /\ dpc = "release"
  /\ dpc' = "idle"
  /\ unreaped' = FALSE
  /\ UNCHANGED <<state, writable, job, cause, running>>

Release ==
  /\ dpc = "release"
  /\ dpc' = "idle"
  /\ UNCHANGED <<state, writable, job, cause, unreaped, running>>

\* A child comes to its end by itself.
Exit(j) ==
  /\ running' = running \ {j}
  /\ UNCHANGED <<state, writable, dpc, job, cause, unreaped>>

\* The owner closes a journal.
CloseJournal(n) ==
  /\ writable' = writable \ {n}
  /\ UNCHANGED <<state, dpc, job, cause, unreaped, running>>

DRunStep ==
  \/ Admit \/ Plan \/ Start \/ Flag \/ Spawn \/ SpawnFails
  \/ Wait \/ (\E why \in {"timeout", "unverified", "raised"} : WaitFails(why))
  \/ Kill \/ End \/ Clear \/ RecordFails \/ Raises \/ Release

DNext ==
  \/ DRunStep
  \/ \E j \in Job : RunDummy(j)
  \/ \E j \in running : Exit(j)
  \/ \E n \in writable : CloseJournal(n)

DSpec == DInit /\ [][DNext]_dvars /\ WF_dvars(DRunStep)

-----------------------------------------------------------------------------
\* The types; from the launch to the END the process counts as poisoned.
DTypeOK ==
  /\ state \in [Job -> DState]
  /\ writable \subseteq Journal
  /\ dpc \in {"idle", "admit", "plan", "start", "flag", "spawn", "wait", "kill",
             "end", "clear", "release"}
  /\ job \in Job
  /\ cause \in {"none", "timeout", "unverified", "raised"}
  /\ unreaped \in BOOLEAN
  /\ dpc \in {"spawn", "wait", "kill", "end", "clear"} => unreaped
  /\ running \subseteq Job

\* Over all journals of the process, whatever was not reaped, killed or
\* recorded: no child is started while another one exists.
OneChild == \A j, k \in running : j = k

\* A child that exists is RUNNING in the published ledger: its START was
\* acknowledged before it, and no END is acknowledged as long as it runs.
ChildOnRecord == \A j \in running : state[j] = "RUNNING"

\* A run always gives the worker lock back.
CallReturns == dpc # "idle" ~> dpc = "idle"
=============================================================================
