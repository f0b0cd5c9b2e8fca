----------------------------- MODULE PhaseController -----------------------------
(***************************************************************************)
(* The controller of a phase of three remote roles and the evidence store  *)
(* under it (scripts/e138_controller.py, scripts/e138_phase_store.py).     *)
(* A role is prepared against its review, debited by a directory and an    *)
(* intent, sent, its raw answer saved, validated, and accepted.            *)
(*                                                                         *)
(* Everything that may raise is Fails: I/O, a change of the directory or   *)
(* of the clock's domain, material that does not match its review, and a   *)
(* KeyboardInterrupt.  An answer is good, bad (a failed or incomplete      *)
(* transport, or an adapter that raised) or unbounded (of another shape).  *)
(***************************************************************************)
EXTENDS Naturals, Sequences

CONSTANTS
  N,         \* ROLES, by their numbers
  Window,    \* the 3600 s of a phase
  Reserve    \* the cleanup reserve of 10 s

ASSUME PhaseAssumption ==
  /\ N \in Nat \ {0}
  /\ Window \in Nat
  /\ Reserve \in Nat

VARIABLES
  phase,      \* the directory of the phase exists
  files,      \* the files in it: <<role or 0, name>>
  alive,      \* there is a controller that owns it
  pinned,     \* it uses the pinned transport, not a simulation
  closed,     \* store: _closed
  active,     \* store: role of _active, or 0
  accepted,   \* store: the length of _accepted
  index,      \* controller: index
  terminal,   \* controller: terminal
  reviewed,   \* controller: roles with a descriptor in freeze
  pc,         \* progress of a constructor or of run_role
  elapsed,    \* time since the phase began
  result,     \* the answer to each role
  sent,       \* history: the roles sent
  validated   \* history: the roles whose validator has returned

disk == <<phase, files>>
mode == <<alive, pinned>>
store == <<closed, active, accepted>>
control == <<index, terminal, reviewed>>
history == <<result, sent, validated>>
vars == <<disk, mode, store, control, pc, elapsed, history>>

Role == 1 .. N
Answer == {"good", "bad", "unbounded"}
RawFile == {"stdout", "stderr", "transport"}
FileName == RawFile \cup {"start", "clock", "closed", "dir", "intent", "native",
                          "validation", "accepted"}

Constructing == {"start", "adapter"}
Running == {"prepare", "reserve", "intent", "arm", "send", "sending", "native",
            "record", "stdout", "stderr", "transport", "judge", "validate",
            "receipt", "validation", "accept", "settle", "advance"}

Init ==
  /\ phase = FALSE
  /\ files = {}
  /\ alive = FALSE
  /\ pinned = FALSE
  /\ closed = FALSE
  /\ active = 0
  /\ accepted = 0
  /\ index = 0
  /\ terminal = FALSE
  /\ reviewed = {}
  /\ pc = "idle"
  /\ elapsed = 0
  /\ result = [r \in Role |-> "none"]
  /\ sent = <<>>
  /\ validated = {}

Goto(at, to) == alive /\ pc = at /\ pc' = to

\* remaining() does not raise.
Remaining == ~closed /\ elapsed + Reserve < Window

\* write_new(): creates, writes and fsyncs.
Save(file) == file \notin files /\ files' = files \cup {file}

\* close(): the store is closed even if closed.json cannot be written.
Close ==
  /\ closed' = TRUE
  /\ files' \in IF closed THEN {files} ELSE {files, files \cup {<<0, "closed">>}}

-----------------------------------------------------------------------------
\* __init__ and create_pinned: the exclusive directory is the tombstone of a
\* phase, for any other instance and after a restart.
Create ==
  /\ ~alive
  /\ ~phase
  /\ phase' = TRUE
  /\ alive' = TRUE
  /\ pinned' \in BOOLEAN
  /\ reviewed' \in SUBSET Role
  /\ pc' = "start"
  /\ elapsed' = 0
  /\ UNCHANGED <<files, store, index, terminal, history>>

SaveStart ==
  /\ Goto("start", IF pinned THEN "adapter" ELSE "idle")
  /\ Save(<<0, "start">>)
  /\ UNCHANGED <<phase, mode, store, control, elapsed, history>>

MakeAdapter ==
  /\ Goto("adapter", "idle")
  /\ Remaining
  /\ UNCHANGED <<disk, mode, store, control, elapsed, history>>

\* A constructor that raises leaves its directory, and no controller.
CreateFails ==
  /\ alive
  /\ pc \in Constructing
  /\ Close
  /\ pc = "start" => files' = files
  /\ alive' = FALSE
  /\ terminal' = (pc = "adapter")
  /\ pc' = "idle"
  /\ UNCHANGED <<phase, pinned, active, accepted, index, reviewed, elapsed,
                 history>>

\* install_review().
InstallReview ==
  /\ alive
  /\ pc = "idle"
  /\ ~terminal
  /\ index < N
  /\ index + 1 \notin reviewed
  /\ Remaining
  /\ reviewed' = reviewed \cup {index + 1}
  /\ UNCHANGED <<disk, mode, store, index, terminal, pc, elapsed, history>>

-----------------------------------------------------------------------------
\* run_role() is let in.
BeginRole ==
  /\ Goto("idle", "prepare")
  /\ ~terminal
  /\ index < N
  /\ UNCHANGED <<disk, mode, store, control, elapsed, history>>

\* The evidence of earlier roles that _prepare joins with the material.
Evidence(role) ==
  CASE role = 1 -> {}
    [] role = 2 -> {<<0, "clock">>, <<1, "stdout">>}
    [] OTHER -> {<<0, "clock">>} \cup ({2} \X (RawFile \cup {"intent"}))

\* _prepare().
Prepare ==
  /\ Goto("prepare", "reserve")
  /\ Remaining
  /\ index + 1 \in reviewed
  /\ Evidence(index + 1) \subseteq files
  /\ UNCHANGED <<disk, mode, store, control, elapsed, history>>

\* reserve(): the directory of the role consumes it.
ReserveRole ==
  /\ Goto("reserve", "intent")
  /\ Remaining
  /\ active = 0
  /\ accepted < N
  /\ index = accepted
  /\ Save(<<index + 1, "dir">>)
  /\ active' = index + 1
  /\ UNCHANGED <<phase, mode, closed, accepted, control, elapsed, history>>

SaveIntent ==
  /\ Goto("intent", "arm")
  /\ Save(<<active, "intent">>)
  /\ UNCHANGED <<phase, mode, store, control, elapsed, history>>

\* Without its directory or intent the store closes, and writes nothing more.
IntentFails ==
  /\ alive
  /\ pc \in {"reserve", "intent"}
  /\ ~closed
  /\ closed' = TRUE
  /\ terminal' = TRUE
  /\ pc' = "idle"
  /\ UNCHANGED <<disk, mode, active, accepted, index, reviewed, elapsed, history>>

\* The intent is read back, and the timeout is taken from what remains.
Arm ==
  /\ Goto("arm", "send")
  /\ <<index + 1, "intent">> \in files
  /\ Remaining
  /\ UNCHANGED <<disk, mode, store, control, elapsed, history>>

Send ==
  /\ Goto("send", "sending")
  /\ sent' = Append(sent, index + 1)
  /\ UNCHANGED <<disk, mode, store, control, elapsed, result, validated>>

\* A simulation may call run_role() from its send: the inner call finds the
\* role active, or the time over, and stops the phase.
Reenter ==
  /\ alive
  /\ pc = "sending"
  /\ ~pinned
  /\ ~terminal
  /\ terminal' = TRUE
  /\ Close
  /\ UNCHANGED <<phase, mode, active, accepted, index, reviewed, pc, elapsed,
                 history>>

\* send() returns, or raises and stands for an incomplete transport.
Return(answer) ==
  /\ Goto("sending", IF pinned THEN "native" ELSE "record")
  /\ result' = [result EXCEPT ![index + 1] = answer]
  /\ UNCHANGED <<disk, mode, store, control, elapsed, sent, validated>>

\* _persist_native(): the full receipt is saved, its projection is bounded.
SaveNative ==
  /\ Goto("native", "record")
  /\ Save(<<index + 1, "native">>)
  /\ result' = [result EXCEPT ![index + 1] = IF @ = "good" THEN @ ELSE "bad"]
  /\ UNCHANGED <<phase, mode, store, control, elapsed, sent, validated>>

\* record() is let in, with an answer of the right shape.
Record ==
  /\ Goto("record", "stdout")
  /\ active # 0
  /\ ~closed
  /\ result[active] # "unbounded"
  /\ UNCHANGED <<disk, mode, store, control, elapsed, history>>

AfterRaw == [f \in RawFile |-> CASE f = "stdout" -> "stderr"
                                 [] f = "stderr" -> "transport"
                                 [] OTHER -> "judge"]

\* The answer is saved before anybody looks at it.
SaveRaw ==
  \E f \in RawFile :
     /\ Goto(f, AfterRaw[f])
     /\ Save(<<active, f>>)
     /\ UNCHANGED <<phase, mode, store, control, elapsed, history>>

\* Mutant: the exit code and the flags of the transport are not looked at.
JudgeAnyExit ==
  /\ Goto("judge", "validate")
  /\ Remaining
  /\ UNCHANGED <<disk, mode, store, control, elapsed, history>>

Judge ==
  /\ Goto("judge", "validate")
  /\ result[active] = "good"
  /\ Remaining
  /\ UNCHANGED <<disk, mode, store, control, elapsed, history>>

\* The validator; that of the first role fixes the clock of the phase.
Validate ==
  /\ Goto("validate", "receipt")
  /\ IF active = 1 THEN Save(<<0, "clock">>) ELSE UNCHANGED files
  /\ validated' = validated \cup {active}
  /\ UNCHANGED <<phase, mode, store, control, elapsed, result, sent>>

Receipt ==
  /\ Goto("receipt", "validation")
  /\ Remaining
  /\ UNCHANGED <<disk, mode, store, control, elapsed, history>>

SaveValidation ==
  /\ Goto("validation", "accept")
  /\ Save(<<active, "validation">>)
  /\ UNCHANGED <<phase, mode, store, control, elapsed, history>>

\* Mutant: goes on without the receipt of the acceptance.
SaveAcceptedBestEffort ==
  /\ Goto("accept", "settle")
  /\ files' \in {files, files \cup {<<active, "accepted">>}}
  /\ UNCHANGED <<phase, mode, store, control, elapsed, history>>

SaveAccepted ==
  /\ Goto("accept", "settle")
  /\ Save(<<active, "accepted">>)
  /\ UNCHANGED <<phase, mode, store, control, elapsed, history>>

\* The end of record().
Settle ==
  /\ Goto("settle", "advance")
  /\ accepted' = accepted + 1
  /\ active' = 0
  /\ UNCHANGED <<disk, mode, closed, control, elapsed, history>>

\* run_role() goes on to the next role, or closes the phase after the last.
Advance ==
  /\ Goto("advance", "idle")
  /\ index' = index + 1
  /\ IF index + 1 = N THEN terminal' = TRUE /\ Close
                      ELSE UNCHANGED <<terminal, closed, files>>
  /\ UNCHANGED <<phase, mode, active, accepted, reviewed, elapsed, history>>

\* Any other failure of a role stops the phase.  What send() raises is an
\* answer.
Fails ==
  /\ alive
  /\ pc \in Running \ {"intent", "sending"}
  /\ terminal' = TRUE
  /\ Close
  /\ pc' = "idle"
  /\ UNCHANGED <<phase, mode, active, accepted, index, reviewed, elapsed,
                 history>>

\* A second interrupt, before the first has stopped the phase.
Interrupt ==
  /\ alive
  /\ pc \in Running
  /\ pc' = "idle"
  /\ UNCHANGED <<disk, mode, store, control, elapsed, history>>

Crash ==
  /\ alive
  /\ alive' = FALSE
  /\ pc' = "idle"
  /\ UNCHANGED <<disk, pinned, store, control, elapsed, history>>

Tick ==
  /\ alive
  /\ elapsed < Window
  /\ elapsed' = elapsed + 1
  /\ UNCHANGED <<disk, mode, store, control, pc, history>>

Next ==
  \/ Create \/ SaveStart \/ MakeAdapter \/ CreateFails \/ InstallReview
  \/ BeginRole \/ Prepare \/ ReserveRole \/ SaveIntent \/ IntentFails \/ Arm
  \/ Send \/ Reenter \/ (\E answer \in Answer : Return(answer)) \/ SaveNative
  \/ Record \/ SaveRaw \/ Judge \/ Validate \/ Receipt
  \/ SaveValidation \/ SaveAccepted \/ Settle \/ Advance
  \/ Fails \/ Interrupt \/ Crash \/ Tick

Spec == Init /\ [][Next]_vars

-----------------------------------------------------------------------------
TypeOK ==
  /\ phase \in BOOLEAN
  /\ files \subseteq (0 .. N) \X FileName
  /\ alive \in BOOLEAN
  /\ pinned \in BOOLEAN
  /\ closed \in BOOLEAN
  /\ accepted \in 0 .. N
  /\ active \in {0, accepted + 1}
  /\ index \in 0 .. N
  /\ terminal \in BOOLEAN
  /\ reviewed \subseteq Role
  /\ pc \in {"idle"} \cup Constructing \cup Running
  /\ elapsed \in 0 .. Window
  /\ result \in [Role -> Answer \cup {"none"}]
  /\ sent \in Seq(Role)
  /\ validated \subseteq Role

\* A validator is run on evidence that is already saved: what was sent, and
\* the raw answer.
RawBeforeValidator ==
  \A r \in validated : \A f \in RawFile \cup {"intent"} : <<r, f>> \in files

\* An accepted role was reviewed, sent, well answered, validated, and is
\* documented by every file; and so is each role before it.
AcceptedIsWhole ==
  \A r \in Role : <<r, "accepted">> \in files =>
     \A q \in 1 .. r :
        /\ q \in reviewed \cap validated
        /\ result[q] = "good"
        /\ \A f \in RawFile \cup {"intent", "validation", "accepted"} :
              <<q, f>> \in files

\* What the phase amounts to.
Over == phase /\ (~alive \/ closed \/ terminal)

OneShot == INSTANCE OneShotPhase WITH
  accepted <- {r \in Role : <<r, "accepted">> \in files},
  over <- Over

\* Over failures, re-entrant calls, interrupts and restarts: each role is sent
\* once at most, in order, after the one before it was accepted, and nothing
\* is sent or accepted once the phase is over.
ImplementsOneShot == OneShot!PhaseSpec
=============================================================================
