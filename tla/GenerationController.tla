-------------------------- MODULE GenerationController --------------------------
(***************************************************************************)
(* The one-shot generation package (prospective_generation_controller_     *)
(* e116.py) with its materializer (e111), its sidecar and directory        *)
(* monitor (e118), and the launches it observes (ObservedLaunch).          *)
(*                                                                         *)
(* A task is a script of steps.  A step that publishes creates its file    *)
(* exclusively, writes, fsyncs file and directory and reads it again: when *)
(* that fails the file may be missing, torn, or whole.  The first step     *)
(* that raises ends the package; nothing is retried or resumed.  The       *)
(* worker may be killed and the host may lose power at any moment; another *)
(* process may then start the package again.                               *)
(***************************************************************************)
EXTENDS ObservedLaunch, ExclusiveFiles, Sequences

CONSTANTS
  Plan,      \* the tasks: [kind, parent, first], parent 0 for none
  Cap,       \* of a kind, the debits allowed
  MaxLives   \* bound: processes that run the package

Task == DOMAIN Plan
Kinds == {"TESSENT", "TRANSLATION"}

ASSUME PlanAssumption ==
  /\ Plan \in Seq([kind : Kinds, parent : Nat, first : BOOLEAN])
  /\ Launch = {t \in Task : Plan[t].kind = "TESSENT"}
  /\ Cap \in [Kinds -> Nat]
  /\ MaxLives \in Nat

VARIABLES
  boot,          \* the host is still in the boot of the package
  life,          \* processes that have run the package
  alive,         \* one is running
  task, step,    \* where it is: 0 for the setup
  failed,        \* a step has raised
  debited,       \* counts of the debits by kind
  active,        \* active_intent: {} for None, {0} for the initialization
  prepared,      \* materializer: attempts and prepared translations
  committed,     \* binder: tasks committed
  summary,       \* the summary, once it is made
  published      \* what the file of the summary holds

disk == <<torn, stable>>
memory == <<debited, active, prepared, committed>>
vars == <<launchVars, disk, boot, life, alive, task, step, failed, memory, summary,
          published>>

NoSummary == [status |-> "none"]

Setup == <<"sidecar", "bundle", "journal", "initialization", "selftest_intent",
           "selftests", "selftest_observation">>
Opening(t) == (IF Plan[t].first THEN <<"freeze">> ELSE <<>>) \o <<"bind", "intent">>
Closing == <<"reference", "artifact_metadata", "ack">>
Script(t) ==
  IF t = 0 THEN Setup
  ELSE Opening(t) \o (IF Plan[t].kind = "TRANSLATION"
                      THEN <<"prepare", "translate", "translation_observation">>
                      ELSE <<"prepare", "preparation", "observe", "observation",
                             "stdout", "stdout_ack", "verdict", "artifacts">>) \o Closing

Quiet == {"bundle", "journal", "selftests", "bind", "prepare", "translate", "observe",
          "verdict", "artifacts"}
\* Steps that sample() comes before: the clock, the boot, the worker, the directory.
Sampled == {"sidecar", "bundle", "selftest_intent", "freeze", "prepare", "preparation",
            "translate", "observe", "artifacts", "ack"}

Running == alive /\ ~failed /\ task <= Len(Plan)
Doing == Script(task)[step]
File == <<task, Doing>>
JournalReady == task > 0 \/ step > 3

Init ==
  /\ LaunchInit
  /\ torn = {} /\ stable = {}
  /\ boot = TRUE
  /\ life = 0
  /\ alive = FALSE
  /\ task = 0 /\ step = 1
  /\ failed = FALSE
  /\ debited = [k \in Kinds |-> 0]
  /\ active = {}
  /\ prepared = {}
  /\ committed = {}
  /\ summary = NoSummary
  /\ published = NoSummary

-----------------------------------------------------------------------------
\* bind_next(): in the order of the plan, the parent and the translation
\* acknowledged.
Bindable(t) ==
  /\ \A u \in Task : u < t => u \in committed
  /\ Plan[t].parent # 0 => Plan[t].parent \in committed
  /\ debited[Plan[t].kind] < Cap[Plan[t].kind]

\* materialize_attempt() and prepare_translation(): what they rest on.
Preparable(t) == Plan[t].parent # 0 =>
  IF Plan[t].kind = "TRANSLATION" THEN Plan[t].parent \in prepared
                                  ELSE t - 1 \in prepared

\* A mutant of Accepted: by the exit code alone.
AcceptedByExitCode == seen.rc = "zero" /\ seen.handle

\* The observation as the controller accepts it.
Accepted == /\ seen.rc = "zero" /\ ~seen.failure /\ seen.cleaned
            /\ seen.attempted /\ seen.handle
            /\ seen.identity /\ seen.persisted

\* A mutant of Able: a file is opened without O_EXCL.
AbleToOverwrite ==
  /\ Doing \in Sampled => clock # "over" /\ boot
  /\ Doing \in {"bundle", "prepare"} => active # {}
  /\ Doing = "bind" => Bindable(task)
  /\ Doing = "prepare" => Preparable(task)
  /\ Doing = "verdict" => Accepted

Able ==
  /\ Doing \in Sampled => clock # "over" /\ boot
  /\ Doing \notin Quiet => ~Exists(File)
  /\ Doing \in {"bundle", "prepare"} => active # {}
  /\ Doing = "bind" => Bindable(task)
  /\ Doing = "prepare" => Preparable(task)
  /\ Doing = "verdict" => Accepted

Advance ==
  IF step = Len(Script(task)) THEN task' = task + 1 /\ step' = 1
                              ELSE task' = task /\ step' = step + 1

\* A mutant of Publish: the acknowledgement does not clear active_intent.
PublishKeepingIntent ==
  /\ Running /\ Doing \notin Quiet /\ Able
  /\ stable' = stable \cup {File}
  /\ active' = CASE Doing \in {"sidecar", "intent"} -> {task}
                 [] OTHER -> active
  /\ committed' = IF Doing = "ack" THEN committed \cup {task} ELSE committed
  /\ Advance
  /\ UNCHANGED <<launchVars, torn, boot, life, alive, failed, debited, prepared, summary,
                 published>>

Publish ==
  /\ Running /\ Doing \notin Quiet /\ Able
  /\ stable' = stable \cup {File}
  /\ active' = CASE Doing \in {"sidecar", "intent"} -> {task}
                 [] Doing = "ack" -> {}
                 [] OTHER -> active
  /\ committed' = IF Doing = "ack" THEN committed \cup {task} ELSE committed
  /\ Advance
  /\ UNCHANGED <<launchVars, torn, boot, life, alive, failed, debited, prepared, summary,
                 published>>

\* A step that publishes nothing; the debit precedes the intent.
Work ==
  /\ Running /\ Doing \in Quiet \ {"observe"} /\ Able
  /\ debited' = IF Doing = "bind" THEN [debited EXCEPT ![Plan[task].kind] = @ + 1]
                                  ELSE debited
  /\ prepared' = IF Doing = "prepare" THEN prepared \cup {task} ELSE prepared
  /\ Advance
  /\ UNCHANGED <<launchVars, disk, boot, life, alive, failed, active, committed,
                 summary, published>>

\* Whatever the step was, the package has failed.
Fail ==
  /\ Running /\ at = "idle"
  /\ failed' = TRUE
  /\ UNCHANGED <<launchVars, boot, life, alive, task, step, memory, summary, published>>

Refused == Fail /\ ~Able /\ UNCHANGED disk

Broken ==
  /\ Fail
  /\ IF Doing \in Quiet THEN UNCHANGED disk ELSE Breaks(File)

-----------------------------------------------------------------------------
\* observe_tessent() under the step "observe"; on_spawn publishes the identity.
others == <<boot, life, alive, failed, memory, summary, published>>
Identity == <<task, "spawn_identity">>

Observe == Running /\ Doing = "observe" /\ Able /\ Enter(task)
           /\ UNCHANGED <<disk, task, step, others>>

Watch == alive /\ ObserverStep /\ UNCHANGED <<disk, task, step, others>>

OnSpawn ==
  /\ alive /\ Acknowledged
  /\ Create(Identity)
  /\ UNCHANGED <<task, step, others>>

WatchRaises ==
  /\ alive /\ (Raises \/ CleanupEnds)
  /\ IF at = "callback" THEN Breaks(Identity) ELSE UNCHANGED disk
  /\ UNCHANGED <<task, step, others>>

Observed ==
  /\ alive /\ Goto("done", "idle")
  /\ Advance
  /\ UNCHANGED <<clock, tree, launches, current, seen, disk, others>>

-----------------------------------------------------------------------------
\* run() builds the summary, publishes it if there is a journal, and returns.
Summarise ==
  /\ alive /\ at = "idle" /\ summary = NoSummary
  /\ failed \/ task > Len(Plan)
  /\ failed' \in {failed, TRUE}
  /\ clock = "over" => failed'
  /\ summary' = [status |-> IF failed' THEN "stopped" ELSE "collected",
                 debited |-> debited, completed |-> committed,
                 named |-> IF failed' THEN active ELSE {}]
  /\ UNCHANGED <<launchVars, disk, boot, life, alive, task, step, memory, published>>

SummaryFile == <<0, "package_summary">>

Finish ==
  /\ alive /\ summary # NoSummary
  /\ alive' = FALSE
  /\ IF JournalReady /\ ~Exists(SummaryFile)
       THEN /\ published' = summary
            /\ \/ stable' = stable \cup {SummaryFile} /\ torn' = torn /\ failed' \in {failed, TRUE}
               \/ torn' = torn \cup {SummaryFile} /\ stable' = stable /\ failed' = TRUE
       ELSE UNCHANGED <<disk, failed, published>>
  /\ UNCHANGED <<launchVars, boot, life, task, step, memory, summary>>

\* Another process constructs a controller and runs it.
Start ==
  /\ ~alive
  /\ life < MaxLives
  /\ life' = life + 1
  /\ alive' = TRUE
  /\ task' = 0 /\ step' = 1
  /\ failed' = FALSE
  /\ debited' = [k \in Kinds |-> 0]
  /\ active' = {}
  /\ prepared' = {} /\ committed' = {}
  /\ summary' = NoSummary
  /\ at' = "idle" /\ seen' = NotSeen
  /\ UNCHANGED <<clock, tree, launches, current, disk, boot, published>>

\* The worker is killed: what it had started goes to init.
Orphan(t) == [leader |-> CASE t.leader = "live" -> "orphan"
                           [] t.leader \in {"zero", "bad"} -> "reaped"
                           [] OTHER -> t.leader,
              kid |-> IF t.kid \in {"child", "adopted"} THEN "orphan" ELSE t.kid]

Killed ==
  /\ alive
  /\ alive' = FALSE
  /\ tree' = [l \in Launch |-> Orphan(tree[l])]
  /\ at' = "idle"
  /\ IF Running /\ at = "idle" /\ Doing \notin Quiet THEN Breaks(File) ELSE UNCHANGED disk
  /\ UNCHANGED <<clock, launches, current, seen, boot, life, task, step,
                 failed, memory, summary, published>>

\* The host loses power: every process is gone, a torn file may be.
PowerLost ==
  /\ boot
  /\ boot' = FALSE
  /\ alive' = FALSE
  /\ tree' = [l \in Launch |-> IF tree[l].leader = "none" THEN NoTree
                               ELSE [leader |-> "reaped", kid |-> "gone"]]
  /\ at' = "idle"
  /\ LosePower
  /\ UNCHANGED <<clock, launches, current, seen, life, task, step, failed,
                 memory, summary, published>>

Environment == (Tick \/ \E l \in Launch : Lives(l)) /\ UNCHANGED <<disk, task, step, others>>

Progress == Publish \/ Work \/ Refused \/ Observe \/ Watch \/ OnSpawn \/ Observed
            \/ Summarise \/ Finish

Next == Progress \/ Broken \/ WatchRaises \/ Start \/ Killed \/ PowerLost \/ Environment

Spec == Init /\ [][Next]_vars

\* The worker is one thread and is scheduled; the clock is the host's.
FairSpec == Spec /\ WF_vars(Progress) /\ WF_vars(Environment /\ Tick)

-----------------------------------------------------------------------------
FilesOf(t) == {<<t, Script(t)[i]>> : i \in {j \in DOMAIN Script(t) : Script(t)[j] \notin Quiet}}
              \cup (IF t \in Launch THEN {<<t, "spawn_identity">>} ELSE {})

\* Every variable has its type, and no file is both torn and stable.
TypeOK ==
  /\ clock \in {"open", "closing", "over"}
  /\ tree \in [Launch -> [leader : Leader, kid : Kid]]
  /\ at \in {"idle", "prelaunch", "popen", "identity", "callback", "loop", "kill",
             "check", "leftover", "close", "done"}
  /\ torn \cap stable = {}
  /\ life \in 0 .. MaxLives
  /\ task \in 0 .. Len(Plan) + 1
  /\ debited \in [Kinds -> Nat]
  /\ active \in SUBSET (0 .. Len(Plan))
  /\ prepared \subseteq Task /\ committed \subseteq Task

\* Every launcher that was ever started, by any process that ran the package,
\* has its own debit and preparation on stable storage: a restart, a lost
\* handle or a torn file never buys a second launch.
SpawnPaidFor ==
  /\ launches <= Cardinality({l \in Launch : <<l, "intent">> \in stable})
  /\ \A l \in Launch : tree[l].leader # "none" =>
       {<<0, "sidecar">>, <<l, "intent">>, <<l, "preparation">>} \subseteq stable

\* The processes of two launches are never alive together, whether the worker
\* was killed over the first or could not confirm that it had ended.
OneTree == \A k, l \in Launch : Alive(k) /\ Alive(l) => k = l

\* The binder commits a task, and hands its output to the next, when every
\* file of it is on stable storage and nothing that it started is left.
CommittedIsWhole == \A t \in committed :
  /\ FilesOf(t) \subseteq stable
  /\ Plan[t].parent # 0 => Plan[t].parent \in committed
  /\ t \in Launch => ~Alive(t) /\ ~DirectChild(t)

Intents == Cardinality({t \in Task : Exists(<<t, "intent">>)})

\* What the published summary says is true of the disk, in whatever life it is
\* read: each debit has its intent but perhaps the last, a completed task is
\* acknowledged, and the task it names as failed is one it did not complete.
SummaryAccounts == SummaryFile \in stable =>
  /\ published.status = "collected" =>
       published.completed = Task /\ \A t \in Task : FilesOf(t) \subseteq stable
  /\ \A t \in published.completed : <<t, "ack">> \in stable
  /\ published.debited["TESSENT"] + published.debited["TRANSLATION"] \in {Intents, Intents + 1}
  /\ \A t \in published.named : t \notin published.completed
       /\ <<t, IF t = 0 THEN "sidecar" ELSE "intent">> \in stable

\* run() returns or dies, whatever the launcher and its processes do.
RunReturns == alive ~> ~alive
=============================================================================
