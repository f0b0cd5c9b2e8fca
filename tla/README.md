# Verification of gnn-model: budgets, journals, ledgers and one-shot jobs

The repository trains and replays a recommender that proposes the next test-generation
action for a circuit. The part with the hard behaviour is not the recommender but the
machinery that lets an expensive external tool be run *once*, within a declared budget,
with a record that survives failures and can be audited afterwards. This directory models
that machinery in TLA+, checks small instances with TLC and proves the central
properties with TLAPS for every value of the constants.

All source paths below are relative to the repository's root; `data/` stands for `src/data/`,
`replay/` for `src/replay/`.

## 1. Inventory

### Modelled

| Component | State | Operations | Interaction |
|---|---|---|---|
| **Declared task budget** `data/prospective_stage_budget_v1.py` | position in the plan, debited calls and wall time, one row per slot, stop reason | constructor checks, `reserve`, `settle`, `snapshot` | pure state, held by the budget journal |
| **Budget journal** `data/prospective_stage_budget_journal_v2.py` | the budget, an append-only hash-chained file, its size and identity, poison, busy flag | `create`, `reserve`, `settle`, `snapshot`, `close`, `load` | one row per change of the budget; the bridge calls it |
| **Lifecycle journal** `data/prospective_lifecycle_journal_v2.py` | ordinal, phase of the attempt, handle, clock, poison, the file | `create`, `run` (INTENT, launch, LAUNCHED, finish, cleanup, REAPED), `snapshot`, `close`, `load` | calls a backend that starts and stops process groups |
| **Task bridge** `data/prospective_task_lifecycle_bridge_v1.py` | lock, poison, pairing of debits and attempts, host and boot | `run`, `snapshot`, `close`, `load` | debits in one journal, runs in the other, settles in the first |
| **Attempt ledger** `data/prospective_attempt_ledger_v1.py` (`Ledger`) | attempts, references of actions, circuit of every action | PLAN, START, END, LINK, CACHE, `aggregate` | pure state, held by the attempt journal |
| **Attempt journal** same file (`Journal`, `load`) | the ledger, file, size, identity, poison, buffer of the stream | `create`, `append`, `aggregate`, `snapshot`, `close`, `load` | used by the dummy adapter and by recorded demonstrations |
| **Dummy adapter** `data/prospective_dummy_adapter_v1.py` | worker lock, flag of an unreaped child, the child | `run_dummy` (PLAN, START, Popen, wait, kill and reap, END) | appends to an attempt journal; starts one child |
| **Phase controller** `scripts/e138_controller.py`, `scripts/e138_phase_store.py` | index, terminal, reviews; store: closed, active role, accepted roles; an exclusive directory with the evidence | both constructors, `install_review`, `run_role` (prepare, reserve, send, record, validate, accept), `close` | sends roles through an adapter that may fail or call back |
| **Generation controller** `data/prospective_generation_controller_e116.py`, `..._process_e113.py`, `..._storage_e118.py`, `..._materializer_e111.py`, `direct_tessent_acceptance_e100.py` | debits per kind, active requests, what the binder prepared and committed, the published files, the process tree of a launch | `run`, every step of `_task`, `observe_tessent`, summary | starts a launcher as the subreaper of all it forks; a restart is another process over the same directory |
| **Acceptance job** `scripts/retire_acceptance_job_e98.py`, `register_...`, `prepare_acceptance_resume_...`, `run_acceptance_job_e98.py`, `data/prospective_acceptance_coordinator_v1.py`, `..._process_v1.py`, `..._materializer_v1.py` | evidence files, the old and the new job at the scheduler, the package's journal, one tool per case | `retire`, `confirm`, `register`, `resume`; the worker; `run_package`, `run_item` | scripts run by people, the scheduler (`bjobs`, `bkill`, `bsub`, `bresume`), the worker that it starts |
| **Top-k replay** `replay/runtime_accounting_v1.py`, `replay/ranking_v6_attempt_charges.py` | the frozen ranking, the outcomes, the access ledger, the result | `run_cli` (freeze, events, load, dataset, loop, digest, write), `aggregate_charges`, `replay_prefix` | calls over the same files may overlap with each other and with the ranking generator |

Two properties make the first group correct: nothing is launched that has not been paid for
on stable storage, and whatever the moment of a failure or a crash, the files that are
left say no more and not much less than what happened. For the ledgers: costs are
attributed once, to the right circuit, and do not change after they were reported
complete. For the phase: a remote role is sent once, in order, and what is accepted can be
audited. For the generation package and the acceptance job: an expensive tool is started once,
with its debit and its permit on stable storage, never beside what an earlier
start left behind, and nothing is asked of the scheduler twice. For the replay: the outcomes are
looked at once, after the ranking was frozen, and the published charge is that of the frozen ranking.

### Not modelled

The components with status `not_modelled` in `PROJECT.json`, and why.

* *Candidates for an extension*: the Linux task journal (a real backend for the lifecycle journal), the
  blind unseal, the acquisition protocol, the pinned transport. They repeat the mechanisms that are
  modelled here (exclusive evidence files, append-only journals, one launch observed) with other
  fields, so that the generation controller and the acceptance job, the latest of their
  kind, were taken first.
* *Left out*: the rankers and training workers (`src/models`, floating-point numerics, beyond
  both tools); one-pass audits and the earlier replay; validators and translators of files
  without state, which their tests cover; the recorded experiments (`legacy/`, `contracts/`, `data/`,
  `experiment_overview/` and the scripts of one run each). These are most of the repository's
  lines: scripts that read files, compute and write a report, once.

### Where it is hard

* **Two files, one order.** A task leaves rows in two files: RESERVE, INTENT, LAUNCHED,
  REAPED, SETTLE. Every crash prefix of that order must still join.
* **Write, flush, fsync, commit.** Each append has four points at which it may fail,
  be re-entered, or lose its process or the machine its power; what is in memory, in the
  file and on stable storage differ between any two of them. The `except` clause that
  poisons ends before the commit, in each of the three journals: an interrupt behind it poisons nothing.
* **The file belongs to somebody else too.** Identity and size are compared before and
  after an append, and taken over in between.
* **Callbacks.** The backend runs while the bridge and the journal are busy; it may raise
  at any point, also after it has started a process.
* **A process is not its group.** A launcher may exit while what it forked lives on in another
  session; a worker that dies leaves all of it to init; `Popen` may raise after the fork.
* **The scheduler may have acted.** `bkill`, `bsub` and `bresume` may act without an answer, and
  any script may be run again, by another person at the same time too.
* **Checked, then read again.** The replay opens the ranking three times, and `exists` before
  an exclusive creation guards nothing.
* **Restart means replay.** Nothing is resumed; `load` accepts a file exactly if the
  pure state accepts each of its rows in order.

`PROJECT.json` lists each of these at its line under `hazards`.

## 2. Plan

1. *Done.* `StageBudgetOps`, `StageBudget` (abstract budget), `BudgetJournal` (implements
   it), `LifecycleJournal`, `TaskBridge` (composes the two journals),
   `AttemptLedger`, `AttemptJournal`, `DummyAdapter`, `OneShotPhase` (abstract phase),
   `PhaseController` (implements it); proofs about the budget, the budget journal, the attempt
   ledger, the adapter and the phase.
2. *Done.* `ExclusiveFiles` (evidence files, shared), `ObservedLaunch` and `GenerationController` (composes
   both), `AcceptancePackage` and `AcceptanceJob` (composes them with the scheduler),
   `AttemptCharges` and `TopKReplay`; proofs about the replay.
3. *Done.* Proofs about the generation controller, the acceptance job, the replays and sums of the
   budget and of both journals, the bridge with the join of its two files, and the attempt journal.
4. *Done.* Proofs of the folds: the replay loop against `PrefixReplay`, the cost of a lineage, and the
   accepted attempts against the serial executor. Every safety property that a run checks is proved now.
5. *Model more*, if the need arises: `LinuxTaskJournal`, the backend of the lifecycle journal as it is
   on Linux, and the blind unseal.

## 3. Modules and their code

**`StageBudgetOps`** has the operations of the budget as functions of a record `b`: `NodeOK`
and `DeclarationOK` (the constructor's checks), `Exhausted`, `Deny`, `Debit` (`reserve`),
`Opaque`, `Overrun`, `Failed`, `StopAfter`, `Settlement` (`settle`). They are operators of their
own because the journal applies them to a trial copy and `load` applies them again.
**`StageBudget`** is the state machine over them: one action per operation.

**`BudgetJournal`** splits an append at its I/O and the commit at its checks: `BeginReserve`/`BeginSettle`
(validation on a trial copy; `Refuse` is its end when nothing was written), `Write`, `Fsync`, `Adopt` (lines
175-181: availability, size, identity), `Count` (`_head` and `_events`), `Recheck` (the last
`_available()`, line 204 or 221) and `Commit` (`_budget = trial`), with the failures of each. A re-entrant call poisons
anywhere (`Reentrant`); `Interrupt` is a `KeyboardInterrupt` outside of the `try` of `_append`, which releases the lock and
poisons nothing; after `Count` it leaves a row that the budget does not know of (`interrupted` remembers
it). `Interfere` is what somebody else does to the file: touch it, overwrite a row in place
(`Intact` is the absence of that), append a line (`Stray`) or a part of one, link or replace it. `Crash` and
`PowerLoss` end the process. `Replay` is `load` on the rows of the file. It implements `StageBudget`
(`Abstract!Spec`): the refinement maps the abstract budget to the acknowledged one.

**`LifecycleJournal`** has one action per step of `run`. An append is two of them: the `try` block of `append` with its
checks, write and fsync (`Writes`, or `Breaks` with the row absent, torn or whole in the file; how the parts of the
block interleave with other calls is what `BudgetJournal` models), and `Publishes` (line 245), which lies behind
it. `InterruptAppend` is an interrupt in between, `InterruptRun` one between the `try` blocks of `run`: an
INTENT that is durable and unknown to an enabled writer, and a process whose handle is lost before the cleanup, are
both reachable. `LClose` and `LSnapshot` may come in the middle of a run. The backend is a
set of processes that `launch` may add to, even when it raises.

**`TaskBridge`** has an instance of each journal and adds the bridge's own control: the checks before the
callback, the pairing, `Fail` from every step, and `Join`, the checks of its `load` on
the two files. `Interrupt` is an interrupt in either journal where that journal poisons nothing; the exception passes
through the bridge, which then can only `Fail`.

**`AttemptLedger`** has one action per kind of event. `aggregate` is the operators `Lineage`
(the set its worklist computes, defined as the least closed set), `Cost` and
`CompleteCost`. **`AttemptJournal`** splits `append` at every statement that can be
interrupted, and keeps the buffer of the stream apart from the file.

**`DummyAdapter`** has one action per step of `run_dummy`; the lock is taken while `pc` is not idle.
It uses of a journal what `AttemptJournal` shows: an append publishes, or raises without
publishing (`RecordFails`), and may then have disabled the writer. The flag is shared by
all journals of the process. `Exit` is the child, which may end by itself at any moment.

**`PhaseController`** joins controller and store: one action per file, per check of the clock and
per update of either book, so that anything may fail, interrupt or end the process in between.
`pc` is the progress of a constructor or of `run_role`; `Fails` is its outer handler, with the
`close` of the store that most failures make; `IntentFails` the one that closes without a
record. `Reenter` is a `run_role` made by a simulated adapter within `send`. It implements
**`OneShotPhase`**, three actions over the roles sent and those whose acceptance is on disk.

**`ExclusiveFiles`** is the way all one-shot programs write evidence: a name is created exclusively,
is torn until file and directory are fsynced and read back (`Create`, `Breaks`), and loss of power may
take a torn file away.

**`ObservedLaunch`** is one `observe_tessent`: `at` is its progress from `prelaunch` over `popen`,
`identity`, `callback` and the polling `loop` to `kill`, `check`, `leftover` and `close`; `tree` is what the
kernel knows of the launcher and of the process it may fork (direct child of the worker, adopted,
orphan of a dead worker). **`GenerationController`** gives every task a `Script`, the publications
and calls of `_task` in their order, of which the launch is one; `Broken` is the first step that raises, whatever it
left on disk; `Start` is a process that runs the package again, which forgets all but the disk.

**`AcceptancePackage`** is `run_package` over `run_item`: `point` is the record to be written or the step of the
case, `journal` the acknowledged records, `tail` whether an append left bytes. **`AcceptanceJob`** gives
every helper script its steps (`Script`), to be run by any helper, at any time, again; the scheduler is
external (`Called` may act with or without an answer, `Dispatch`, `WorkerEnds` may start the
command again); the worker goes through `Work` up to its claim and then through the package.

**`AttemptCharges`** has `Accepts`, the rules of `aggregate_charges` on the attempts of one action, next to
`Histories`, what a serial executor can leave, and `PrefixReplay`, the definition of `replay_prefix`. Floats are
abstract: `Plus` is their addition, `FSum` is `math.fsum`; that both agree on sums of up to two terms is all that is
assumed of them. **`TopKReplay`** has one action per step of `run_cli`, for any number of callers, `Replayed`, the loop of
`replay` with its running sum, and the label rule of `validate_dataset` (`FloatPositives`), whose limit in floats,
`FloatLimit`, is a constant too.

In every journal an event's hash chain is abstracted to what it identifies: the sequence of the
rows before it.

## 4. Runs

| Run | What is small, and why it is enough | What it shows |
|---|---|---|
| `stage_budget` | plans of up to 3 slots over a catalogue of 7 nodes, caps 0..2 calls and a few units of time; 3 slots are what a translation, its incremental stage and a stage of another request need | `SpentWithinCaps` (at full price, nothing given back), order of translations, completeness, exact sums |
| `budget_journal` | two plans with 2 slots, one of which the caps exhaust after the first: at most 4 rows, every failure, interrupt and change of the file between any two steps; after an interrupt behind a row, two rows (`FewAfterInterrupt`) | acknowledged state is recoverable, live and replayed budget agree, no check passes after a poison, refinement of the budget |
| `lifecycle_journal` | 2 attempts with 2 identities, 2 clock sessions and clock readings {0, 1}: the second attempt is where an unresolved first one matters, and two readings tell later from earlier. Ids, pids, sessions and profiles are interchangeable (symmetry). Of poison, close or death, a changed file and an interrupt at most two at once (`FewTroubles`); an interrupt is followed for one more run (`FewAfterInterrupt`) | no process without durable intent, none left while its handle is known, none after an unresolved one, complete means gone |
| `task_bridge` | 2 tasks, both files, every failure and interrupt of both and of the backend, 2 hosts with 2 pids; without loss the first process is named on the first host (`FirstNamesFirst`) | paid launches, join after any crash or interrupt, completeness on one host, nothing done after a poison, lock released (liveness) |
| `attempt_ledger` | 3 attempts, 2 actions, 2 circuits, 7 events, interchangeable ids (symmetry): enough for plan, start, failure, retry, start, success, reuse | one circuit, bases unaltered, final costs |
| `attempt_journal` | 3 rows of 2 events: an interrupted append, one after it, and one more | published rows are on stable storage; the file continues the ledger |
| `dummy_adapter` | 2 journals of 2 attempts: the child left behind by one and the next run over the other, or over the same one | one child, on record while it exists, lock always released (liveness) |
| `phase_controller` | the 3 roles of the code, a window of 3 ticks with a reserve of 1: time runs out before, between or after any two checks, or never | order and single use of roles, whole acceptances |
| `generation_controller` | a launch, the translation of its output, and a launch that rests on it; 2 processes one after the other (`MaxLives`); each launcher may fork one process: the second launch is where a tree left by the first matters, the second process where the first one's files do | `SpawnPaidFor`, `OneTree`, `CommittedIsWhole`, `SummaryAccounts`, `RunReturns` (liveness) |
| `acceptance_job` | 2 helpers (symmetry), 4 invocations (`MaxInvoked`): each of the four scripts once, or one of them by both helpers at once and twice more; 2 cases; any number of worker restarts | `OldGoneBeforeNew`, `AskedOnce`, `UnknownStaysHeld`, `LaunchIsAdmitted`, `CloseIsComplete` |
| `topk_replay` | 2 calls (symmetry), 4 actions of which 3 are tried (the third addition is the first on which the two sums differ), floats of two significant bits, cycles 100, 101 and 102 (either side of one percent), a float limit that falls below the integer one for one count, right and wrong labels, unsafe and failed actions, a short ranking; up to 3 attempts of a stage (`MaxRetry`) | `AcceptedIsSerial`, `OpenedOnce`, `ResultIsOfTheFreeze` |
| `interrupted_attempt_journal` | as for `attempt_journal` | *violation*, see section 7 |

Deadlock is not checked: every one of these objects ends by design (closed, stopped, poisoned or
out of budget), and each model has such final states. `RunReleasesLock` takes over the part of
the question that matters for a caller, as do `CallReturns` and `RunReturns`.

Bounds that stand for limits of the code are constants with the code's name (`MaxEvents`,
`MAX_TASKS` as the length of the plan); bounds that only keep a run finite are named in the
module that has them (`MaxRows`, `Outcomes`, `Time`, `MaxLives`, `MaxInvoked`, `MaxRetry`, and the constraints
`FewAfterInterrupt`, `FewTroubles` and `FirstNamesFirst` of the MC modules, of which the theorems know nothing).

`TypeOK` of a module is its documentation of the variables. For the budget, its journal, the bridge, the attempt
ledger and its journal, the adapter and the phase it is proved; in the runs its place is taken by properties that can fail for a reason in the code.

## 5. Fairness

`TaskBridge` and `DummyAdapter` state fairness for the steps of a call under way. The adapter (`WF_vars` of its run) waits
for nothing but a child, with a timeout in the code both for its run and for its reap.

The bridge runs in one thread and waits for file operations, which return or raise, and for the caller's callbacks: the
clock, `launch`, `finish` and `cleanup`. It passes none of them a timeout, and nothing is assumed of them:
fairness is `WF_vars(~InCallback /\ RunStep)`, the run's own steps while no callback is
running. `RunReleasesLock` is therefore conditional: *if* every callback comes to an end (`[]<>~InCallback`), so does
the run, on every path. A callback that never returns keeps the lock, in the model as in the code. Nothing is
assumed of the caller: a run need never begin. That `run` of the lifecycle journal cleans up what it has a
handle of is no progress claim here but an invariant, `KnownHandleIsCleaned`: `run` is never left without it.

`GenerationController` has `FairSpec`: `WF_vars(Progress)`, the worker's own steps, and `WF_vars(Environment /\ Tick)`,
the clock, without which no deadline comes. Nothing is assumed of the launcher: neither it nor
what it forked need ever end, also when killed, and `RunReturns` holds by the deadline alone.
The other modules make no claim of progress: a helper script may stop at any line, and what it leaves
may block for ever (section 8).

## 6. Proofs

| Module | Theorems | Argument |
|---|---|---|
| `StageBudget_proofs` | `BudgetTyped`, `CapsRespected`, `TranslationFirst`, `ObservationCovered`, `CompleteVerified`, `StopFinal` | `Inv`: types, a well-formed declaration, slots settled in order, a stopped budget has nothing running, settled rows carry an observation, and the reservation covers the observation. The caps alone are not inductive: that the next envelope fits follows from the guard, but that a debit is that of the slot at the cursor needs the order of the slots. |
| same | `SlotsWithinCaps`, `ElapsedExact` | `Exact`: the numbers in the books are sums over the slots of the plan, so that the caps bound the envelopes of what was debited; an elapsed time is only asserted when each slot was measured. |
| `Journals_proofs`, budget journal | `JournalTyped`, `JournalRefinesBudget`, `JournalCapsRespected`, `PoisonIsFinal`, `EventsFit` | `JInv`: the file's declaration is frozen, and the row of a call under way is one that the acknowledged budget still accepts, whatever is interrupted. So `Commit` is a step of the abstract budget and every other action a stutter; the theorems of the budget carry over through the instance. |
| same | `AckedRecoverable`, `LiveAgrees`, `DebitsOnFile` | `BudgetJournalInv`, which holds until the first interrupt that comes between a row and its commit (`FileInv`): the acknowledged rows are on stable storage (`FileKeepsUp`) and, unless one was overwritten in place (`Untouched`), replay to the acknowledged budget (`AckedReplays`); what follows them is at most the row of a living call and what others appended, or is behind a poison or a change that the next check notices, and a row of the writer there is one that the acknowledged budget accepts (`TailAccepted`): `load` finds `BudgetOnFile`, the acknowledged budget or the one after that row (`FileReplays`). `DebitsStored`: each debited slot has its row among them. The step that ends in the interrupted call itself is covered by a weaker hypothesis (`Steady`: interrupted only when idle), so that the bridge, in which the first interrupt is the last step of the journal, can use it. |
| `Journals_proofs`, lifecycle journal | `IntentBeforeProcess`, `CompleteIsGone`, `NothingAfterUnresolved`, `KnownHandlesCleaned` | `LInv` survives every interrupt. `BookInv`: each attempt has its INTENT on file (`Told`) and is there once, on one clock (`Clocked`), no process twice (`Named`). `WorldInv`: the processes are those of the attempts, in order (`Followed`), a reaped one is gone (`Finished`), and `run` is at work on the last (`RunPlace`). `Pending`: a row on its way is that of the step of `run`. `HandlesHeld`: a handle without its cleanup is in a run that still has it. `LFile` holds until the first interrupt: the acknowledged rows replay to the attempts in memory (`Stored`, `LReplayed`). What `load` finds is those or one accepted row more. |
| `TaskBridge_proofs` | `BridgeTyped`, `LaunchesArePaid`, `PoisonedBridgeStops` | every action of the bridge is a step of each of its journals, a stutter, or a poison, so that it has the invariants of both (`JournalsInv`). An interrupt in a journal passes through the bridge and poisons it, so that this journal writes nothing more (`Halted`): here, unlike in a journal alone, the file parts of the invariants survive it. `BridgeInv` adds what joins the two: the attempts follow the plan within the debited slots (`InPlan`), the lifecycle moves in a run only, on the debited task (`InRun`), and the count of paired tasks is that of the attempts but for the one in progress (`InStep`). |
| same | `JoinHolds`, `CompleteRan` | two more parts of `BridgeInv`: the acknowledged rows, unless overwritten, are, kind by kind, the debits of the plan and the observed settlements, in the order of the slots (`RowsTold`); and every settlement, acknowledged, on its way or left in the file by a call that failed or was interrupted, says what the attempt of its slot measured, and all those attempts are on one host (`SettledAsReaped`). Either file may be one row ahead of what was acknowledged: `FileRows` and `FileAttempts` say what `load` finds then, and that a reaped attempt is the same in memory and on file. For a complete phase, all slots are settled, so all attempts are reaped and no row can be ahead in the second file; a budget that still runs lets only successes within the envelope pass. |
| `Attempts_proofs`, ledger | `LedgerTyped`, `OneCircuit`, `BasisForEver` | no step rewrites a plan or a terminal attempt (`PlansKept`). Hence prerequisites stay in their circuit (`Rooted`), references in that of the action (`Charged`), and the attempts of one circuit are a closed set: the least closed set is within it (`LineageIsLeast`). |
| same | `CostsAreFinal` | `Clocked`: finitely many attempts, each with an END not before its START. A lineage only grows (`LineageGrows`), what an attempt took does not fall (`ElapsedGrows`), and the sum of a larger set is not smaller (`SumsOfLarger`); where all have ended and the references stay, the lineage stays (`LineageStays`) and so does the sum (`SumSame`). |
| `Attempts_proofs`, journal | `JournalTyped`, `JournalPublishesStable`, `JournalLoadContinues` | `RowOnItsWay`: the row of an append is in the buffer, in the file, or synced, according to its step; it stays where it got to (`SyncedRowsStay`). For the file to load more is needed, and only while no append was interrupted: its rows follow each other (`Chained`), and file and buffer are ahead of the ledger by at most that row, unless the writer is disabled (`Ahead`). |
| `Attempts_proofs`, adapter | `AdapterTyped`, `AtMostOneChild`, `ChildAlwaysOnRecord` | `OneChild` needs that the flag is up whenever there is a child (`Flagged`), that an admitted run finds none (`Alone`) and has its START acknowledged before its child (`OnRecord`). |
| `PhaseController_proofs` | `ControllerTyped`, `RawSavedFirst`, `AcceptedDocumented`, `ControllerIsOneShot` | none of the properties is inductive: that `send` is in order needs what is known at each step of `run_role`. `Standing` (store and controller stop together), `InStep` and `Counted` (both books and the history of sent roles), `Written` and `Judged` (what is on file and decided by that step). Three lemmas (`LooksOnly`, `SavesOnly`, `EndsOnly`) reduce 18 actions to three shapes. Then `Send` and `SaveAccepted` are steps of the abstract phase, and every other action ends it or is a stutter. |
| `GenerationController_proofs` | `PaidFor`, `OneAtATime`, `Whole`, `Accounts` | the sidecar is the first file and made exclusively, so that one process alone comes past it (`Blank`). What that process has passed is on stable storage (`OnDisk`), with the debits its place in the plan implies (`Books`); every process tree but that of the launch under way is at rest (`Trees`), which rests on what `observe_tessent` knows at each of its steps (`Observing`); and a summary, once written, is true of the files (`Reports`). |
| `AcceptanceJob_proofs` | `OldGone`, `Once`, `StaysHeld`, `LaunchAdmitted`, `CloseComplete` | a call to the scheduler belongs to the helper that made its intent, the package to the worker that made `worker_start` (`Owned`, `Claimed`): exclusive creation makes either the only one. What a record was made after is still true when it is relied on (`Relied`, `Recorded`). In the package the cases are taken in turn, each where its records say (`CaseInTurn`, `CaseOnRecord`), and it ends once (`OneEnd`). |
| `TopKReplay_proofs` | `OutcomesOpenedOnce`, `PublishedReplaysTheFreeze`, `ResultReplaysTheFreeze` | `OpenedOnce` alone is not inductive: a call that has written the first event and not yet opened must be counted. `OneHolder` says that all such calls are one, and that the first event of the ledger is there with them, `Events` what the ledger contains at each step of that call, `Undisturbed` that a call under which the ranking was not written holds the frozen one, and `Checked` that a result is behind the checks of the dataset. There the labels are the positives of the rule in floats, and the loop of `replay` stops at the first of them with the running sum up to it (`PublishedReplaysTheFreeze`). Nothing is assumed of the limit in floats, and of addition and `math.fsum` only that they agree on sums of up to two terms: so the result is that of `replay_prefix` where both label rules agree, and its charge is, up to the second action. Beyond that it is not, in the code either. |
| same, attempts | `AcceptedRowsAreSerial` | both sides are one family of sets, `IsRowsOf`: the tries of the first `n` stages of the scheme up to the last of each, and the status of the last one. A serial history leaves such a set, by the least history that does not (`SerialLeaves`), and each such set is left by one, stage by stage and try by try (`EveryHistory`), within the bound of `Histories` (`HistoriesOf`). A set that is accepted has as many rows of a stage as its retries count (`AcceptedAreRows`), and the converse is counted (`TriesCount`, `RowsAreAccepted`). |

Each inductive invariant is a theorem of its own (`BudgetInvariant`, `BudgetExact`, `JournalInvariant`, `DiskInvariant`,
`LifecycleInductive`, `BridgeInductive`, `LedgerInvariant`, `JournalInductive`, `AdapterInvariant`, `ControllerInvariant`,
`Inductive`, `Invariant`). The proofs assume only what the modules assume of their constants (`ASSUME` in `StageBudgetOps`,
`StageBudget`, `BudgetJournal`, `LifecycleJournal`, `TaskBridge`, `AttemptLedger`, `AttemptJournal`, `PhaseController`,
`GenerationController`, `AcceptancePackage`, `AttemptCharges`, `TopKReplay`), which TLC evaluates in the runs. That the limit on events is at
least twice the length of a plan is assumed because the code's limits (`MAX_EVENTS`, `MAX_TASKS`) are so.

*Replays and sums.* `Replay`, `LReplay`, `Rows` and the sums of the books are recursive functions over the numbers of rows or
slots. No induction can be instantiated here; its place is taken by the least number principle on a set of naturals: were
there rows on which two replays differ, or a number of slots whose sum differs, there would be a least, and the equation
of the function excludes it. With this, what `load` makes of files of any length is proved, not only checked.
The folds of the community modules are chosen functions: that one exists which satisfies its equation is proved first
(`FoldExists` and `FoldTyped` over sequences, `SumsExist` over finite sets, by a least cardinality; `HistoriesExist`), then that
any such function has the values wanted.

`WithinDeclaredCaps`, `StopIsFinal`, `ObservedWithinReserved` (budget) and `RawBeforeValidator` (phase) are
stated and proved for every value of the constants, and no longer checked by a run.

*Only model-checked*: liveness (`RunReleasesLock`, `CallReturns`, `RunReturns`), which rests on
fairness and `ENABLED`, that the prover does not reason about. Every other property of the passing runs is a theorem.

## 7. Finding

`interrupted_attempt_journal`: E65
(`experiment_overview/entries/E65_prospective_ledger_preparation.md:19`) says that an uncertain
write disables the writer. `Journal.append` does so in `except Exception`, which a
`KeyboardInterrupt` passes by. Interrupted between taking over the new size (line 365)
and publishing the ledger (line 371), the row is durable and the writer enabled; a caller
that goes on appends a second row with the same sequence number and predecessor, which
passes every check and is acknowledged, and from then on `load` rejects the file.
`LoadContinuesLedger` shows that without an interrupt the
file always continues what was published, and `PublishedOnStableStorage` that even with
one no published row is lost.

The two later journals catch `BaseException` around the append, which makes the window smaller and does not close
it, since what the append is for comes behind that clause:

* *Budget journal*: an interrupt between `_events += 1` (line 183) and `_budget = trial` (205, 201 or 222) leaves the row
  durable and counted, the budget one row behind and the writer enabled. The next `reserve` debits the same slot
  again, is acknowledged, and `load` rejects the file. In the model this is `Interrupt` at `counted` or
  `cleared`.
* *Lifecycle journal*: an interrupt between lines 241 and 245 of the INTENT append, which `run` makes in no
  `try`, leaves a durable INTENT and an enabled writer that does not know of it; the next INTENT repeats its sequence
  number, and `load` rejects the file (`InterruptAppend`). And an interrupt between the return of `launch`
  and the `try` of line 273 leaves `run` without the cleanup of a process whose handle was known (`InterruptRun`).

No document of the repository claims more of them than their code does, so these are no findings of divergence. The
properties say what holds all the same: `interrupted` and `linterrupted` are antecedents of those about replay and
cleanup only. That every process was announced (`SpawnHasDurableIntent`), that nothing is launched after an
unresolved one (`NoSpawnAfterUnresolved`), that a complete journal speaks of processes that are gone
(`CompleteMeansAllGone`) and the refinement of the budget hold through every interrupt. Under the
bridge, whose `run` poisons it for any exception, the interrupted journal is not written again, and
`LaunchPaidFor`, `JoinHoldsOnDisk` and `CompleteMeansEveryTaskRan` hold without that exception.

## 8. Abstractions

* Bytes: line and file size limits, canonical JSON, and digests. A row is a record, a torn
  row a flag, a digest the value it identifies.
* `TaskBridge` has process death but not loss of power; the lifecycle journal's `create`
  does not fsync the directory, so its file may vanish then, while the budget journal is checked under
  loss of power by itself.
* `LifecycleJournal`: the `try` block of an append is one step, that passes, or fails with the row absent, torn or whole in
  the file. Rows that are overwritten in place are left out there (they are in `BudgetJournal`, as `Intact`, where the
  properties about replay except them).
* Interrupts: those that come inside an exception handler or a `finally` before its first statement are left out,
  among them the ones that leave a busy flag or a lock taken for ever: between `_begin` and `acquired = True` of the
  budget journal, between taking the worker lock or the bridge's lock and the `try` that gives it back. A second interrupt in the
  handling of a first is in `PhaseController` only.
* The budget's declaration is a value: the code freezes a copy before it writes the header.
* A clock session is that of the attempt in `AttemptLedger`: readings of another session are
  rejected by the code and cannot occur in the model.
* Payload fields that no rule compares are left out.
* `PhaseController`: the content of packets, reviews and answers is their outcome (a role that does
  not match fails; an answer is good, bad or unbounded). The three files of a native receipt are
  one. The clock only runs forward by ticks; a clock that jumps or changes its domain is a
  failure, as in `remaining`. A file that was not written whole counts as absent: nothing
  reads or overwrites it afterwards. Loss of power is left out.
* `GenerationController`: what files and callbacks contain, the directory quota and the samples of memory are
  left out, a check of them passes or raises. The publication of the acknowledgement and the books behind it (lines 245-253)
  are one step: an interrupt in between is left out. The calls to the binder, the materializer and the
  storage return or raise, which `RunReturns` rests on; only of the launcher nothing is assumed. A launcher forks one process at most; time has
  the three phases the code tells apart (open, the last ten seconds, over).
* `AcceptanceJob`: what observations, reviews and manifests contain and the pins of bundle and binaries are left out
  likewise. A retirement that is killed between `bkill` and its result, or while it writes
  a proof, leaves a name that the exclusive creation refuses afterwards: the job is then never
  registered. This is the safe side, and no property claims progress.
* `TopKReplay`: one method and one circuit; a digest is what it was taken of; the manifest of the freeze is
  written once; loss of power is left out, as the directory of the access ledger is not
  fsynced. What floats are is left open (section 3): that the label rule `1.01 * oracle + 1e-12` of
  `validate_dataset` parts from the integer rule of `replay_prefix` from about 1.4e14 cycles on, below the code's
  `MAX_CYCLES` of 10^15, and that `+=` parts from `math.fsum` from the third term on, are both possible in the model.
* `DummyAdapter`: calls that find the lock taken are refused and change nothing. An interrupt between
  taking the lock and entering the `try` that gives it back (lines 68 and 69) is left out: the
  lock would stay taken for ever. The process is one; what a restart forgets is listed as a hazard.
