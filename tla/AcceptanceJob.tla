----------------------------- MODULE AcceptanceJob -----------------------------
(***************************************************************************)
(* The acceptance job, from the retirement of the old job to the last case *)
(* of the new one: retire_acceptance_job_e98.py (retire, confirm),         *)
(* register_acceptance_job_e98.py, prepare_acceptance_resume_e98.py        *)
(* (resume) and run_acceptance_job_e98.py (the worker), around             *)
(* AcceptancePackage.                                                      *)
(*                                                                         *)
(* A helper is a process that runs one script, a sequence of steps.  It    *)
(* returns early, raises or is killed at any step, and any script may be   *)
(* invoked again, by another helper at the same time too.  The scheduler   *)
(* is external: a client may act on it or not, and its answer may be lost. *)
(***************************************************************************)
EXTENDS AcceptancePackage, Sequences

CONSTANTS
  Helper,       \* the processes that may run at the same time
  MaxInvoked    \* bound: scripts invoked

VARIABLES
  old,       \* the old job: "active", "terminal"
  job,       \* the new job: "none", "held", "pending", "running", "ended"
  calls,     \* history: calls of bkill, bsub and bresume
  named,     \* the answer of bsub named the job
  issued,    \* the review when the resume intent was made: "none", "fresh", "stale"
  helper,    \* of a helper: its script, the step, the state it saw, its review
  invoked,   \* scripts invoked
  work       \* the step of the worker, 0 when there is none

schedulerVars == <<old, job, calls, named>>
helperVars == <<issued, helper, invoked>>
vars == <<torn, stable, packageVars, schedulerVars, helperVars, work>>

\* Files that a script writes one after the other, with nothing between them
\* that anybody reads, are one step.
Script ==
  [idle |-> <<"rest">>,
   retire |-> <<"review", "query", "control", "review", "cancellation_intent", "bkill",
                "after", "cancel_result", "proof">>,
   confirm |-> <<"retained", "query", "terminal_stdout", "proof">>,
   register |-> <<"verify", "registration", "registration_intent", "bsub",
                  "registration_result">>,
   resume |-> <<"review", "evidence", "query", "review", "resume", "resume_intent",
                "copies", "permit", "review", "bresume", "resume_result">>]
Op == DOMAIN Script \ {"idle"}
Client == {"bkill", "bsub", "bresume"}
Test == {"review", "retained", "verify", "evidence"}
Query == {"query", "after"}

Idle == [op |-> "idle", step |-> 1, saw |-> "unknown", fresh |-> FALSE]
Doing(h) == Script[helper[h].op][helper[h].step]
Publishes(h) == helper[h].op # "idle" /\ Doing(h) \notin Client \cup Test \cup Query

\* The steps of the worker before run_package() and its first record.
Work == <<"chain", "worker_start", "runtime", "lease", "gate", "bundle", "journal">>

Init ==
  /\ torn = {} /\ stable = {}
  /\ PackageInit
  /\ old \in {"active", "terminal"}
  /\ job = "none"
  /\ calls = [c \in Client |-> 0]
  /\ named = FALSE
  /\ issued = "none"
  /\ helper = [h \in Helper |-> Idle]
  /\ invoked = 0 /\ work = 0

-----------------------------------------------------------------------------
Invoke(h) ==
  /\ helper[h].op = "idle"
  /\ invoked < MaxInvoked
  /\ invoked' = invoked + 1
  /\ \E op \in Op : helper' = [helper EXCEPT ![h] = [Idle EXCEPT !.op = op, !.fresh = TRUE]]
  /\ UNCHANGED <<torn, stable, packageVars, schedulerVars, issued, work>>

\* A job that was found terminal needs no bkill.
Skips(h) == helper[h].op = "retire" /\ Doing(h) = "control" /\ helper[h].saw = "terminal"
NextStep(h) == IF Skips(h) THEN Len(Script["retire"]) ELSE helper[h].step + 1
Advance(h) ==
  helper' = [helper EXCEPT ![h] = IF helper[h].step = Len(Script[helper[h].op])
                                    THEN Idle ELSE [@ EXCEPT !.step = NextStep(h)]]

\* A mutant of Evidenced: an unknown submission is evidence.
EvidencedUnknown == Exists("registration_result") /\ "registration_intent" \in stable
\* _registration_evidence(): the result names the job, the intent and the
\* answer of bsub agree.
Evidenced == named /\ Exists("registration_result") /\ "registration_intent" \in stable

Passes(h) ==
  CASE Doing(h) = "review" -> helper[h].fresh
    [] Doing(h) = "retained" -> Exists("cancel_result")
    [] Doing(h) = "verify" -> Exists("proof")
    [] Doing(h) = "evidence" -> Evidenced

Tested(h) ==
  /\ Doing(h) \in Test
  /\ Passes(h)
  /\ Advance(h)
  /\ UNCHANGED <<torn, stable, packageVars, schedulerVars, issued, invoked, work>>

\* bjobs of the old job or of the new one; the resume needs it held.  The
\* query after bkill may fail, and the retirement goes on.
Queried(h) ==
  /\ Doing(h) \in Query
  /\ helper[h].op = "resume" => job = "held"
  /\ \E saw \in {old} \cup (IF Doing(h) = "after" THEN {"unknown"} ELSE {}) :
       helper' = [helper EXCEPT ![h].step = @ + 1, ![h].saw = saw]
  /\ UNCHANGED <<torn, stable, packageVars, schedulerVars, issued, invoked, work>>

\* A mutant of Confirmed: whatever the last query said.
ConfirmedAnyhow(h) == TRUE
Confirmed(h) == Doing(h) \in {"proof", "terminal_stdout"} => helper[h].saw = "terminal"

\* The review may have passed MAX_AGE when the intent is made: it stays so.
Published(h) ==
  /\ Publishes(h)
  /\ Confirmed(h)
  /\ Create(Doing(h))
  /\ IF Doing(h) = "resume_intent"
       THEN \E fresh \in BOOLEAN :
              /\ issued' = IF fresh THEN "fresh" ELSE "stale"
              /\ helper' = [helper EXCEPT ![h].step = @ + 1, ![h].fresh = fresh]
       ELSE Advance(h) /\ UNCHANGED issued
  /\ UNCHANGED <<packageVars, schedulerVars, invoked, work>>

\* _client(): the call, which may have no effect, and whose answer may not
\* be what the script waits for.
Called(h) ==
  /\ Doing(h) \in Client
  /\ calls' = [calls EXCEPT ![Doing(h)] = @ + 1]
  /\ \E acts, answers \in BOOLEAN :
       /\ answers => acts
       /\ old' = IF Doing(h) = "bkill" /\ acts THEN "terminal" ELSE old
       /\ job' = IF acts /\ Doing(h) = "bsub" THEN "held"
                 ELSE IF acts /\ Doing(h) = "bresume" /\ job = "held" THEN "pending" ELSE job
       /\ named' = IF Doing(h) = "bsub" THEN answers ELSE named
  /\ Advance(h)
  /\ UNCHANGED <<torn, stable, packageVars, issued, invoked, work>>

\* Returns early, raises, or is killed.
Quits(h) ==
  /\ helper[h].op # "idle"
  /\ helper' = [helper EXCEPT ![h] = Idle]
  /\ IF Publishes(h) /\ Confirmed(h) THEN Breaks(Doing(h)) ELSE UNCHANGED <<torn, stable>>
  /\ UNCHANGED <<packageVars, schedulerVars, issued, invoked, work>>

HelperStep(h) == Invoke(h) \/ Tested(h) \/ Queried(h) \/ Published(h)
                 \/ Called(h) \/ Quits(h)

-----------------------------------------------------------------------------
OldEnds ==
  /\ old = "active" /\ old' = "terminal"
  /\ UNCHANGED <<torn, stable, packageVars, job, calls, named, helperVars, work>>

\* The scheduler starts the command of the job.
Dispatch ==
  /\ job = "pending"
  /\ job' = "running" /\ work' = 1
  /\ UNCHANGED <<torn, stable, packageVars, old, calls, named, helperVars>>

\* The worker is gone; the scheduler may start it again.
WorkerEnds ==
  /\ work' = 0
  /\ Forget
  /\ job' \in {"ended", "pending"}
  /\ UNCHANGED <<tool, old, calls, named, helperVars>>

\* main() and execute(): permit and review chain, before the claim.
Chained == Exists("permit") /\ Exists("copies") /\ issued = "fresh"

Prepares ==
  /\ work \in DOMAIN Work
  /\ Work[work] = "chain" => Chained
  /\ IF Work[work] \in {"chain", "lease"} THEN UNCHANGED <<torn, stable>> ELSE Create(Work[work])
  /\ work' = work + 1
  /\ point' = IF work' > Len(Work) THEN "HEADER" ELSE point
  /\ UNCHANGED <<journal, tail, ordinal, preflighted, launched, receipt, tool,
                 schedulerVars, helperVars>>

\* It raises or is killed.
PreparesNot ==
  /\ work \in DOMAIN Work
  /\ IF Work[work] \in {"chain", "lease"} THEN UNCHANGED <<torn, stable>> ELSE Breaks(Work[work])
  /\ WorkerEnds

Packages == work > Len(Work) /\ PackageStep
            /\ UNCHANGED <<torn, stable, schedulerVars, helperVars, work>>

\* run_package() has returned or raised, or the worker is killed in it.
PackageEnds == work > Len(Work) /\ WorkerEnds /\ UNCHANGED <<torn, stable>>

\* A tool that outlives its worker is left as it was.
ToolStep == work > Len(Work) /\ ToolRuns
            /\ UNCHANGED <<torn, stable, schedulerVars, helperVars, work>>

\* The host loses power, with every process on it.
PowerLost ==
  /\ invoked > 0
  /\ LosePower
  /\ helper' = [h \in Helper |-> Idle]
  /\ tool' = [i \in Case |-> IF tool[i].leader = "none" THEN tool[i]
                             ELSE [leader |-> "reaped", stray |-> FALSE]]
  /\ work' = 0
  /\ Forget
  /\ job' \in IF work > 0 THEN {"ended", "pending"} ELSE {job}
  /\ UNCHANGED <<old, calls, named, issued, invoked>>

Next == \/ \E h \in Helper : HelperStep(h)
        \/ OldEnds \/ Dispatch \/ Prepares \/ PreparesNot \/ Packages \/ PackageEnds
        \/ ToolStep \/ PowerLost

Spec == Init /\ [][Next]_vars

-----------------------------------------------------------------------------
\* The new job exists only when the old one has ended: whatever bkill did, a
\* proof is made from an answer that said so, and registration needs it.
OldGoneBeforeNew == calls["bsub"] > 0 => old = "terminal"

\* Nothing is asked of the scheduler twice, by whatever number of helpers,
\* lives of the host and lost answers, and what is asked has its intent on
\* stable storage.
AskedOnce ==
  /\ \A c \in Client : calls[c] <= 1
  /\ calls["bkill"] = 1 => "cancellation_intent" \in stable
  /\ calls["bsub"] = 1 => "registration_intent" \in stable
  /\ calls["bresume"] = 1 => {"resume_intent", "permit"} \subseteq stable /\ issued = "fresh"

\* A job whose submission was not confirmed stays held for good.
UnknownStaysHeld == ~named => job \in {"none", "held"}

Ran == {i \in Case : tool[i].leader # "none"}

\* The tool runs a case when the whole chain is on stable storage - the claim
\* of the worker, the preflight of the case - and every earlier case passed
\* and left nothing.
LaunchIsAdmitted == \A i \in Ran :
  /\ {"permit", "worker_start", "bundle"} \subseteq stable
  /\ Kept("PREFLIGHT", i)
  /\ \A k \in 1 .. i - 1 : Gone(k) /\ [kind |-> "TERMINAL", ordinal |-> k, status |-> "PASS"] \in journal

\* The package closes when every case was launched, passed and left nothing,
\* and never after it stopped: a STOP beside the CLOSE is that of an interrupt
\* behind the last case, which had passed.
CloseIsComplete == (\E i \in 0 .. Cases : Kept("CLOSE", i)) =>
  /\ \A i \in Case : Kept("LAUNCHED", i) /\ Gone(i)
       /\ [kind |-> "TERMINAL", ordinal |-> i, status |-> "PASS"] \in journal
  /\ \A r \in journal : r.kind = "STOP" => r.ordinal = Cases /\ r.status = "PASS"
=============================================================================
