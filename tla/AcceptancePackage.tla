--------------------------- MODULE AcceptancePackage ---------------------------
(***************************************************************************)
(* The cases of one acceptance job, one after the other: run_package() and *)
(* its journal (prospective_acceptance_coordinator_v1.py) over run_item()  *)
(* and its memory domain (prospective_acceptance_process_v1.py).           *)
(*                                                                         *)
(* A record is acknowledged when it was fsynced and read back.  An append  *)
(* that fails may leave bytes behind, and the next append finds the length *)
(* changed.  The tool runs in the memory cgroup of the worker and may      *)
(* leave strays there.  A clock, a sample or a pin that does not pass is a *)
(* raise.                                                                  *)
(***************************************************************************)
EXTENDS ExclusiveFiles

CONSTANT Cases   \* how many

ASSUME CaseAssumption == Cases \in Nat \ {0}

VARIABLES
  journal,     \* acknowledged records
  tail,        \* a failed append left bytes
  point,       \* where the worker is in the package
  ordinal,     \* the case
  preflighted, \* preflight_seen
  launched,    \* launch_seen
  receipt,     \* what run_item() will return: its status, "PASS" until it fails,
               \* or "NONE" when it will not return
  tool         \* of a case: the leader, and whether it left strays

packageVars == <<journal, tail, point, ordinal, preflighted, launched, receipt, tool>>

Case == 1 .. Cases
Record(kind) == [kind |-> kind, ordinal |-> ordinal, status |-> receipt]
Kept(kind, i) == \E r \in journal : r.kind = kind /\ r.ordinal = i
Gone(i) == tool[i].leader \in {"none", "reaped"} /\ ~tool[i].stray

PackageInit ==
  /\ journal = {}
  /\ tail = FALSE
  /\ point = "idle" /\ ordinal = 0
  /\ preflighted = FALSE /\ launched = FALSE
  /\ receipt = "PASS"
  /\ tool = [i \in Case |-> [leader |-> "none", stray |-> FALSE]]

\* The process is gone, with what it had in memory.
Forget ==
  /\ point' = "idle" /\ ordinal' = 0
  /\ preflighted' = FALSE /\ launched' = FALSE
  /\ receipt' = "PASS"
  /\ UNCHANGED <<journal, tail>>

Goto(from, to) == point = from /\ point' = to

-----------------------------------------------------------------------------
\* The tool, whatever the worker does.
ToolRuns ==
  /\ \E i \in Case :
       \/ tool[i].leader = "live" /\ \E s \in {"zero", "bad"} :
            tool' = [tool EXCEPT ![i].leader = s]
       \/ tool[i].leader = "live" /\ ~tool[i].stray
            /\ tool' = [tool EXCEPT ![i].stray = TRUE]
       \/ tool[i].stray /\ tool' = [tool EXCEPT ![i].stray = FALSE]
  /\ UNCHANGED <<journal, tail, point, ordinal, preflighted, launched, receipt>>

-----------------------------------------------------------------------------
\* Where run_package() appends, and where it goes then.
After ==
  [HEADER |-> "MATERIALIZED", MATERIALIZED |-> "INTENT", INTENT |-> "domain",
   PREFLIGHT |-> "popen", LAUNCHED |-> "capture", TERMINAL |-> "verdict",
   CLOSE |-> "returned", STOP |-> "stopped"]

\* event_sink(): one PREFLIGHT, then one LAUNCHED, of the case under way.
InOrder ==
  /\ point = "PREFLIGHT" => ~preflighted /\ ~launched
  /\ point = "LAUNCHED" => preflighted /\ ~launched

\* A mutant of Acknowledged: an append that fails is not noticed.
AcknowledgedAnyhow ==
  \/ ~tail /\ journal' = journal \cup {Record(point)} /\ UNCHANGED tail
  \/ tail' = TRUE /\ UNCHANGED journal

Acknowledged == ~tail /\ journal' = journal \cup {Record(point)} /\ UNCHANGED tail

Appends ==
  /\ point \in DOMAIN After
  /\ InOrder
  /\ Acknowledged
  /\ point' = After[point]
  /\ ordinal' = IF point = "HEADER" THEN 1 ELSE ordinal
  /\ preflighted' = (point = "PREFLIGHT" \/ (preflighted /\ point # "MATERIALIZED"))
  /\ launched' = (point = "LAUNCHED" \/ (launched /\ point # "MATERIALIZED"))
  /\ UNCHANGED <<receipt, tool>>

\* _Domain(): nothing but the worker in its cgroup.
Domain ==
  /\ Goto("domain", "PREFLIGHT")
  /\ \A i \in Case : Gone(i)
  /\ UNCHANGED <<journal, tail, ordinal, preflighted, launched, receipt, tool>>

\* Popen() returns, or raises whether or not it made a process.
Popen ==
  /\ point = "popen"
  /\ \E started, returned \in BOOLEAN :
       /\ returned => started
       /\ tool' = IF started THEN [tool EXCEPT ![ordinal].leader = "live"] ELSE tool
       /\ point' = IF returned THEN "LAUNCHED" ELSE "cleanup"
       /\ receipt' \in IF returned THEN {receipt} ELSE {"CLEANUP_UNKNOWN", "NONE"}
  /\ UNCHANGED <<journal, tail, ordinal, preflighted, launched>>

\* _capture() to the end, and the verdict on what the tool printed.
Capture ==
  /\ Goto("capture", "cleanup")
  /\ tool[ordinal].leader \in {"zero", "bad"}
  /\ receipt' \in {"FAIL"} \cup IF tool[ordinal].leader = "zero" THEN {"PASS"} ELSE {}
  /\ UNCHANGED <<journal, tail, ordinal, preflighted, launched, tool>>

\* Inside run_item() an Exception ends in a receipt.
ItemRaises ==
  /\ point \in {"domain", "PREFLIGHT", "popen", "LAUNCHED", "capture"}
  /\ point' = IF point \in {"LAUNCHED", "capture"} THEN "cleanup" ELSE "TERMINAL"
  /\ tail' \in {tail, tail \/ point \in {"PREFLIGHT", "LAUNCHED"}}
  /\ receipt' = "FAIL"
  /\ UNCHANGED <<journal, ordinal, preflighted, launched, tool>>

\* A KeyboardInterrupt does not: run_package() gets it, behind the cleanup
\* once there is something to clean up, and at once if it is that which it
\* interrupts.
ItemInterrupted ==
  /\ point \in {"domain", "PREFLIGHT", "popen", "LAUNCHED", "capture", "cleanup"}
  /\ point' = IF point \in {"LAUNCHED", "capture"} THEN "cleanup" ELSE "STOP"
  /\ tail' \in {tail, tail \/ point \in {"PREFLIGHT", "LAUNCHED"}}
  /\ receipt' = "NONE"
  /\ UNCHANGED <<journal, ordinal, preflighted, launched, tool>>

\* cleanup(): kills what is in the cgroup, round after round; a member may
\* outlive a round.  True when the leader is reaped and nobody is left.
Cleanup ==
  /\ point = "cleanup"
  /\ ~Gone(ordinal)
  /\ \E leader \in {tool[ordinal].leader, "reaped"}, stray \in {tool[ordinal].stray, FALSE} :
       tool' = [tool EXCEPT ![ordinal] = [leader |-> leader, stray |-> stray]]
  /\ UNCHANGED <<journal, tail, point, ordinal, preflighted, launched, receipt>>

\* It returned True, the logs were saved and the last sample taken; or not.
Cleaned ==
  /\ Goto("cleanup", IF receipt = "NONE" THEN "STOP" ELSE "TERMINAL")
  /\ \/ Gone(ordinal) /\ receipt' \in {receipt} \cup (IF receipt = "PASS" THEN {"FAIL"} ELSE {})
     \/ receipt' = IF receipt = "NONE" THEN "NONE" ELSE "CLEANUP_UNKNOWN"
  /\ UNCHANGED <<journal, tail, ordinal, preflighted, launched, tool>>

\* A mutant of Accepted: any receipt.
AcceptedAnyhow == TRUE
Accepted == preflighted /\ launched /\ receipt = "PASS"

\* The next case, or the end.
Verdict ==
  /\ point = "verdict"
  /\ Accepted
  /\ IF ordinal < Cases THEN point' = "MATERIALIZED" /\ ordinal' = ordinal + 1
                        ELSE point' = "CLOSE" /\ UNCHANGED ordinal
  /\ UNCHANGED <<journal, tail, preflighted, launched, receipt, tool>>

\* run_package() itself raises: it tries to append STOP, once.  An interrupt
\* may come as late as behind the CLOSE.
Raises ==
  /\ point \in {"HEADER", "MATERIALIZED", "INTENT", "TERMINAL", "verdict", "CLOSE",
               "returned"}
  /\ point' = "STOP"
  /\ tail' \in {tail, tail \/ point \notin {"verdict", "returned"}}
  /\ UNCHANGED <<journal, ordinal, preflighted, launched, receipt, tool>>

GivesUp ==
  /\ Goto("STOP", "stopped")
  /\ UNCHANGED <<journal, tail, ordinal, preflighted, launched, receipt, tool>>

PackageStep == \/ Appends \/ Domain \/ Popen \/ Capture \/ ItemRaises
               \/ ItemInterrupted \/ Cleanup \/ Cleaned \/ Verdict \/ Raises \/ GivesUp
=============================================================================
