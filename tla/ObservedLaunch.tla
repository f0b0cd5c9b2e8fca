----------------------------- MODULE ObservedLaunch -----------------------------
(***************************************************************************)
(* One observed launch of the launcher: observe_tessent() of               *)
(* prospective_generation_process_e113.py over the worker's descendants    *)
(* (direct_tessent_acceptance_e100.py and e104.py).  The worker is the     *)
(* subreaper of what it starts: a process whose parent dies becomes a      *)
(* direct child of the worker, in whatever session it put itself.          *)
(*                                                                         *)
(* Time is the package's: open until ten seconds before its end, closing   *)
(* during them, then over.  A check of the clock, of the memory, of the    *)
(* directory or of an identity that does not pass is Raises.               *)
(***************************************************************************)
EXTENDS Naturals, FiniteSets

CONSTANT Launch   \* the tasks that launch

VARIABLES
  clock,     \* "open", "closing", "over"
  tree,      \* of a launch: its leader, and a process the leader forked
  launches,  \* history: calls of Popen that made a process
  current,   \* the launch observed
  at,        \* progress of observe_tessent
  seen       \* the observation it will return

launchVars == <<clock, tree, launches, current, at, seen>>

Leader == {"none", "live", "zero", "bad", "reaped", "orphan"}
Kid == {"none", "child", "adopted", "orphan", "gone"}
NoTree == [leader |-> "none", kid |-> "none"]
NotSeen == [attempted |-> FALSE, handle |-> FALSE, identity |-> FALSE,
            persisted |-> FALSE, failure |-> FALSE, cleaned |-> FALSE,
            rc |-> "none"]

Alive(l) == \/ tree[l].leader \in {"live", "orphan"}
            \/ tree[l].kid \in {"child", "adopted", "orphan"}

\* What /proc lists as children of the worker: zombies too.
DirectChild(l) == \/ tree[l].leader \in {"live", "zero", "bad"}
                  \/ tree[l].kid = "adopted"

LaunchInit ==
  /\ clock = "open"
  /\ tree = [l \in Launch |-> NoTree]
  /\ launches = 0
  /\ current \in Launch
  /\ at = "idle"
  /\ seen = NotSeen

Goto(from, to) == at = from /\ at' = to
See(field, value) == seen' = [seen EXCEPT ![field] = value]

-----------------------------------------------------------------------------
\* The processes and the clock, whatever the worker does.
Tick ==
  /\ clock # "over"
  /\ clock' = IF clock = "open" THEN "closing" ELSE "over"
  /\ UNCHANGED <<tree, launches, current, at, seen>>

Adopt(kid) == IF kid = "child" THEN "adopted" ELSE kid

Lives(l) ==
  /\ \/ /\ tree[l].leader = "live"
        /\ tree[l].kid = "none"
        /\ tree' = [tree EXCEPT ![l].kid = "child"]
     \/ /\ tree[l].leader = "live"
        /\ \E rc \in {"zero", "bad"} :
             tree' = [tree EXCEPT ![l] = [leader |-> rc, kid |-> Adopt(@.kid)]]
     \/ /\ tree[l].leader = "orphan"
        /\ tree' = [tree EXCEPT ![l].leader = "reaped"]
     \/ /\ tree[l].kid \in {"child", "adopted", "orphan"}
        /\ tree' = [tree EXCEPT ![l].kid = "gone"]
  /\ UNCHANGED <<clock, launches, current, at, seen>>

-----------------------------------------------------------------------------
Enter(l) ==
  /\ Goto("idle", "prelaunch")
  /\ current' = l
  /\ seen' = NotSeen
  /\ UNCHANGED <<clock, tree, launches>>

Prelaunch ==
  /\ Goto("prelaunch", "popen")
  /\ clock = "open"
  /\ UNCHANGED <<clock, tree, launches, current, seen>>

\* Popen returns a handle, or raises: nothing was started, or a process was
\* and its handle is lost.
Popen ==
  /\ at = "popen"
  /\ \E started, handle \in BOOLEAN :
       /\ handle => started
       /\ at' = IF handle THEN "identity" ELSE "leftover"
       /\ seen' = [seen EXCEPT !.attempted = TRUE, !.handle = handle,
                               !.failure = ~handle]
       /\ launches' = launches + (IF started THEN 1 ELSE 0)
       /\ tree' = IF started
                    THEN [tree EXCEPT ![current] = [NoTree EXCEPT !.leader = "live"]]
                    ELSE tree
  /\ UNCHANGED <<clock, current>>

\* _spawn_identity(): the handle's process, still running.
Identify ==
  /\ Goto("identity", "callback")
  /\ tree[current].leader = "live"
  /\ See("identity", TRUE)
  /\ UNCHANGED <<clock, tree, launches, current>>

\* on_spawn returned True.
Acknowledged ==
  /\ Goto("callback", "loop")
  /\ See("persisted", TRUE)
  /\ UNCHANGED <<clock, tree, launches, current>>

Exited == tree[current].leader \in {"zero", "bad"}
Reaped == [tree EXCEPT ![current].leader = "reaped"]

\* The loop ends: output at its end, the leader polled.
Ends ==
  /\ Goto("loop", "kill")
  /\ Exited
  /\ See("rc", tree[current].leader)
  /\ tree' = Reaped
  /\ UNCHANGED <<clock, launches, current>>

\* What must raise at this point, and what may.
MustRaise ==
  \/ at \in {"prelaunch", "loop"} /\ clock # "open"
  \/ at = "identity" /\ tree[current].leader # "live"

Raises ==
  /\ at \in {"prelaunch", "identity", "callback", "loop"}
  /\ at' = IF at = "prelaunch" THEN "leftover" ELSE "kill"
  /\ See("failure", TRUE)
  /\ UNCHANGED <<clock, tree, launches, current>>

-----------------------------------------------------------------------------
\* Descendants.cleanup(): a round kills the direct children of its batch, of
\* which any may outlive the round; a leader that dies leaves its process to
\* the worker.
Kill ==
  /\ Goto("kill", "check")
  /\ clock # "over"
  /\ \E leader \in Leader, kid \in Kid :
       /\ \/ leader = tree[current].leader
          \/ leader = "bad" /\ tree[current].leader = "live"
       /\ \/ kid = IF leader # tree[current].leader THEN Adopt(tree[current].kid)
                                                    ELSE tree[current].kid
          \/ kid = "gone" /\ tree[current].kid = "adopted"
       /\ tree' = [tree EXCEPT ![current] = [leader |-> leader, kid |-> kid]]
  /\ UNCHANGED <<clock, launches, current, seen>>

\* A mutant of Check: clean once the leader has been reaped.
CheckLeaderOnly ==
  /\ at = "check"
  /\ tree' = IF Exited THEN Reaped ELSE tree
  /\ LET clean == tree'[current].leader = "reaped"
     IN /\ at' = IF clean THEN "close" ELSE "kill"
        /\ seen' = [seen EXCEPT !.cleaned = clean,
                                !.rc = IF Exited THEN tree[current].leader ELSE @]
  /\ UNCHANGED <<clock, launches, current>>

\* Then polls the leader and reads the direct children again.
Check ==
  /\ at = "check"
  /\ tree' = IF Exited THEN Reaped ELSE tree
  /\ LET clean == /\ tree'[current].leader = "reaped"
                  /\ \A l \in Launch : ~DirectChild(l)'
     IN /\ at' = IF clean THEN "close" ELSE "kill"
        /\ seen' = [seen EXCEPT !.cleaned = clean,
                                !.rc = IF Exited THEN tree[current].leader ELSE @]
  /\ UNCHANGED <<clock, launches, current>>

\* A mutant of GiveUp: the rounds are not bounded by the deadline.
GiveUpNever == FALSE

\* The deadline passes, or the identity of a child cannot be confirmed.
GiveUp == at = "kill" /\ clock = "over"

CleanupEnds ==
  /\ at \in {"kill", "check"}
  /\ at' = "close"
  /\ UNCHANGED <<clock, tree, launches, current, seen>>

\* No handle: any direct child at all is one too many.
Leftover ==
  /\ Goto("leftover", "close")
  /\ \E clean \in {FALSE, \A l \in Launch : ~DirectChild(l)} : See("cleaned", clean)
  /\ UNCHANGED <<clock, tree, launches, current>>

\* The drained prefix and the pipe; a pipe that does not close, or a cleanup
\* that was not confirmed, is a failure.
Return ==
  /\ Goto("close", "done")
  /\ \E clean \in {seen.cleaned, seen.cleaned /\ ~seen.handle} :
       seen' = [seen EXCEPT !.cleaned = clean, !.failure = @ \/ ~clean]
  /\ UNCHANGED <<clock, tree, launches, current>>

\* A step that the observer takes by itself, unless it dies.
ObserverStep ==
  \/ Prelaunch \/ Popen \/ Identify \/ Ends \/ (MustRaise /\ Raises)
  \/ Kill \/ Check \/ (GiveUp /\ CleanupEnds) \/ Leftover \/ Return
=============================================================================
