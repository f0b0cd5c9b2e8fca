------------------------------ MODULE MCTaskBridge ------------------------------
(***************************************************************************)
(* Two tasks, a translation and the incremental stage that needs it, which *)
(* may succeed or time out; two hosts with two pids each, so that a        *)
(* backend can change host or name a process twice; two clock readings, so *)
(* that an attempt can outlast its envelope.                               *)
(***************************************************************************)
EXTENDS TaskBridge

CONSTANTS a, b, r1, h1, h2, p1, p2, s1, Nil

MCUid == {a, b}

Slot(u, k, d) ==
  [uid |-> u, kind |-> k, stage |-> "M", req |-> r1, deps |-> d,
   timeout |-> 1, cleanup |-> 1]

MCDeclarations ==
  { [plan |-> << Slot(a, "STATUS_TRANSLATION", {}),
                 Slot(b, "TESSENT_STAGE", {a}) >>,
     caps |-> [k \in Kind |-> 1], phase |-> 4] }

MCProfileMaps ==
  { [u \in MCUid |-> "success"],
    [u \in MCUid |-> IF u = b THEN "timeout_group" ELSE "success"] }

MCElapsed == {0}

\* Without loss: the first process is named <<h1, p1>>, or has no identity, and
\* one that is named on another host is named <<h2, p1>>.
FirstNamesFirst ==
  run # L!NoRun =>
     run.ident \in {Nil, [host |-> h1, pid |-> p1]} \cup
                   {i \in {[host |-> h1, pid |-> p2], [host |-> h2, pid |-> p1]} :
                      Len(world) = 2}
=============================================================================
