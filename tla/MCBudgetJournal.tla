---------------------------- MODULE MCBudgetJournal ----------------------------
(***************************************************************************)
(* Two declarations: a translation with its incremental stage, and two H   *)
(* stages of which the caps admit one.                                     *)
(***************************************************************************)
EXTENDS BudgetJournal

CONSTANTS a, b, r1, r2, Nil

MCUid == {a, b}
MCRequest == {r1, r2}

Slot(u, k, s, r, d) ==
  [uid |-> u, kind |-> k, stage |-> s, req |-> r, deps |-> d,
   timeout |-> 1, cleanup |-> 1]

Caps(t, c) == [k \in Kind |-> IF k = "TESSENT_STAGE" THEN t ELSE c]

MCDeclarations ==
  { [plan |-> << Slot(a, "STATUS_TRANSLATION", "M", r1, {}),
                 Slot(b, "TESSENT_STAGE", "M", r1, {a}) >>,
     caps |-> Caps(1, 1), phase |-> 4],
    [plan |-> << Slot(a, "TESSENT_STAGE", "H", r1, {}),
                 Slot(b, "TESSENT_STAGE", "H", r2, {}) >>,
     caps |-> Caps(1, 0), phase |-> 4] }

MCElapsed == {Nil, 1, 3}

\* After an interrupt has left a row uncommitted, one or two more are enough.
FewAfterInterrupt == interrupted => Len(disk) <= 2
=============================================================================
