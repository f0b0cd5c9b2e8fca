----------------------------- MODULE MCStageBudget -----------------------------
(***************************************************************************)
(* Every declaration of at most three slots over a catalogue of seven      *)
(* nodes, well-formed or not (the constructor filters them), with caps and *)
(* phase envelopes around the boundary of what the plan needs.             *)
(***************************************************************************)
EXTENDS StageBudget

CONSTANTS t1, t2, h1, m1, m2, f1, r1, r2, Nil

MCUid == {t1, t2, h1, m1, m2, f1}
MCRequest == {r1, r2}

Slot(u, k, s, r, d, ns) ==
  [uid |-> u, kind |-> k, stage |-> s, req |-> r, deps |-> d,
   timeout |-> ns, cleanup |-> 1]

Catalogue ==
  { Slot(t1, "STATUS_TRANSLATION", "M", r1, {}, 1),
    Slot(t2, "STATUS_TRANSLATION", "F", r2, {}, 1),
    Slot(h1, "TESSENT_STAGE", "H", r1, {}, 2),
    Slot(m1, "TESSENT_STAGE", "M", r1, {t1}, 1),
    Slot(m2, "TESSENT_STAGE", "M", r1, {}, 1),       \* no translation
    Slot(m2, "TESSENT_STAGE", "M", r2, {t1}, 1),     \* translation of r1
    Slot(f1, "TESSENT_STAGE", "F", r2, {t2}, 1) }

MCDeclarations ==
  { [plan |-> p, phase |-> ns,
     caps |-> [k \in Kind |-> IF k = "TESSENT_STAGE" THEN c ELSE t]] :
      p \in UNION {[1 .. n -> Catalogue] : n \in 1 .. 3},
      ns \in {4, 7}, c \in {1, 2}, t \in {0, 1} }

MCElapsed == {Nil, 0, 2, 3}

=============================================================================
