----------------------------- MODULE MCDummyAdapter -----------------------------
(***************************************************************************)
(* Two journals of two attempts each: a child that one journal left behind *)
(* and a run over the other.                                               *)
(***************************************************************************)
EXTENDS DummyAdapter

CONSTANTS j1, j2, a1, a2
=============================================================================
