--------------------------- MODULE MCPhaseController ---------------------------
(***************************************************************************)
(* Three roles, and a window in which the time may run out at any step.    *)
(***************************************************************************)
EXTENDS PhaseController
=============================================================================
