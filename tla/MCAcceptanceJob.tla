--------------------------- MODULE MCAcceptanceJob ---------------------------
(***************************************************************************)
(* Two helpers and two cases.  The helpers are alike.                      *)
(***************************************************************************)
EXTENDS AcceptanceJob, TLC
CONSTANTS h1, h2
MCHelper == {h1, h2}
MCSymmetry == Permutations(MCHelper)
=============================================================================
