---------------------------- MODULE MCAttemptJournal ----------------------------
(***************************************************************************)
(* Up to three rows of two events: an interrupted append, another one after *)
(* it, and what fails, changes or stops around them.                       *)
(***************************************************************************)
EXTENDS AttemptJournal

CONSTANTS e1, e2
=============================================================================
