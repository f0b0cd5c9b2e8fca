------------------------------ MODULE OneShotPhase ------------------------------
(***************************************************************************)
(* What a phase of three roles promises: every role is sent once at most,  *)
(* in order, and only after the one before it was accepted; whatever ends  *)
(* the phase ends it for good.                                             *)
(***************************************************************************)
EXTENDS Naturals, Sequences

CONSTANT N   \* the number of roles

VARIABLES
  sent,       \* the roles sent, in their order
  accepted,   \* the roles accepted
  over        \* nothing will be sent or accepted any more

phaseVars == <<sent, accepted, over>>

PhaseInit ==
  /\ sent = <<>>
  /\ accepted = {}
  /\ over = FALSE

SendRole ==
  /\ ~over
  /\ Len(sent) < N
  /\ accepted = 1 .. Len(sent)
  /\ sent' = Append(sent, Len(sent) + 1)
  /\ UNCHANGED <<accepted, over>>

AcceptRole ==
  /\ ~over
  /\ sent # <<>>
  /\ accepted = 1 .. Len(sent) - 1
  /\ accepted' = 1 .. Len(sent)
  /\ UNCHANGED <<sent, over>>

EndPhase ==
  /\ ~over
  /\ over' = TRUE
  /\ UNCHANGED <<sent, accepted>>

PhaseNext == SendRole \/ AcceptRole \/ EndPhase

PhaseSpec == PhaseInit /\ [][PhaseNext]_phaseVars
=============================================================================
