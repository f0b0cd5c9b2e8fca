----------------------------- MODULE ExclusiveFiles -----------------------------
(***************************************************************************)
(* Evidence files and directories: _persist() of                           *)
(* register_acceptance_job_e98.py, _write_record() of                      *)
(* run_acceptance_job_e98.py, _publish() and _mkdir() of                   *)
(* prospective_acceptance_materializer_v1.py.  A name is created           *)
(* exclusively and never written again.  The content is fsynced, then the  *)
(* directory, then it is read back: until then the file is torn.           *)
(***************************************************************************)
EXTENDS Naturals, FiniteSets

VARIABLES
  torn,    \* files whose content or name may not be on stable storage
  stable   \* files that are whole and on stable storage

Exists(f) == f \in torn \cup stable

\* A mutant of Create: without O_EXCL.
Overwrite(f) == stable' = stable \cup {f} /\ torn' = torn \ {f}

Create(f) == ~Exists(f) /\ stable' = stable \cup {f} /\ UNCHANGED torn

\* It raised, or the process died: the file may be missing, torn, or whole.
Breaks(f) ==
  \/ UNCHANGED <<torn, stable>>
  \/ ~Exists(f) /\ torn' = torn \cup {f} /\ UNCHANGED stable
  \/ Create(f)

\* The host loses power.
LosePower == torn' \in SUBSET torn /\ UNCHANGED stable
=============================================================================
