------------------------------- MODULE MCRunner -------------------------------
(***************************************************************************)
(* Runner with a few processes: three let an orphan meet the run that      *)
(* replaces it, four let a confirmation be retried whole.                  *)
(***************************************************************************)
EXTENDS RunnerInv, TLC

Symmetry == Permutations(Run)
=============================================================================
