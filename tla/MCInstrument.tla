----------------------------- MODULE MCInstrument -----------------------------
(***************************************************************************)
(* Instrument on small instances: the inherited version and one or two     *)
(* candidates.                                                             *)
(***************************************************************************)
EXTENDS InstrumentInv, TLC

\* The trees are compared for equality only.
Symmetry == Permutations(Tree)
=============================================================================
