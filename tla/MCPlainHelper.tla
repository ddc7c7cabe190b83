---------------------------- MODULE MCPlainHelper ----------------------------
(***************************************************************************)
(* PlainHelper, its inductive invariant included, on small instances: two  *)
(* or three method trees and one or two candidates after the inherited v0. *)
(***************************************************************************)
EXTENDS PlainHelperInv, TLC

\* The trees are compared for equality only.
Symmetry == Permutations(Tree)
=============================================================================
