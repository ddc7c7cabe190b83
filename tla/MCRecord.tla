------------------------------ MODULE MCRecord ------------------------------
(***************************************************************************)
(* Record on small instances.  The interval is the estimate give or take   *)
(* one and the minimum effect is one: of the differences of scores 0 and   *)
(* 3, three clears, zero is inconclusive and minus three is below.         *)
(***************************************************************************)
EXTENDS RecordInv, TLC

\* One alteration of a rollout of up to three snapshots, two of the inherited
\* version alone; none of a rollout of three without a profile, whose lines
\* carry fewer fields.
MCBudget == [gated |-> <<2, 1, 1>>, replay |-> <<2, 1, 0>>, none |-> <<2, 1, 1>>]

\* Policies within the cap are compared for equality only.
Symmetry == Permutations(Policy \ Oversized)
=============================================================================
