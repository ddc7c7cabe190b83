-------------------------------- MODULE MCGate --------------------------------
(***************************************************************************)
(* Gate on small instances: an inherited version and one candidate, or two *)
(* of which the second is screened against either version before it.       *)
(***************************************************************************)
EXTENDS GateInv, TLC

CONSTANTS v0, v1, v2

OneCandidate == {v0, v1}
OnePair == {<<v1, v0>>}
TwoCandidates == {v0, v1, v2}
TwoPairs == {<<v1, v0>>, <<v2, v0>>}
StackedPairs == {<<v1, v0>>, <<v2, v1>>}
MCSeed == 1 .. 4
MCVisibleSeeds == {1}

\* Every stream meets the visible seed first, repeats one; the streams of
\* different looks overlap, so that freshness is the exclusion's doing.
MCStream == [key \in Tree \X (1 .. (MaxLines + 1)) |-> IF key[2] % 2 = 1 THEN <<1, 0, 2, 3, 4>> ELSE <<1, 2, 2, 4, 3>>]

\* Invocations and trees are compared for equality only.
Symmetry == Permutations(Proc) \cup Permutations(Tree)
=============================================================================
