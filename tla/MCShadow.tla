------------------------------ MODULE MCShadow ------------------------------
(***************************************************************************)
(* Shadow on small instances: rollouts of up to four versions that the     *)
(* producer records and the verifier accepts.                              *)
(***************************************************************************)
EXTENDS ShadowInv

CONSTANTS pA, pB

\* Three candidates in a chain, and three of one parent.
Chain == <<0, 1, 2>>
Fan == <<0, 0, 0>>
Outcomes == <<"kept", "reverted", "kept">>

\* v1 .. v3 with the parents given, the tree of v0 (None if only declared) and
\* that of v2; the third candidate is handed in.
Rollout(parents, first, second) ==
  LET trees == [v \in Version |-> CASE v = 0 -> first [] v = 1 -> Clean(pB) [] v = 2 -> second [] OTHER -> Clean(pA)]
      block(v) == [version |-> v, parent |-> IF v = 0 THEN None ELSE parents[v],
                   status |-> IF v = 0 THEN "baseline" ELSE Outcomes[v], closing |-> "none", score |-> None]
  IN  [versions |-> trees, stray |-> FALSE, log |-> [i \in 1 .. 4 |-> block(i - 1)], decisions |-> None,
       results |-> [p \in Places |-> None], main |-> trees[3], reward |-> "low"]

WithNotes(tree) == [tree EXCEPT !.notes = TRUE]

MCStarter == Clean(pA)
MCJobs ==
  {Rollout(Fan, Clean(pA), Clean(pB)), Rollout(Chain, Clean(pA), WithNotes(Clean(pB))),
   Rollout(Chain, None, Clean(pB))}
=============================================================================
