------------------------------- MODULE Evidence -------------------------------
(***************************************************************************)
(* What the measurement of a policy promises: for each unit of evidence    *)
(* (the visible result of a version, the two results of a confirmation) at *)
(* most one evaluation ever counts.  Once its result is evidence, it stays *)
(* the evidence; and no evaluation is the evidence of two units.           *)
(***************************************************************************)
CONSTANTS
  Units,              \* what is to be measured
  Run,                \* the evaluations
  None                \* not measured

VARIABLE evidence     \* the evaluation that counts for each unit

Init == evidence = [u \in Units |-> None]

Count(u, r) ==
  /\ evidence[u] = None
  /\ \A w \in Units : evidence[w] # r
  /\ evidence' = [evidence EXCEPT ![u] = r]

Next == \E u \in Units, r \in Run : Count(u, r)

Spec == Init /\ [][Next]_evidence
=============================================================================
