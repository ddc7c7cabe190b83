--------------------------- MODULE DecisionRegister ---------------------------
(***************************************************************************)
(* What the decision log promises: a register in which at most one gated   *)
(* decision is open, a confirmation opens on seeds no one has played, and  *)
(* a version is accepted only by closing the decision that was opened for  *)
(* it.  Every operation is atomic.                                         *)
(***************************************************************************)
CONSTANTS Version, Seed, VisibleSeeds

VARIABLES
  open,        \* the version whose confirmation is open, in a set of at most one
  spent,       \* the seeds played, or drawn to be played
  accepted     \* the versions the gate kept

vars == <<open, spent, accepted>>

Init ==
  /\ open = {}
  /\ spent = VisibleSeeds
  /\ accepted = {}

\* A confirmation opens on a suite of fresh seeds.
Open ==
  /\ open = {}
  /\ \E v \in Version, suite \in (SUBSET (Seed \ spent)) \ {{}} :
       /\ open' = {v}
       /\ spent' = spent \cup suite
  /\ UNCHANGED accepted

Keep ==
  /\ \E v \in open : accepted' = accepted \cup {v}
  /\ open' = {}
  /\ UNCHANGED spent

Revert ==
  /\ open # {}
  /\ open' = {}
  /\ UNCHANGED <<spent, accepted>>

Next == Open \/ Keep \/ Revert

Spec == Init /\ [][Next]_vars
=============================================================================
