------------------------------- MODULE Ledger -------------------------------
(***************************************************************************)
(* What the rollout helper (runbook/provenance.py) promises about the      *)
(* versions of one rollout, with no files, no crashes and no repair: a     *)
(* ledger in which every operation is atomic.  A version is registered     *)
(* once, is undecided until it is kept or reverted, and only a kept or an  *)
(* explicitly restored version is ever endorsed as the head.  The detailed *)
(* module PlainHelper implements this one, crashes and all.                *)
(***************************************************************************)
EXTENDS Integers

CONSTANT Versions          \* the version numbers, a set of naturals with 0

None == -1                 \* no version

VARIABLES
  known,                   \* the versions that have a snapshot
  undecided,               \* the version awaiting its decision, or None
  head,                    \* the version main/ should hold, or None before init
  endorsed                 \* the versions the record may show as baseline or kept

ledger == <<known, undecided, head, endorsed>>

LedgerTypeOK ==
  /\ known \subseteq Versions
  /\ undecided \in Versions \cup {None}
  /\ head \in Versions \cup {None}
  /\ endorsed \subseteq Versions

Init ==
  /\ known = {}
  /\ undecided = None
  /\ head = None
  /\ endorsed = {}

\* The inherited main/ becomes version 0.
Inherit ==
  /\ known = {}
  /\ known' = {0}
  /\ UNCHANGED <<undecided, head, endorsed>>

\* The rollout opens with version 0 as its head.
Open ==
  /\ head = None
  /\ 0 \in known
  /\ head' = 0
  /\ endorsed' = {0}
  /\ UNCHANGED <<known, undecided>>

\* A candidate is registered; there is never a second one.
Register(v) ==
  /\ head # None
  /\ undecided = None
  /\ v \notin known
  /\ known' = known \cup {v}
  /\ undecided' = v
  /\ UNCHANGED <<head, endorsed>>

Keep ==
  /\ undecided # None
  /\ head' = undecided
  /\ endorsed' = endorsed \cup {undecided}
  /\ undecided' = None
  /\ UNCHANGED known

Revert ==
  /\ undecided # None
  /\ undecided' = None
  /\ UNCHANGED <<known, head, endorsed>>

\* A decided version is made the head again; the record then shows it as kept.
Restore(v) ==
  /\ head # None
  /\ undecided = None
  /\ v \in known
  /\ head' = v
  /\ endorsed' = endorsed \cup {v}
  /\ UNCHANGED <<known, undecided>>

Next ==
  \/ Inherit \/ Open \/ Keep \/ Revert
  \/ \E v \in Versions : Register(v) \/ Restore(v)

Spec == Init /\ [][Next]_ledger
=============================================================================
