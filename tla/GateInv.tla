------------------------------- MODULE GateInv -------------------------------
(***************************************************************************)
(* The inductive invariant of Gate.  What an invocation knows of the log   *)
(* when it builds its line must still be true when it appends it: that is  *)
(* what the lock is for.                                                   *)
(***************************************************************************)
EXTENDS Gate

Writing(p) == pc[p] \in {"suite", "append"}

\* Between the read of the log and the end of the process, the invocation
\* holds the lock and the log is the one it read.
LockInv ==
  \A p \in Proc :
    /\ pc[p] # "idle" => arg[p] \in Argument
    /\ pc[p] \in {"read", "build", "suite", "append"} => lock = {p}
    /\ pc[p] \in {"build", "suite", "append"} => seen[p] = Len(log)
    /\ Writing(p) => line[p] \in Line

\* A line may become line n + 1 of the log.
Openable(l, n) ==
  l.disposition = "provisional" =>
    /\ ~l.replicates
    /\ OpenLines(n) = {}
    /\ l.suite \cap Excluded(n) = {}
    /\ l.mode = Gated => l.suite # {} /\ l.look = NextLook(n)
Resolving(l, n) ==
  l.replicates =>
    \E k \in OpenLines(n) : log[k].version = l.version /\ log[k].suite = l.suite
Screening(l) ==
  /\ l.mode = Gated /\ l.disposition = "keep" => l.replicates
  /\ l.suite # {} => l.mode = Gated /\ (l.replicates \/ l.disposition = "provisional")
Fits(l, n) ==
  /\ l.number = n + 1
  /\ Openable(l, n)
  /\ Resolving(l, n)
  /\ Screening(l)
  /\ \A i \in 1 .. n : log[i].mode = l.mode

\* Every line fitted the lines before it, and the ones being written will.
LogInv == \A i \in 1 .. Len(log) : Fits(log[i], i - 1)
LineInv == \A p \in Proc : Writing(p) => Fits(line[p], Len(log))

\* What the code knows, and readers of the log rely on.
TransactionInv == LockInv /\ LogInv /\ LineInv

\* A gated keep, as line n + 1, resolves what was frozen with an open line and
\* was played on its suite.
Confirmed(l, n) ==
  l.disposition = "keep" /\ l.mode = Gated =>
    /\ \E i \in OpenLines(n) :
         \A f \in {"version", "parent", "tree", "parentTree", "suite", "look"} : log[i][f] = l[f]
    /\ played[l.version] =
         [r \in Roles |-> [suite |-> l.suite, tree |-> IF r = "parent" THEN l.parentTree ELSE l.tree]]

\* The suite of a line is on disk once it is to be appended.
OnDisk(l) == l.suite # {} => suites[l.version] = l.suite

KeepsInv ==
  /\ \A i \in 1 .. Len(log) : Confirmed(log[i], i - 1)
  /\ \A p \in Proc : Writing(p) => Confirmed(line[p], Len(log))
SuitesInv ==
  ~DiskMayFail =>
    /\ \A i \in 1 .. Len(log) : OnDisk(log[i])
    /\ \A p \in Proc : /\ Writing(p) => line[p].version = arg[p].version
                       /\ pc[p] = "append" => OnDisk(line[p])

IInv == TransactionInv /\ KeepsInv /\ SuitesInv
=============================================================================
