------------------------------ MODULE RunnerInv -------------------------------
(***************************************************************************)
(* What Runner guarantees, and the inductive invariant it follows from.    *)
(***************************************************************************)
EXTENDS Runner

Coherent(u) == \A f \in UnitFiles(u) : files[u][f] = files[u]["result"]

\* A unit that has all its files is one evaluation's: the receipt and the
\* safety report name the result beside them.  The gate refuses a receipt
\* that names another result, and a complete unit is never measured again,
\* so a mixed one would block its version for good.
CompleteIsCoherent == \A u \in Units : Complete(u) => Coherent(u)

\* No runner is refused for a file that exists: what a stop left of an
\* earlier publication was discarded first (discard_orphans), so a retry
\* fails only if the evaluation does.
RetriesAreNotRefused == \A r \in Run : runner[r].phase # "exists"

\* What a runner that exited 0 published is complete and still there, so no
\* later command discards or replaces a measurement that succeeded.
SuccessIsEvidence ==
  \A r \in Run : runner[r].phase = "ok" =>
    /\ Complete(runner[r].unit)
    /\ files[runner[r].unit]["result"] = r

\* Evidence is written once: no publication replaces a file that exists.
WrittenOnce ==
  [][\A u \in Units, f \in Files :
       files[u][f] # None => files'[u][f] \in {files[u][f], None}]_vars

\* Every command ends: the runners it waits for do.
CommandsEnd == (helper.pc # "idle") ~> (helper.pc = "idle")

\* The evaluation that counts for a unit is the one whose files are all there.
Counted(u) == IF Complete(u) THEN files[u]["result"] ELSE None
counted == [u \in Units |-> Counted(u)]
Abstract == INSTANCE Evidence WITH evidence <- counted

\* Evidence, once complete, is final.
EvidenceIsFinal == Abstract!Spec

-----------------------------------------------------------------------------
TypeOK ==
  /\ files \in [Units -> [Files -> RunOrNone]]
  /\ unmeasurable \in BOOLEAN
  /\ helper \in Helper
  /\ runner \in [Run -> Process]

\* The units a command has prepared, and so may have launched a run for.
Behind(u) ==
  \/ helper.pc \in {"wait", "record"} /\ u \in UnitsOf(helper.cmd)
  \/ helper.cmd = "confirm" /\ helper.unit = "candidate" /\ u = "parent"

\* A process at work is the child the running command launched for its unit.
LiveAreChildren ==
  \A r \in Run : Live(r) => /\ helper.child[runner[r].unit] = r
                            /\ Behind(runner[r].unit)
ChildrenAreTheirUnits ==
  \A u \in Units : helper.child[u] # None => /\ Behind(u)
                                             /\ runner[helper.child[u]].unit = u
                                             /\ runner[helper.child[u]].phase # "unused"

\* Where a command is.
HelperReads ==
  /\ helper.cmd = "none" <=> helper.pc = "idle"
  /\ helper.pc # "idle" => helper.unit \in UnitsOf(helper.cmd)
  /\ helper.pc \in {"look", "record"} => helper.cmd # "confirm"
  /\ helper.pc = "wait" /\ helper.cmd = "confirm" => helper.unit = "candidate"

\* What the preparation of a unit has established.
Preparing ==
  /\ helper.pc = "discard" /\ helper.cmd # "confirm" => ~Complete(helper.unit)
  /\ helper.pc = "unlink" => /\ ~Complete(helper.unit)
                             /\ Present(helper.unit) \subseteq helper.unlinking
                             /\ helper.unlinking \subseteq UnitFiles(helper.unit)
                             /\ helper.unlinking # {}
  /\ helper.pc = "launch" =>
       Present(helper.unit) = {} \/ (helper.cmd = "confirm" /\ Complete(helper.unit))
  /\ helper.pc = "record" => ChildrenEnded

\* What a process at work has published.
Published(r) ==
  LET u == runner[r].unit
      p == runner[r].phase
  IN  /\ p \in {"check", "evaluate", "result"} => Present(u) = {}
      /\ p \in {"digest", "receipt"} => Present(u) = {"result"}
      /\ p = "safety" => Present(u) = {"result", "receipt"} /\ u = "visible"
      /\ p = "exit" => Complete(u)
      /\ p \in {"digest", "receipt", "safety", "exit", "ok"} => files[u]["result"] = r
      /\ p \in {"receipt", "safety"} => runner[r].digest = r

\* The files of a unit are one run's, a run of that unit.
OneRun ==
  \A u \in Units, f \in Files : files[u][f] # None =>
    /\ f \in UnitFiles(u)
    /\ runner[files[u][f]].unit = u
    /\ runner[files[u][f]].phase # "unused"
    /\ \A g \in Files : files[u][g] \in {files[u][f], None}

IInv ==
  /\ TypeOK
  /\ LiveAreChildren
  /\ ChildrenAreTheirUnits
  /\ HelperReads
  /\ Preparing
  /\ \A r \in Run : Published(r)
  /\ OneRun
  /\ SuccessIsEvidence
  /\ RetriesAreNotRefused
=============================================================================
