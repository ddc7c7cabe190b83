-------------------------------- MODULE Runner --------------------------------
(***************************************************************************)
(* How evidence is made: the gate's runner (src/gate/evaluate_suite.py),   *)
(* a process that evaluates one policy and publishes its result, a receipt *)
(* and, for a visible measurement, a safety report; and the commands of    *)
(* the helper that launch it and wait for it (src/runbook/provenance.py:   *)
(* measure_if_needed, ensure_parent_measured, the two parallel runs of     *)
(* finish_confirmation) after discarding what an earlier runner left.      *)
(*                                                                         *)
(* The files of one unit of evidence are published one at a time, each     *)
(* renamed into place; a runner looks for existing ones only before it     *)
(* evaluates.  A file is known by the run whose result it holds or names:  *)
(* two evaluations differ in their CPU seconds, so in their digests.       *)
(*                                                                         *)
(* One unit of each kind is modelled, that of one version and of its one   *)
(* confirmation: units share no file.  The rollout lock admits one command *)
(* at a time and falls with its process.                                   *)
(***************************************************************************)
CONSTANTS
  Run,                \* bound: the runner processes ever started
  None,               \* no file, no process
  Used,               \* bound: the commands issued
  Faults,             \* bound: which of "disk", "runner", "helper" may fail
  OrphansSurvive      \* may a runner outlive the helper that launched it?

Commands == {"measure", "head", "confirm"}

ASSUME RunnerAssumption ==
  /\ None \notin Run
  /\ Used \subseteq Commands
  /\ Faults \subseteq {"disk", "runner", "helper"}
  /\ OrphansSurvive \in BOOLEAN

Units == {"visible", "parent", "candidate"}
Files == {"result", "receipt", "safety"}
\* Only the visible measurement asks for a safety report.
UnitFiles(u) == IF u = "visible" THEN Files ELSE {"result", "receipt"}

VARIABLES
  files,              \* results/: the files of each unit
  unmeasurable,       \* is the version recorded as one the runner refused?
  helper,             \* the running command
  runner              \* the runner processes

vars == <<files, unmeasurable, helper, runner>>

RunOrNone == Run \cup {None}

\* unit is the one being prepared, unlinking the files still to be removed
\* from it, child the processes launched for this command.
Helper == [pc : {"idle", "look", "discard", "unlink", "launch", "wait", "record"},
           cmd : Commands \cup {"none"}, unit : Units,
           unlinking : SUBSET Files, child : [Units -> RunOrNone]]
NoHelper == [pc |-> "idle", cmd |-> "none", unit |-> "visible",
             unlinking |-> {}, child |-> [u \in Units |-> None]]

\* A process works through these phases, named for what it does next, and
\* ends in one of Ended: exit 0, exit 2 for an existing file, another
\* exit code, or a signal.  digest is the result_sha256 it has computed.
Working == {"check", "evaluate", "result", "digest", "receipt", "safety", "exit"}
Ended == {"ok", "exists", "failed", "killed"}
Process == [phase : Working \cup Ended \cup {"unused"}, unit : Units, digest : RunOrNone]

Init ==
  /\ files = [u \in Units |-> [f \in Files |-> None]]
  /\ unmeasurable = FALSE
  /\ helper = NoHelper
  /\ runner = [r \in Run |-> [phase |-> "unused", unit |-> "visible", digest |-> None]]

Present(u) == {f \in UnitFiles(u) : files[u][f] # None}
Complete(u) == Present(u) = UnitFiles(u)
Live(r) == runner[r].phase \in Working
Unused == {r \in Run : runner[r].phase = "unused"}

-----------------------------------------------------------------------------
(* The helper.                                                             *)

UnitsOf(cmd) == IF cmd = "confirm" THEN {"parent", "candidate"} ELSE {"visible"}

Goto(label) == helper' = [helper EXCEPT !.pc = label]
End == helper' = NoHelper

\* A measurement looks whether there is one already; a confirmation goes to
\* its units at once.  (Bound: there are processes left for what it needs.)
Start(cmd) ==
  /\ helper.pc = "idle"
  /\ \E r, s \in Unused : r # s \/ cmd # "confirm" \/ Complete("parent") \/ Complete("candidate")
  /\ helper' = [NoHelper EXCEPT
                  !.pc = IF cmd = "confirm" THEN "discard" ELSE "look",
                  !.cmd = cmd,
                  !.unit = IF cmd = "confirm" THEN "parent" ELSE "visible"]
  /\ UNCHANGED <<files, unmeasurable, runner>>

\* A version recorded as unmeasurable is not tried again, except as the head.
Look ==
  /\ helper.pc = "look"
  /\ IF Complete("visible") \/ (helper.cmd = "measure" /\ unmeasurable)
     THEN End ELSE Goto("discard")
  /\ UNCHANGED <<files, unmeasurable, runner>>

\* discard_orphans: the files a stop left are listed once ...
\* Mutants: whatever is present is discarded; only a lone result is.
Leftover_Any(u) == Present(u)
Leftover_Result(u) == IF Complete(u) THEN {} ELSE Present(u) \cap {"result"}
Leftover(u) == IF Complete(u) THEN {} ELSE Present(u)

Discard ==
  /\ helper.pc = "discard"
  /\ helper' = [helper EXCEPT
                  !.unlinking = Leftover(helper.unit),
                  !.pc = IF Leftover(helper.unit) = {} THEN "launch" ELSE "unlink"]
  /\ UNCHANGED <<files, unmeasurable, runner>>

\* ... and removed one by one, the result first and the safety report last.
Unlink(f) ==
  /\ helper.pc = "unlink"
  /\ f \in helper.unlinking
  /\ f = "receipt" => "result" \notin helper.unlinking
  /\ f = "safety" => helper.unlinking = {"safety"}
  /\ files' = [files EXCEPT ![helper.unit][f] = None]
  /\ helper' = [helper EXCEPT
                  !.unlinking = @ \ {f},
                  !.pc = IF helper.unlinking = {f} THEN "launch" ELSE "unlink"]
  /\ UNCHANGED <<unmeasurable, runner>>

\* The candidate's run is launched after the parent's, then both are awaited.
Prepared(child) ==
  helper' = [helper EXCEPT !.child = child,
                           !.unit = IF @ = "parent" THEN "candidate" ELSE @,
                           !.pc = IF helper.unit = "parent" THEN "discard" ELSE "wait"]

Launch(r) ==
  /\ helper.pc = "launch"
  /\ helper.cmd = "confirm" => ~Complete(helper.unit)
  /\ r \in Unused
  /\ runner' = [runner EXCEPT ![r] = [phase |-> "check", unit |-> helper.unit, digest |-> None]]
  /\ Prepared([helper.child EXCEPT ![helper.unit] = r])
  /\ UNCHANGED <<files, unmeasurable>>

\* A result a confirmation already has is not measured again.
SkipLaunch ==
  /\ helper.pc = "launch"
  /\ helper.cmd = "confirm"
  /\ Complete(helper.unit)
  /\ Prepared(helper.child)
  /\ UNCHANGED <<files, unmeasurable, runner>>

Children == {helper.child[u] : u \in Units} \ {None}
\* Mutants: only the last run launched is awaited; a killed one is awaited for ever.
ChildrenEnded_Last == \A r \in Children : runner[r].unit = "parent" \/ runner[r].phase \in Ended
ChildrenEnded_Killed == \A r \in Children : runner[r].phase \in Ended \ {"killed"}
ChildrenEnded == \A r \in Children : runner[r].phase \in Ended

\* A failure of a measurement is recorded; that of a confirmation leaves it
\* open, to be retried, and that of the head refuses the command.
Wait ==
  /\ helper.pc = "wait"
  /\ ChildrenEnded
  /\ IF helper.cmd = "measure" /\ \E r \in Children : runner[r].phase # "ok"
     THEN Goto("record") ELSE End
  /\ UNCHANGED <<files, unmeasurable, runner>>

Record ==
  /\ helper.pc = "record"
  /\ unmeasurable' = TRUE
  /\ End
  /\ UNCHANGED <<files, runner>>

-----------------------------------------------------------------------------
(* The runner.                                                             *)

Phase(r, from, to) ==
  /\ runner[r].phase = from
  /\ runner' = [runner EXCEPT ![r].phase = to]

\* Evidence is written once: an existing file refuses the run (exit 2).
Check(r) ==
  /\ Phase(r, "check", "evaluate")
  /\ Present(runner[r].unit) = {}
  /\ UNCHANGED <<files, unmeasurable, helper>>

Refuse(r) ==
  /\ Phase(r, "check", "exists")
  /\ Present(runner[r].unit) # {}
  /\ UNCHANGED <<files, unmeasurable, helper>>

\* The child interpreter plays the suite and its games are found valid.
Evaluate(r) ==
  /\ Phase(r, "evaluate", "result")
  /\ UNCHANGED <<files, unmeasurable, helper>>

\* publish: a temporary file is renamed into place, over whatever is there.
PublishResult(r) ==
  /\ Phase(r, "result", "digest")
  /\ files' = [files EXCEPT ![runner[r].unit]["result"] = r]
  /\ UNCHANGED <<unmeasurable, helper>>

\* The receipt names the result as it is on the disk.
ReadDigest(r) ==
  /\ runner[r].phase = "digest"
  /\ files[runner[r].unit]["result"] # None
  /\ runner' = [runner EXCEPT ![r] = [phase |-> "receipt", unit |-> @.unit,
                                      digest |-> files[@.unit]["result"]]]
  /\ UNCHANGED <<files, unmeasurable, helper>>

ResultVanished(r) ==
  /\ Phase(r, "digest", "failed")
  /\ files[runner[r].unit]["result"] = None
  /\ UNCHANGED <<files, unmeasurable, helper>>

PublishReceipt(r) ==
  /\ Phase(r, "receipt", IF runner[r].unit = "visible" THEN "safety" ELSE "exit")
  /\ files' = [files EXCEPT ![runner[r].unit]["receipt"] = runner[r].digest]
  /\ UNCHANGED <<unmeasurable, helper>>

PublishSafety(r) ==
  /\ Phase(r, "safety", "exit")
  /\ files' = [files EXCEPT ![runner[r].unit]["safety"] = runner[r].digest]
  /\ UNCHANGED <<unmeasurable, helper>>

Exit(r) ==
  /\ Phase(r, "exit", "ok")
  /\ UNCHANGED <<files, unmeasurable, helper>>

\* Exits 1, 2, 4, 5 and 6: an input or the evaluation is bad, or the limit is
\* reached; and the traceback (exit 1) of a disk that fails a publication.
Fail(r) ==
  /\ \/ runner[r].phase \in {"check", "evaluate"}
     \/ "disk" \in Faults /\ runner[r].phase \in {"result", "digest", "receipt", "safety"}
  /\ runner' = [runner EXCEPT ![r].phase = "failed"]
  /\ UNCHANGED <<files, unmeasurable, helper>>

-----------------------------------------------------------------------------
(* Kills.                                                                  *)

KillRunner(r) ==
  /\ "runner" \in Faults
  /\ Live(r)
  /\ runner' = [runner EXCEPT ![r].phase = "killed"]
  /\ UNCHANGED <<files, unmeasurable, helper>>

\* The helper is killed, with its runners or without some of them.
KillHelper(surviving) ==
  /\ "helper" \in Faults
  /\ helper.pc # "idle"
  /\ ~OrphansSurvive => surviving = {}
  /\ End
  /\ runner' = [r \in Run |-> IF Live(r) /\ r \notin surviving
                              THEN [runner[r] EXCEPT !.phase = "killed"] ELSE runner[r]]
  /\ UNCHANGED <<files, unmeasurable>>

HelperStep ==
  \/ Look \/ Discard \/ SkipLaunch \/ Wait \/ Record
  \/ \E f \in Files : Unlink(f)
  \/ \E r \in Run : Launch(r)

RunnerStep(r) ==
  \/ Check(r) \/ Refuse(r) \/ Evaluate(r) \/ PublishResult(r)
  \/ ReadDigest(r) \/ ResultVanished(r) \/ PublishReceipt(r)
  \/ PublishSafety(r) \/ Exit(r)

Next ==
  \/ \E cmd \in Used : Start(cmd)
  \/ HelperStep
  \/ \E r \in Run : RunnerStep(r) \/ Fail(r) \/ KillRunner(r)
  \/ \E surviving \in SUBSET {r \in Run : Live(r)} : KillHelper(surviving)

Spec == Init /\ [][Next]_vars

\* A process that can go on does: the evaluation has a wall-clock limit.
Fairness == WF_vars(HelperStep) /\ \A r \in Run : WF_vars(RunnerStep(r))

FairSpec == Spec /\ Fairness
=============================================================================
