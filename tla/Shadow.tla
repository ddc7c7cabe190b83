------------------------------- MODULE Shadow -------------------------------
(***************************************************************************)
(* A shadow audit (src/gate/shadow_replay.py): the gate is run, on the     *)
(* host, over every candidate-parent pair that a verified record names,    *)
(* one after the other, and a report is kept of what it would have done.   *)
(* The pairs share the work directory: snapshots are staged once, measured *)
(* once per suite, and decided on one log.                                 *)
(*                                                                         *)
(* The gate is one step here, with the outcomes that Gate allows it; an    *)
(* evaluation is one step with the outcomes that Runner allows it.         *)
(***************************************************************************)
EXTENDS Capsule

CONSTANTS
  Jobs,           \* the job directories to audit
  Starter,        \* the task's own starter policy, a tree, or None
  Projection,     \* --allow-projection
  JobMayChange,   \* whether its snapshots may be edited during the audit
  GateMayFail,    \* whether a gate call may fail for its own reasons
  MayBeKilled

ASSUME ShadowAssumption == {JobMayChange, GateMayFail, MayBeKilled, Projection} \subseteq BOOLEAN

VARIABLES
  job, record,
  pairs,          \* what the record supports, in the order of its versions
  at,             \* the pair being audited
  pc,             \* the next step of the audit
  staged,         \* the work directory's snapshots
  main,           \* its main/
  results,        \* per unit: "none", "partial" (no receipt), "complete"
  failed,         \* the <<version, suite>> the runner gave up on
  log,            \* its decision log
  gate,           \* the row being filled
  report,         \* the report on disk
  finished        \* the evaluations that ended with a result or a failure, counted

vars == <<job, record, pairs, at, pc, staged, main, results, failed, log, gate, report, finished>>
workdir == <<staged, main, results, failed, log>>

Units == Version \X {"visible", "parent", "candidate"}
\* A suite is named by the candidate it confirms; None is the visible one.
Keys == Version \X (Version \cup {None})
EmptyGate == [outcome |-> "none", disposition |-> "none", screening |-> "none",
              failed |-> FALSE, refusal |-> "none"]

Init ==
  /\ job \in Jobs
  /\ record = Produced(job)
  /\ pairs = <<>> /\ at = 0 /\ pc = "verify"
  /\ staged = [v \in Version |-> None] /\ main = None
  /\ results = [u \in Units |-> "none"] /\ failed = {} /\ log = <<>>
  /\ gate = EmptyGate
  /\ report = [complete |-> FALSE, rows |-> <<>>]
  /\ finished = [k \in Keys |-> 0]

-----------------------------------------------------------------------------
(* Pairs: get_pairs_from_capsule.                                          *)

HasStarter == Starter # None /\ Starter.python # NoPolicy
IsSnapshotPair(r, v) == r.versions[v].parents # {}
IsStarterPair(r, v) == r.versions[v].parents = {} /\ r.versions[v].unsnapshotted = {0} /\ HasStarter
PairOf(r, v) ==
  [candidate |-> v, status |-> r.versions[v].status,
   parent |-> IF IsSnapshotPair(r, v) THEN CHOOSE p \in r.versions[v].parents : TRUE ELSE 0,
   starter |-> IsStarterPair(r, v)]
PairsOf(r) ==
  LET paired == {v \in RecordedVersions(r) : IsSnapshotPair(r, v) \/ IsStarterPair(r, v)}
      sorted == InOrder(paired, [v \in paired |-> r.versions[v].ordinal])
  IN  [k \in DOMAIN sorted |-> PairOf(r, sorted[k])]

Pair == pairs[at]

\* The record is verified against the job directory before anything else.
VerifyRecord ==
  /\ pc = "verify"
  /\ IF Errors(record, job) = {}
     THEN /\ pairs' = PairsOf(record)
          /\ at' = 1 /\ pc' = "next"
     ELSE pc' = "refused" /\ UNCHANGED <<pairs, at>>
  /\ UNCHANGED <<job, record, workdir, gate, report, finished>>

NextPair ==
  /\ pc = "next" /\ at \in DOMAIN pairs
  /\ gate' = EmptyGate
  /\ pc' = "stage_parent"
  /\ UNCHANGED <<job, record, pairs, at, workdir, report, finished>>

-----------------------------------------------------------------------------
(* The rows of the report.                                                 *)

\* agree compares the gate's disposition with what the record says was done.
Agree(status, disposition) ==
  IF status \in {"kept", "submitted"} THEN disposition = "keep" ELSE disposition = "revert"
Comparable(status, disposition) == status \in {"kept", "submitted", "reverted"} /\ disposition # "none"

Row(g) ==
  [candidate |-> Pair.candidate, outcome |-> g.outcome, disposition |-> g.disposition,
   screening |-> g.screening, refusal |-> g.refusal,
   agree |-> IF Comparable(Pair.status, g.disposition)
             THEN IF Agree(Pair.status, g.disposition) THEN "agree" ELSE "disagree"
             ELSE "none"]

\* The pair is over: its row is in the report on disk, and the next one is due.
EndPair(g) ==
  /\ gate' = g
  /\ report' = [report EXCEPT !.rows = Append(@, Row(g))]
  /\ at' = at + 1
  /\ pc' = "next"

Proceed(label) == pc' = label /\ UNCHANGED <<at, report>>

\* A failure that is not the gate's answer keeps what was completed.
Fails(outcome) == EndPair([gate EXCEPT !.outcome = outcome, !.disposition = "none"])
Refused(reason) == EndPair([gate EXCEPT !.outcome = "gate_refused", !.disposition = "none", !.refusal = reason])

-----------------------------------------------------------------------------
(* Staging: stage_pair and stage_projection, then restore.                 *)

SourceOf(v) == IF Pair.starter /\ v = Pair.parent THEN Starter ELSE job.versions[v]

\* Mutant: a staged snapshot is not compared with the record.
AsRecorded_Unchecked(v, tree) == TRUE
AsRecorded(v, tree) == v \in RecordedVersions(record) => Staged(tree).python = record.versions[v].method

Stage(v, from, next) ==
  /\ pc = from
  /\ \/ /\ staged[v] # None
        /\ Proceed(next) /\ UNCHANGED <<staged, gate>>
     \/ /\ staged[v] = None /\ SourceOf(v) # None
        /\ Replayable(SourceOf(v), Projection) /\ AsRecorded(v, SourceOf(v))
        /\ staged' = [staged EXCEPT ![v] = SourceOf(v).python]
        /\ Proceed(next) /\ UNCHANGED gate
     \/ /\ staged[v] = None
        /\ SourceOf(v) = None \/ ~Replayable(SourceOf(v), Projection) \/ ~AsRecorded(v, SourceOf(v))
        /\ EndPair([EmptyGate EXCEPT !.outcome = "not_replayable"])
        /\ UNCHANGED staged
  /\ UNCHANGED <<job, record, pairs, main, results, failed, log, finished>>

StageParent == Stage(Pair.parent, "stage_parent", "stage_candidate")
StageCandidate == Stage(Pair.candidate, "stage_candidate", "restore")

Restore ==
  /\ pc = "restore"
  /\ main' = staged[Pair.candidate]
  /\ Proceed("visible_parent")
  /\ UNCHANGED <<job, record, pairs, staged, results, failed, log, gate, finished>>

-----------------------------------------------------------------------------
(* Evaluations: evaluate.                                                  *)

\* Mutant: a failure is forgotten when its pair is over.
Known_Results(v, suite, unit) == results[unit] = "complete"
\* What needs no runner: a failure is remembered, evidence is not measured again.
Known(v, suite, unit) == <<v, suite>> \in failed \/ results[unit] = "complete"

\* v on a suite.
Evaluate(v, suite, unit, from, next) ==
  /\ pc = from
  /\ \/ /\ Known(v, suite, unit)
        /\ gate' = [gate EXCEPT !.failed = @ \/ <<v, suite>> \in failed]
        /\ Proceed(next) /\ UNCHANGED <<results, failed, finished>>
     \/ /\ ~Known(v, suite, unit) /\ results[unit] = "none"      \* the runner succeeds
        /\ results' = [results EXCEPT ![unit] = "complete"]
        /\ finished' = [finished EXCEPT ![<<v, suite>>] = @ + 1]
        /\ Proceed(next) /\ UNCHANGED <<gate, failed>>
     \/ /\ ~Known(v, suite, unit) /\ results[unit] = "none"      \* CPU, invalid game, wall clock
        /\ failed' = failed \cup {<<v, suite>>}
        /\ finished' = [finished EXCEPT ![<<v, suite>>] = @ + 1]
        /\ gate' = [gate EXCEPT !.failed = TRUE]
        /\ Proceed(next) /\ UNCHANGED results
     \/ /\ ~Known(v, suite, unit)                                \* any other exit
        /\ \E left \in (IF results[unit] = "none" THEN {"none", "partial", "complete"} ELSE {"partial"}) :
             results' = [results EXCEPT ![unit] = left]
        /\ Fails("infrastructure_failed") /\ UNCHANGED <<failed, finished>>
  /\ UNCHANGED <<job, record, pairs, staged, main, log>>

VisibleParent == Evaluate(Pair.parent, None, <<Pair.parent, "visible">>, "visible_parent", "visible_candidate")
VisibleCandidate == Evaluate(Pair.candidate, None, <<Pair.candidate, "visible">>, "visible_candidate", "screen")
SuiteParent == Evaluate(Pair.parent, Pair.candidate, <<Pair.candidate, "parent">>, "suite_parent", "suite_candidate")
SuiteCandidate == Evaluate(Pair.candidate, Pair.candidate, <<Pair.candidate, "candidate">>, "suite_candidate", "confirm")

\* Both evaluations of a stage are made before a failure of either ends it.
EvaluationFailed ==
  /\ pc \in {"screen", "confirm"} /\ gate.failed
  /\ Fails("evaluation_failed")
  /\ UNCHANGED <<job, record, pairs, workdir, finished>>

-----------------------------------------------------------------------------
(* The gate's answers: audit_pair, decide.                                 *)

OpenVersions ==
  {log[i].version : i \in {i \in DOMAIN log : /\ log[i].disposition = "provisional"
                                             /\ \A k \in (i + 1) .. Len(log) : log[k].version # log[i].version}}
LogLine(disposition) == log' = Append(log, [version |-> Pair.candidate, disposition |-> disposition])

Screen ==
  /\ pc = "screen" /\ ~gate.failed
  /\ \/ \E outcome \in {"screening_below", "exploratory"} :      \* the screening reverts
          /\ Pair.parent \notin OpenVersions
          /\ outcome = "exploratory" => OpenVersions = {}
          /\ LogLine("revert")
          /\ EndPair([gate EXCEPT !.outcome = outcome, !.disposition = "revert", !.screening = "revert"])
     \/ /\ OpenVersions = {}                                     \* it opens a confirmation
        /\ LogLine("provisional")
        /\ gate' = [gate EXCEPT !.screening = "provisional"]
        /\ Proceed("suite_parent")
     \/ /\ OpenVersions # {}                                     \* another decision is open
        /\ Refused("open") /\ UNCHANGED log
     \/ /\ GateMayFail
        /\ Refused("failure") /\ UNCHANGED log
  /\ UNCHANGED <<job, record, pairs, staged, main, results, failed, finished>>

\* Mutant: the row keeps the screening's disposition.
Confirmed_Screened(disposition) == "revert"
Confirmed(disposition) == disposition

Confirm ==
  /\ pc = "confirm" /\ ~gate.failed
  /\ \/ \E disposition \in {"keep", "revert"} :
          /\ LogLine(disposition)
          /\ EndPair([gate EXCEPT !.outcome = IF disposition = "keep" THEN "confirmed_keep" ELSE "confirmed_revert",
                                  !.disposition = Confirmed(disposition)])
     \/ /\ GateMayFail
        /\ Refused("failure") /\ UNCHANGED log
  /\ UNCHANGED <<job, record, pairs, staged, main, results, failed, finished>>

-----------------------------------------------------------------------------
(* The end of the run.                                                     *)

Finish ==
  /\ pc = "next" /\ at \notin DOMAIN pairs
  /\ report' = [report EXCEPT !.complete = TRUE]
  /\ pc' = "ended"
  /\ UNCHANGED <<job, record, pairs, at, workdir, gate, finished>>

Ended == {"ended", "refused", "killed"}

\* A stopped run is not continued: its work directory is not fresh.
Kill ==
  /\ MayBeKilled /\ pc \notin Ended
  /\ pc' = "killed"
  /\ UNCHANGED <<job, record, pairs, at, workdir, gate, report, finished>>

\* Somebody edits a snapshot of the job that is being audited.
Damage ==
  /\ JobMayChange /\ pc \notin Ended
  /\ \E v \in Snapshots(job), p \in Policy : job' = [job EXCEPT !.versions[v].python = p]
  /\ UNCHANGED <<record, pairs, at, pc, workdir, gate, report, finished>>

Done == pc \in Ended /\ UNCHANGED vars

Next ==
  \/ VerifyRecord \/ NextPair
  \/ StageParent \/ StageCandidate \/ Restore
  \/ VisibleParent \/ VisibleCandidate \/ SuiteParent \/ SuiteCandidate \/ EvaluationFailed
  \/ Screen \/ Confirm \/ Finish
  \/ Kill \/ Damage \/ Done

Spec == Init /\ [][Next]_vars

-----------------------------------------------------------------------------
(* Properties.                                                             *)

\* A version is evaluated on a suite once: a result is reused and a failure
\* remembered by every later pair; only an evaluation that told nothing is
\* made again.
EvaluatedOnce == \A k \in Keys : finished[k] <= 1

\* Whatever happens to the job directory after the record was verified, what
\* is evaluated under a version is the tree the record names for it.
EvaluatedAsRecorded ==
  \A v \in RecordedVersions(record) :
    staged[v] # None => staged[v] = record.versions[v].method

\* The report on disk follows the gate's log and nothing else: a row has the
\* disposition of the last line about its candidate, or none, and then it says
\* which stage was left; a pair is refused for another's decision only if that
\* one was left open by a failure; a report that calls itself complete has a
\* row for every pair.
FollowsTheLog(row) ==
  LET lines == LinesOf(log, row.candidate) IN
  IF row.disposition # "none"
  THEN \E i \in lines : log[i].disposition = row.disposition /\ \A k \in lines : k <= i
  ELSE /\ row.agree = "none"
       /\ IF row.screening = "provisional"
          THEN /\ row.candidate \in OpenVersions
               /\ row.outcome \in {"evaluation_failed", "infrastructure_failed", "gate_refused"}
          ELSE lines = {}
ReportFollowsTheGate ==
  LET rows == report.rows IN
  /\ \A k \in DOMAIN rows :
       /\ rows[k].candidate = pairs[k].candidate
       /\ FollowsTheLog(rows[k])
       /\ rows[k].refusal = "open" => \E m \in 1 .. (k - 1) : rows[m].screening = "provisional" /\ rows[m].disposition = "none"
  /\ report.complete => Len(rows) = Len(pairs)
=============================================================================
