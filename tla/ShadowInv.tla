------------------------------ MODULE ShadowInv ------------------------------
(***************************************************************************)
(* The invariant of Shadow: what the record supports, how far the audit    *)
(* and the gate's log have come, what the row being filled says, and which *)
(* evaluations have told something.  Shadow_proofs proves it; here it can  *)
(* be model-checked.                                                       *)
(***************************************************************************)
EXTENDS Shadow

\* What an audited job directory is made of: a tree or nothing under each
\* version, and a log of blocks.
ASSUME JobsAssumption ==
  \A j \in Jobs : j.versions \in [Version -> Tree \cup {None}] /\ j.log \in Seq(Block)

Confirming == {"suite_parent", "suite_candidate", "confirm"}
Auditing == {"stage_parent", "stage_candidate", "restore", "visible_parent", "visible_candidate", "screen"}
            \cup Confirming

-----------------------------------------------------------------------------
(* Types.                                                                  *)

PairType ==
  [candidate : Version, status : Statuses \cup {"provisional"}, parent : Version, starter : BOOLEAN]
LogLineType == [version : Version, disposition : {"keep", "revert", "provisional"}]
GateOutcomes ==
  {"none", "not_replayable", "infrastructure_failed", "evaluation_failed", "gate_refused",
   "screening_below", "exploratory", "confirmed_keep", "confirmed_revert"}
GateType ==
  [outcome : GateOutcomes, disposition : {"none", "keep", "revert"},
   screening : {"none", "provisional", "revert"}, failed : BOOLEAN, refusal : {"none", "open", "failure"}]
RowType ==
  [candidate : Version, outcome : GateOutcomes, disposition : {"none", "keep", "revert"},
   screening : {"none", "provisional", "revert"}, refusal : {"none", "open", "failure"},
   agree : {"none", "agree", "disagree"}]

TypeOK ==
  /\ pairs \in Seq(PairType)
  /\ at \in Nat
  /\ pc \in {"verify", "next"} \cup Auditing \cup Ended
  /\ DOMAIN staged = Version
  /\ results \in [Units -> {"none", "partial", "complete"}]
  /\ failed \subseteq Keys
  /\ log \in Seq(LogLineType)
  /\ gate \in GateType
  /\ report \in [complete : BOOLEAN, rows : Seq(RowType)]
  /\ finished \in [Keys -> Nat]

-----------------------------------------------------------------------------
(* The inductive invariant.                                                *)

\* The record is of versions, none of which is its own parent.
RecordTells ==
  /\ RecordedVersions(record) \subseteq Version
  /\ \A v \in RecordedVersions(record) :
       /\ record.versions[v].parents \cup record.versions[v].unsnapshotted \subseteq Version \ {v}
       /\ record.versions[v].ordinal \in Nat

\* Each candidate is audited once, against another version.
PairsInv ==
  /\ \A k \in DOMAIN pairs : pairs[k].parent # pairs[k].candidate
  /\ \A k, m \in DOMAIN pairs : pairs[k].candidate = pairs[m].candidate => k = m

\* The audit is at the first pair that has no row.
Position ==
  /\ at = 0 => pairs = <<>> /\ log = <<>> /\ report.rows = <<>>
  /\ at = 0 => pc \in {"verify", "refused", "killed"}
  /\ at # 0 => pc \notin {"verify", "refused"} /\ at <= Len(pairs) + 1 /\ Len(report.rows) = at - 1
  /\ pc \in Auditing => at \in DOMAIN pairs
  /\ report.complete => pc = "ended" /\ at = Len(pairs) + 1

\* The pairs the log may have lines about.
Reached == IF pc \in Confirming \cup {"killed"} THEN at ELSE at - 1

\* The log is about these pairs, and while the audit waits for a confirmation
\* its pair is open.
LogInv ==
  /\ \A i \in DOMAIN log : \E k \in DOMAIN pairs : k <= Reached /\ log[i].version = pairs[k].candidate
  /\ pc \in Confirming => Pair.candidate \in OpenVersions

\* The row being filled says how far its pair has come.
RowInv ==
  pc \in Auditing =>
    /\ gate.disposition = "none" /\ gate.refusal = "none"
    /\ gate.screening = IF pc \in Confirming THEN "provisional" ELSE "none"

\* The unit that is the evidence of a version on a suite.
UnitOf(k) ==
  IF k[2] = None THEN <<k[1], "visible">>
  ELSE IF k[1] = k[2] THEN <<k[1], "candidate">> ELSE <<k[2], "parent">>

\* An evaluation that told something left its failure or its evidence.
EvaluationInv ==
  \A k \in Keys : finished[k] <= 1 /\ (finished[k] = 1 => k \in failed \/ results[UnitOf(k)] = "complete")

IInv ==
  /\ TypeOK /\ RecordTells /\ PairsInv /\ Position /\ LogInv /\ RowInv /\ EvaluationInv
  /\ EvaluatedAsRecorded /\ ReportFollowsTheGate
=============================================================================
