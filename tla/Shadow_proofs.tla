---------------------------- MODULE Shadow_proofs ----------------------------
(***************************************************************************)
(* IInv is inductive, hence an invariant of the shadow audit, and the      *)
(* three properties of the audit follow from it.                           *)
(***************************************************************************)
EXTENDS ShadowInv, Capsule_proofs

-----------------------------------------------------------------------------
(* The record and its pairs.                                               *)

\* The producer's record is of versions, none of which is its own parent.
LEMMA RecordOfAJob == Init => RecordTells
<1>. SUFFICES ASSUME Init PROVE RecordTells
  OBVIOUS
<1>1. /\ job.versions \in [Version -> Tree \cup {None}] /\ job.log \in Seq(Block)
      /\ record.versions = [v \in Snapshots(job) |-> VersionIn(job, v)]
  BY JobsAssumption DEF Init, Produced
<1>2. Snapshots(job) \subseteq Version /\ RecordedVersions(record) = Snapshots(job)
  BY <1>1 DEF Snapshots, RecordedVersions
<1>3. DeclaredIn(job.log) \subseteq Version /\ IsFiniteSet(Version)
  <2>1. \A i \in DOMAIN job.log : job.log[i] \in Block
    BY <1>1
  <2>2. \A b \in Block : b.version \in Version
    BY DEF Block
  <2>. QED BY <2>1, <2>2, DecisionLinesAssumption DEF DeclaredIn
<1>4. ASSUME NEW v \in RecordedVersions(record)
      PROVE  /\ record.versions[v].parents \cup record.versions[v].unsnapshotted \subseteq Version \ {v}
             /\ record.versions[v].ordinal \in Nat
  <2>1. /\ record.versions[v].parents = Recorded(job, v)
        /\ record.versions[v].unsnapshotted = Unsnapshotted(job, v)
        /\ record.versions[v].ordinal = Ordinal(job.log, v)
    BY <1>1, <1>2 DEF VersionIn
  <2>2. Ordinal(job.log, v) \in Nat
    <3>1. IsFiniteSet({w \in DeclaredIn(job.log) : LineOf(job.log, w) <= LineOf(job.log, v)})
      BY <1>3, FS_Subset
    <3>. QED BY <3>1, FS_CardinalityType DEF Ordinal
  <2>. QED BY <1>2, <1>3, <2>1, <2>2 DEF Recorded, Unsnapshotted, ParentsOf
<1>. QED BY <1>2, <1>4 DEF RecordTells

\* The pair of a version has another version for its parent.
LEMMA PairIsTyped ==
  ASSUME RecordTells, WellFormed(record), NEW v \in RecordedVersions(record),
         IsSnapshotPair(record, v) \/ IsStarterPair(record, v)
  PROVE  /\ PairOf(record, v) \in PairType
         /\ PairOf(record, v).candidate = v /\ PairOf(record, v).parent # v
<1>1. /\ v \in Version
      /\ record.versions[v].parents \cup record.versions[v].unsnapshotted \subseteq Version \ {v}
      /\ record.versions[v].status \in Statuses \cup {"provisional"}
  BY DEF RecordTells, WellFormed
<1>. DEFINE p == PairOf(record, v).parent
<1>2. p \in Version \ {v}
  <2>1. CASE IsSnapshotPair(record, v)
    <3>1. p = CHOOSE x \in record.versions[v].parents : TRUE
      BY <2>1 DEF PairOf
    <3>2. \E x \in record.versions[v].parents : TRUE
      BY <2>1 DEF IsSnapshotPair
    <3>. QED BY <1>1, <3>1, <3>2
  <2>2. CASE ~IsSnapshotPair(record, v)
    BY <1>1, <2>2 DEF PairOf, IsStarterPair
  <2>. QED BY <2>1, <2>2
<1>3. PairOf(record, v) = [candidate |-> v, status |-> record.versions[v].status, parent |-> p,
                           starter |-> IsStarterPair(record, v)]
  BY DEF PairOf
<1>4. IsStarterPair(record, v) \in BOOLEAN
  BY DEF IsStarterPair
<1>. HIDE DEF p
<1>. QED BY <1>1, <1>2, <1>3, <1>4 DEF PairType

\* A record without errors has one pair for each candidate.
LEMMA PairsOfARecord ==
  ASSUME RecordTells, Errors(record, job) = {}
  PROVE  /\ PairsOf(record) \in Seq(PairType)
         /\ \A k \in DOMAIN PairsOf(record) : PairsOf(record)[k].parent # PairsOf(record)[k].candidate
         /\ \A k, m \in DOMAIN PairsOf(record) :
              PairsOf(record)[k].candidate = PairsOf(record)[m].candidate => k = m
<1>. DEFINE paired == {v \in RecordedVersions(record) : IsSnapshotPair(record, v) \/ IsStarterPair(record, v)}
            rank == [v \in paired |-> record.versions[v].ordinal]
            sorted == InOrder(paired, rank)
            n == Cardinality(paired)
<1>1. WellFormed(record) /\ LineageErrors(record) = {}
  BY NoErrorParts
<1>2. IsFiniteSet(paired)
  BY DecisionLinesAssumption, FS_Subset DEF RecordTells
<1>3. \A v \in paired : rank[v] \in Int
  BY DEF RecordTells
<1>4. \A v, w \in paired : rank[v] = rank[w] => v = w
  <2>. SUFFICES ASSUME NEW v \in paired, NEW w \in paired, v # w, rank[v] = rank[w] PROVE FALSE
    OBVIOUS
  <2>1. \E x \in RecordedVersions(record) \ {v} : record.versions[x].ordinal = record.versions[v].ordinal
    OBVIOUS
  <2>2. "semantic:versions:duplicate_ordinal" \in LineageErrors(record)
    BY <2>1 DEF LineageErrors, If
  <2>. QED BY <1>1, <2>2
<1>. HIDE DEF rank
<1>5. n \in Nat /\ sorted \in [1 .. n -> paired]
      /\ \A i, k \in 1 .. n : i < k => rank[sorted[i]] < rank[sorted[k]]
  <2>. HIDE DEF paired
  <2>. QED BY <1>2, <1>3, <1>4, InOrderEnumerates
<1>6. \A i, k \in 1 .. n : sorted[i] = sorted[k] => i = k
  <2>. HIDE DEF sorted, n, paired
  <2>. SUFFICES ASSUME NEW i \in 1 .. n, NEW k \in 1 .. n, sorted[i] = sorted[k], i < k PROVE FALSE
    BY <1>5
  <2>1. rank[sorted[i]] \in Int /\ rank[sorted[i]] < rank[sorted[k]]
    BY <1>3, <1>5
  <2>. QED BY <2>1
<1>7. PairsOf(record) = [k \in 1 .. n |-> PairOf(record, sorted[k])]
  BY <1>5 DEF PairsOf, rank
<1>8. ASSUME NEW k \in 1 .. n
      PROVE  /\ PairOf(record, sorted[k]) \in PairType
             /\ PairOf(record, sorted[k]).candidate = sorted[k]
             /\ PairOf(record, sorted[k]).parent # sorted[k]
  BY <1>1, <1>5, PairIsTyped
<1>. HIDE DEF sorted, n
<1>. QED BY <1>5, <1>6, <1>7, <1>8

-----------------------------------------------------------------------------
(* The log and the rows.                                                   *)

\* A version is open if its last line is a provisional one.
LEMMA OpenForm ==
  ASSUME NEW v
  PROVE  v \in OpenVersions <=>
           \E i \in DOMAIN log : /\ log[i].version = v /\ log[i].disposition = "provisional"
                                 /\ \A k \in (i + 1) .. Len(log) : log[k].version # v
BY DEF OpenVersions

\* What a line about c changes: c's lines and whether c is open.
LEMMA LineAdded ==
  ASSUME log \in Seq(LogLineType), NEW c, NEW d,
         log' = Append(log, [version |-> c, disposition |-> d])
  PROVE  /\ Len(log') = Len(log) + 1
         /\ log'[Len(log')] = [version |-> c, disposition |-> d]
         /\ \A i \in DOMAIN log : log'[i] = log[i]
         /\ \A v : v # c => LinesOf(log', v) = LinesOf(log, v)
         /\ \A v : v # c /\ v \in OpenVersions => v \in OpenVersions'
         /\ d = "provisional" => c \in OpenVersions'
<1>1. /\ Len(log) \in Nat /\ DOMAIN log = 1 .. Len(log)
      /\ Len(log') = Len(log) + 1 /\ DOMAIN log' = 1 .. Len(log')
      /\ log'[Len(log')] = [version |-> c, disposition |-> d]
      /\ \A i \in DOMAIN log : log'[i] = log[i]
  OBVIOUS
<1>2. ASSUME NEW v, v # c PROVE LinesOf(log', v) = LinesOf(log, v)
  BY <1>1, <1>2 DEF LinesOf
<1>3. ASSUME NEW v, v # c, v \in OpenVersions PROVE v \in OpenVersions'
  <2>1. PICK i \in DOMAIN log : /\ log[i].version = v /\ log[i].disposition = "provisional"
                                /\ \A k \in (i + 1) .. Len(log) : log[k].version # v
    BY <1>3, OpenForm
  <2>2. ASSUME NEW k \in (i + 1) .. Len(log') PROVE log'[k].version # v
    <3>1. CASE k = Len(log')
      BY <1>1, <1>3, <3>1
    <3>2. CASE k # Len(log')
      BY <1>1, <2>1, <3>2
    <3>. QED BY <3>1, <3>2
  <2>3. i \in DOMAIN log' /\ log'[i] = log[i]
    BY <1>1
  <2>. QED BY <2>1, <2>2, <2>3 DEF OpenVersions
<1>4. ASSUME d = "provisional" PROVE c \in OpenVersions'
  <2>1. Len(log') \in DOMAIN log' /\ (Len(log') + 1) .. Len(log') = {}
    BY <1>1
  <2>2. log'[Len(log')].version = c /\ log'[Len(log')].disposition = "provisional"
    BY <1>1, <1>4
  <2>. QED BY <2>1, <2>2 DEF OpenVersions
<1>. QED BY <1>1, <1>2, <1>3, <1>4

\* Before its screening a pair has no line.
LEMMA Unreached ==
  ASSUME IInv, pc \in Auditing \ Confirming
  PROVE  LinesOf(log, Pair.candidate) = {}
<1>1. /\ at \in DOMAIN pairs /\ at \in Nat /\ Reached = at - 1
      /\ pairs \in Seq(PairType)
  BY DEF IInv, TypeOK, Position, Reached, Auditing, Confirming
<1>2. ASSUME NEW i \in DOMAIN log, log[i].version = Pair.candidate PROVE FALSE
  <2>1. PICK k \in DOMAIN pairs : k <= Reached /\ log[i].version = pairs[k].candidate
    BY DEF IInv, LogInv
  <2>2. k = at
    BY <1>1, <1>2, <2>1 DEF IInv, PairsInv, Pair
  <2>. QED BY <1>1, <2>1, <2>2
<1>. QED BY <1>2 DEF LinesOf

\* A line about the pair being audited changes no earlier row.
LEMMA RowsStay ==
  ASSUME IInv, at \in DOMAIN pairs, NEW k \in DOMAIN report.rows, NEW row, row = report.rows[k],
         log' = log \/ \E d : LogLine(d)
  PROVE  FollowsTheLog(row)'
<1>1. /\ pairs \in Seq(PairType) /\ at \in Nat /\ log \in Seq(LogLineType)
      /\ report.rows \in Seq(RowType) /\ Len(report.rows) = at - 1
      /\ row.candidate = pairs[k].candidate /\ FollowsTheLog(row)
  BY DEF IInv, TypeOK, Position, ReportFollowsTheGate
<1>2. CASE log' = log
  <2>1. OpenVersions' = OpenVersions
    BY <1>2 DEF OpenVersions
  <2>. QED BY <1>1, <1>2, <2>1 DEF FollowsTheLog
<1>3. ASSUME NEW d, LogLine(d) PROVE FollowsTheLog(row)'
  <2>. DEFINE c == Pair.candidate
              v == row.candidate
  <2>1. v # c
    <3>1. k \in DOMAIN pairs /\ k # at
      BY <1>1
    <3>. QED BY <1>1, <3>1 DEF IInv, PairsInv, Pair
  <2>2. log' = Append(log, [version |-> c, disposition |-> d])
    BY <1>3 DEF LogLine
  <2>. HIDE DEF c
  <2>3. /\ LinesOf(log', v) = LinesOf(log, v)
        /\ v \in OpenVersions => v \in OpenVersions'
        /\ \A i \in DOMAIN log : log'[i] = log[i]
    BY <1>1, <2>1, <2>2, LineAdded
  <2>4. LinesOf(log, v) \subseteq DOMAIN log
    BY DEF LinesOf
  <2>. QED BY <1>1, <2>3, <2>4 DEF FollowsTheLog
<1>. QED BY <1>2, <1>3

\* A step that adds neither a line nor a row leaves the report what it says.
LEMMA ReportStays ==
  ASSUME IInv, UNCHANGED <<log, pairs>>, report'.rows = report.rows,
         report'.complete => Len(report.rows) = Len(pairs)
  PROVE  OpenVersions' = OpenVersions /\ ReportFollowsTheGate'
<1>1. OpenVersions' = OpenVersions
  BY DEF OpenVersions
<1>2. ASSUME NEW k \in DOMAIN report.rows
      PROVE  /\ report.rows[k].candidate = pairs[k].candidate /\ FollowsTheLog(report.rows[k])
             /\ report.rows[k].refusal = "open" =>
                  \E m \in 1 .. (k - 1) :
                    report.rows[m].screening = "provisional" /\ report.rows[m].disposition = "none"
  BY <1>2 DEF IInv, ReportFollowsTheGate
<1>3. ASSUME NEW k \in DOMAIN report.rows PROVE FollowsTheLog(report.rows[k])'
  BY <1>1, <1>2, <1>3 DEF FollowsTheLog
<1>. QED BY <1>1, <1>2, <1>3 DEF ReportFollowsTheGate

\* A step that ends no pair and writes no line leaves the log and the report
\* as they were, and the audit where it was.
LEMMA Proceeds ==
  ASSUME IInv, at \in DOMAIN pairs, pc \in Auditing \cup {"next"}, pc' \in Auditing,
         UNCHANGED <<pairs, at, log, report>>,
         pc' \in Confirming <=> pc \in Confirming
  PROVE  Position' /\ LogInv' /\ ReportFollowsTheGate'
<1>1. Position'
  BY DEF IInv, Position, Auditing, Confirming
<1>2. Reached' = Reached /\ OpenVersions' = OpenVersions
  BY DEF Reached, OpenVersions, Auditing, Confirming
<1>3. LogInv'
  BY <1>2 DEF IInv, LogInv, Pair
<1>4. ReportFollowsTheGate'
  BY ReportStays DEF IInv, ReportFollowsTheGate
<1>. QED BY <1>1, <1>3, <1>4

\* The end of a pair: its row follows the log, and the rows before it still do.
LEMMA RowAdded ==
  ASSUME IInv, pc \in Auditing, NEW g \in GateType, EndPair(g), pairs' = pairs,
         log' = log \/ \E d \in {"keep", "revert", "provisional"} : LogLine(d),
         NEW r, r = Row(g), FollowsTheLog(r)',
         r.refusal = "open" =>
           \E m \in 1 .. (at - 1) : report.rows[m].screening = "provisional" /\ report.rows[m].disposition = "none"
  PROVE  /\ Position' /\ LogInv' /\ ReportFollowsTheGate'
         /\ report' \in [complete : BOOLEAN, rows : Seq(RowType)] /\ log' \in Seq(LogLineType)
         /\ at' \in Nat /\ gate' \in GateType /\ pc' = "next"
<1>1. /\ at \in DOMAIN pairs /\ at \in Nat /\ at # 0 /\ pairs \in Seq(PairType) /\ log \in Seq(LogLineType)
      /\ report \in [complete : BOOLEAN, rows : Seq(RowType)]
      /\ Len(report.rows) = at - 1 /\ ~report.complete /\ at <= Len(pairs)
  BY DEF IInv, TypeOK, Position, Auditing, Confirming
<1>2. /\ gate' = g /\ at' = at + 1 /\ pc' = "next"
      /\ report' = [report EXCEPT !.rows = Append(@, r)]
  BY DEF EndPair
<1>3. r \in RowType /\ r.candidate = pairs[at].candidate
  <2>1. Pair \in PairType
    BY <1>1 DEF Pair
  <2>2. /\ r = [candidate |-> Pair.candidate, outcome |-> g.outcome, disposition |-> g.disposition,
               screening |-> g.screening, refusal |-> g.refusal, agree |-> r.agree]
        /\ r.agree \in {"none", "agree", "disagree"}
    BY DEF Row
  <2>3. /\ g.outcome \in GateOutcomes /\ g.disposition \in {"none", "keep", "revert"}
        /\ g.screening \in {"none", "provisional", "revert"} /\ g.refusal \in {"none", "open", "failure"}
    BY DEF GateType
  <2>4. Pair.candidate \in Version
    BY <2>1 DEF PairType
  <2>. QED BY <2>2, <2>3, <2>4 DEF RowType, Pair
<1>4. report' \in [complete : BOOLEAN, rows : Seq(RowType)] /\ report'.rows = Append(report.rows, r)
      /\ report'.complete = report.complete
  <2>1. report'.rows = Append(report.rows, r) /\ report'.complete = report.complete
    BY <1>1, <1>2
  <2>2. Append(report.rows, r) \in Seq(RowType) /\ report.complete \in BOOLEAN
    BY <1>1, <1>3
  <2>3. report' = [complete |-> report.complete, rows |-> Append(report.rows, r)]
    BY <1>1, <1>2
  <2>. QED BY <2>1, <2>2, <2>3
<1>5. Position'
  <2>1. Len(report'.rows) = at
    BY <1>1, <1>4
  <2>. QED BY <1>1, <1>2, <1>4, <2>1 DEF Position, Auditing, Confirming
<1>6. log' \in Seq(LogLineType) /\ LogInv'
  <2>1. Reached' = at /\ ~(pc' \in Confirming) /\ Reached \in Int /\ Reached <= at
    BY <1>1, <1>2 DEF Reached, Confirming
  <2>2. CASE log' = log
    <3>1. ASSUME NEW i \in DOMAIN log PROVE \E k \in DOMAIN pairs : k <= at /\ log[i].version = pairs[k].candidate
      <4>1. PICK k \in DOMAIN pairs : k <= Reached /\ log[i].version = pairs[k].candidate
        BY DEF IInv, LogInv
      <4>2. k \in Int /\ k <= at
        BY <1>1, <2>1, <4>1
      <4>. QED BY <4>1, <4>2
    <3>. QED BY <1>1, <2>1, <2>2, <3>1 DEF LogInv
  <2>3. ASSUME NEW d \in {"keep", "revert", "provisional"}, LogLine(d) PROVE log' \in Seq(LogLineType) /\ LogInv'
    <3>1. pairs[at].candidate \in Version
      BY <1>3 DEF RowType
    <3>2. log' = Append(log, [version |-> pairs[at].candidate, disposition |-> d])
      BY <2>3 DEF LogLine, Pair
    <3>3. log' \in Seq(LogLineType)
      BY <1>1, <3>1, <3>2 DEF LogLineType
    <3>4. ASSUME NEW i \in DOMAIN log' PROVE \E k \in DOMAIN pairs : k <= at /\ log'[i].version = pairs[k].candidate
      <4>1. CASE i \in DOMAIN log
        <5>1. PICK k \in DOMAIN pairs : k <= Reached /\ log[i].version = pairs[k].candidate
          BY <4>1 DEF IInv, LogInv
        <5>2. log'[i] = log[i] /\ k <= at
          BY <1>1, <2>1, <3>2, <4>1, <5>1
        <5>. QED BY <5>1, <5>2
      <4>2. CASE i \notin DOMAIN log
        <5>1. log'[i].version = pairs[at].candidate
          BY <1>1, <3>2, <4>2
        <5>. QED BY <1>1, <5>1
      <4>. QED BY <4>1, <4>2
    <3>. QED BY <2>1, <3>3, <3>4 DEF LogInv
  <2>. QED BY <2>2, <2>3
<1>7. ReportFollowsTheGate'
  <2>. DEFINE rows == report.rows
  <2>1. DOMAIN rows = 1 .. (at - 1) /\ DOMAIN report'.rows = 1 .. at
        /\ report'.rows[at] = r /\ \A k \in 1 .. (at - 1) : report'.rows[k] = rows[k]
    BY <1>1, <1>4
  <2>2. ASSUME NEW k \in 1 .. at, NEW row, row = report'.rows[k]
        PROVE  /\ row.candidate = pairs'[k].candidate /\ FollowsTheLog(row)'
               /\ row.refusal = "open" =>
                    \E m \in 1 .. (k - 1) : report'.rows[m].screening = "provisional" /\ report'.rows[m].disposition = "none"
    <3>1. CASE k = at
      <4>1. row = r
        BY <2>1, <2>2, <3>1
      <4>2. \A m \in 1 .. (at - 1) : report'.rows[m] = report.rows[m]
        BY <2>1
      <4>. QED BY <1>1, <1>3, <3>1, <4>1, <4>2
    <3>2. CASE k # at
      <4>1. k \in DOMAIN report.rows /\ row = report.rows[k]
        BY <1>1, <2>1, <2>2, <3>2
      <4>2. FollowsTheLog(row)'
        BY <1>1, <4>1, RowsStay
      <4>3. /\ row.candidate = pairs[k].candidate
            /\ row.refusal = "open" =>
                 \E m \in 1 .. (k - 1) : rows[m].screening = "provisional" /\ rows[m].disposition = "none"
        BY <4>1 DEF IInv, ReportFollowsTheGate
      <4>4. \A m \in 1 .. (k - 1) : report'.rows[m] = rows[m]
        <5>1. 1 .. (k - 1) \subseteq 1 .. (at - 1)
          BY <1>1
        <5>. QED BY <2>1, <5>1
      <4>. QED BY <4>2, <4>3, <4>4
    <3>. QED BY <3>1, <3>2
  <2>3. ASSUME NEW k \in 1 .. at PROVE FollowsTheLog(report.rows[k])'
    <3>1. PICK row : row = report'.rows[k]
      OBVIOUS
    <3>2. FollowsTheLog(row)'
      BY <2>2, <3>1
    <3>. QED BY <3>1, <3>2 DEF FollowsTheLog
  <2>4. ~report'.complete
    BY <1>1, <1>4
  <2>. QED BY <2>1, <2>2, <2>3, <2>4 DEF ReportFollowsTheGate
<1>. QED BY <1>1, <1>2, <1>4, <1>5, <1>6, <1>7

-----------------------------------------------------------------------------
(* The evaluations.                                                        *)

\* One evaluation of v on a suite, in the units its evidence is kept in.
LEMMA EvaluateCounts ==
  ASSUME TypeOK, EvaluationInv, NEW v \in Version, NEW suite \in Version \cup {None},
         NEW from, NEW next, Evaluate(v, suite, UnitOf(<<v, suite>>), from, next)
  PROVE  /\ results' \in [Units -> {"none", "partial", "complete"}]
         /\ failed' \subseteq Keys
         /\ finished' \in [Keys -> Nat]
         /\ EvaluationInv'
<1>. DEFINE key == <<v, suite>>
            unit == UnitOf(key)
<1>1. key \in Keys /\ \A k \in Keys : UnitOf(k) \in Units
  BY DEF Keys, UnitOf, Units
<1>2. /\ results \in [Units -> {"none", "partial", "complete"}] /\ failed \subseteq Keys
      /\ finished \in [Keys -> Nat]
  BY DEF TypeOK
<1>. HIDE DEF unit, key
<1>3. CASE UNCHANGED <<results, failed, finished>>
  BY <1>2, <1>3 DEF EvaluationInv
<1>4. \/ UNCHANGED <<results, failed, finished>>
      \/ /\ ~Known(v, suite, unit)
         /\ results' = [results EXCEPT ![unit] = "complete"] /\ failed' = failed
         /\ finished' = [finished EXCEPT ![key] = @ + 1]
      \/ /\ ~Known(v, suite, unit)
         /\ failed' = failed \cup {key} /\ results' = results
         /\ finished' = [finished EXCEPT ![key] = @ + 1]
      \/ /\ ~Known(v, suite, unit)
         /\ \E left \in {"none", "partial", "complete"} : results' = [results EXCEPT ![unit] = left]
         /\ UNCHANGED <<failed, finished>>
  BY DEF Evaluate, unit, key
<1>5. ~Known(v, suite, unit) => key \notin failed /\ results[unit] # "complete" /\ finished[key] = 0
  BY <1>1, <1>2 DEF Known, EvaluationInv, unit, key
<1>6. CASE /\ ~Known(v, suite, unit)
           /\ results' = [results EXCEPT ![unit] = "complete"] /\ failed' = failed
           /\ finished' = [finished EXCEPT ![key] = @ + 1]
  <2>1. finished' \in [Keys -> Nat] /\ results' \in [Units -> {"none", "partial", "complete"}]
    <3>1. finished[key] + 1 \in Nat
      BY <1>1, <1>2
    <3>. QED BY <1>2, <1>6, <3>1
  <2>2. /\ finished'[key] = 1 /\ results'[unit] = "complete"
        /\ \A k \in Keys \ {key} : finished'[k] = finished[k]
        /\ \A u \in Units : results[u] = "complete" => results'[u] = "complete"
    BY <1>1, <1>2, <1>5, <1>6 DEF unit
  <2>. QED BY <1>1, <1>2, <1>6, <2>1, <2>2 DEF EvaluationInv, unit
<1>7. CASE /\ ~Known(v, suite, unit)
           /\ failed' = failed \cup {key} /\ results' = results
           /\ finished' = [finished EXCEPT ![key] = @ + 1]
  <2>1. finished' \in [Keys -> Nat] /\ failed' \subseteq Keys
    BY <1>1, <1>2, <1>7
  <2>2. finished'[key] = 1 /\ \A k \in Keys \ {key} : finished'[k] = finished[k]
    BY <1>1, <1>2, <1>5, <1>7
  <2>. QED BY <1>1, <1>2, <1>7, <2>1, <2>2 DEF EvaluationInv
<1>8. CASE /\ ~Known(v, suite, unit)
           /\ \E left \in {"none", "partial", "complete"} : results' = [results EXCEPT ![unit] = left]
           /\ UNCHANGED <<failed, finished>>
  <2>1. /\ results' \in [Units -> {"none", "partial", "complete"}]
        /\ \A u \in Units : results[u] = "complete" => results'[u] = "complete"
    BY <1>1, <1>2, <1>5, <1>8 DEF unit
  <2>. QED BY <1>1, <1>2, <1>8, <2>1 DEF EvaluationInv
<1>. QED BY <1>3, <1>4, <1>6, <1>7, <1>8

-----------------------------------------------------------------------------
(* The rows that the ends of a pair write.                                 *)

\* A pair that ends without a line: its row says which stage was left.
LEMMA UnlinedRow ==
  ASSUME IInv, pc \in Auditing, log' = log, NEW g \in GateType,
         g.disposition = "none", g.screening = gate.screening,
         g.screening = "provisional" =>
           g.outcome \in {"evaluation_failed", "infrastructure_failed", "gate_refused"},
         NEW r, r = Row(g)
  PROVE  FollowsTheLog(r)'
<1>1. /\ r.candidate = Pair.candidate /\ r.disposition = "none" /\ r.agree = "none"
      /\ r.screening = g.screening /\ r.outcome = g.outcome
  BY DEF Row, Comparable
<1>2. OpenVersions' = OpenVersions
  BY DEF OpenVersions
<1>. DEFINE c == Pair.candidate
<1>3. CASE pc \in Confirming
  <2>1. g.screening = "provisional" /\ c \in OpenVersions
    BY <1>3 DEF IInv, RowInv, LogInv
  <2>. HIDE DEF c
  <2>. QED BY <1>1, <1>2, <2>1 DEF FollowsTheLog, c
<1>4. CASE pc \notin Confirming
  <2>1. g.screening = "none" /\ LinesOf(log, c) = {}
    BY <1>4, Unreached DEF IInv, RowInv
  <2>. HIDE DEF c
  <2>. QED BY <1>1, <2>1 DEF FollowsTheLog, c
<1>. QED BY <1>3, <1>4

\* A pair that ends with a line: its row has the disposition of that line.
LEMMA LinedRow ==
  ASSUME IInv, pc \in Auditing, NEW d \in {"keep", "revert"}, LogLine(d),
         NEW g \in GateType, g.disposition = d, NEW r, r = Row(g)
  PROVE  FollowsTheLog(r)'
<1>1. r.candidate = Pair.candidate /\ r.disposition = d
  BY DEF Row
<1>. DEFINE c == Pair.candidate
<1>2. log' = Append(log, [version |-> c, disposition |-> d]) /\ log \in Seq(LogLineType)
  BY DEF LogLine, IInv, TypeOK
<1>. HIDE DEF c
<1>3. Len(log') \in DOMAIN log' /\ log'[Len(log')] = [version |-> c, disposition |-> d]
      /\ \A k \in DOMAIN log' : k <= Len(log')
  BY <1>2
<1>4. Len(log') \in LinesOf(log', c) /\ LinesOf(log', c) \subseteq DOMAIN log'
  BY <1>3 DEF LinesOf
<1>. QED BY <1>1, <1>3, <1>4 DEF FollowsTheLog, c

\* Where a version is open, its pair was left while it waited for its
\* confirmation.
LEMMA OpenWasLeft ==
  ASSUME IInv, pc = "screen", OpenVersions # {}
  PROVE  \E m \in 1 .. (at - 1) : report.rows[m].screening = "provisional" /\ report.rows[m].disposition = "none"
<1>1. /\ at \in Nat /\ at \in DOMAIN pairs /\ pairs \in Seq(PairType) /\ log \in Seq(LogLineType)
      /\ report.rows \in Seq(RowType) /\ Len(report.rows) = at - 1 /\ Reached = at - 1
  BY DEF IInv, TypeOK, Position, Reached, Auditing, Confirming
<1>2. PICK v : v \in OpenVersions
  OBVIOUS
<1>3. PICK i \in DOMAIN log : /\ log[i].version = v /\ log[i].disposition = "provisional"
                              /\ \A k \in (i + 1) .. Len(log) : log[k].version # v
  BY <1>2, OpenForm
<1>4. PICK m \in DOMAIN pairs : m <= Reached /\ log[i].version = pairs[m].candidate
  BY DEF IInv, LogInv
<1>. DEFINE row == report.rows[m]
<1>5. m \in 1 .. (at - 1) /\ row \in RowType /\ row.candidate = v /\ FollowsTheLog(row)
  BY <1>1, <1>3, <1>4 DEF IInv, ReportFollowsTheGate
<1>. HIDE DEF row
<1>6. i \in LinesOf(log, v)
  BY <1>3 DEF LinesOf
<1>7. row.disposition = "none"
  <2>. SUFFICES ASSUME row.disposition # "none" PROVE FALSE
    OBVIOUS
  <2>1. PICK l \in LinesOf(log, v) : log[l].disposition = row.disposition /\ \A k \in LinesOf(log, v) : k <= l
    BY <1>5 DEF FollowsTheLog
  <2>2. row.disposition # "provisional"
    BY <1>5 DEF RowType
  <2>3. l \in DOMAIN log /\ log[l].version = v /\ i <= l /\ l # i
    BY <1>3, <1>6, <2>1, <2>2 DEF LinesOf
  <2>4. l \in (i + 1) .. Len(log)
    BY <1>1, <2>3
  <2>. QED BY <1>3, <2>3, <2>4
<1>8. row.screening = "provisional"
  BY <1>5, <1>6, <1>7 DEF FollowsTheLog
<1>. QED BY <1>5, <1>7, <1>8 DEF row

-----------------------------------------------------------------------------
(* The steps.                                                              *)

\* While a pair is audited it is one of the record's.
LEMMA PairTyped ==
  ASSUME IInv, pc \in Auditing
  PROVE  /\ at \in DOMAIN pairs /\ Pair \in PairType /\ Pair.parent # Pair.candidate
         /\ Pair.candidate \in Version /\ Pair.parent \in Version
<1>1. at \in DOMAIN pairs /\ pairs \in Seq(PairType)
  BY DEF IInv, TypeOK, Position
<1>2. Pair \in PairType
  BY <1>1 DEF Pair
<1>. QED BY <1>1, <1>2 DEF IInv, PairsInv, Pair, PairType

\* A pair that ends without a line leaves the invariant.
LEMMA PairEnds ==
  ASSUME IInv, pc \in Auditing, NEW g \in GateType, EndPair(g),
         g.disposition = "none", g.screening = gate.screening,
         g.screening = "provisional" =>
           g.outcome \in {"evaluation_failed", "infrastructure_failed", "gate_refused"},
         g.refusal = "open" => pc = "screen" /\ OpenVersions # {},
         UNCHANGED <<pairs, log>>, DOMAIN staged' = Version,
         RecordTells', PairsInv', EvaluationInv', EvaluatedAsRecorded',
         results' \in [Units -> {"none", "partial", "complete"}], failed' \subseteq Keys, finished' \in [Keys -> Nat]
  PROVE  IInv'
<1>1. PICK r : r = Row(g)
  OBVIOUS
<1>2. FollowsTheLog(r)'
  BY <1>1, UnlinedRow
<1>3. r.refusal = "open" =>
        \E m \in 1 .. (at - 1) : report.rows[m].screening = "provisional" /\ report.rows[m].disposition = "none"
  BY <1>1, OpenWasLeft DEF Row
<1>4. /\ Position' /\ LogInv' /\ ReportFollowsTheGate'
      /\ report' \in [complete : BOOLEAN, rows : Seq(RowType)] /\ log' \in Seq(LogLineType)
      /\ at' \in Nat /\ gate' \in GateType /\ pc' = "next"
  BY <1>1, <1>2, <1>3, RowAdded
<1>5. pairs' \in Seq(PairType)
  BY DEF IInv, TypeOK
<1>6. TypeOK' /\ RowInv'
  BY <1>4, <1>5 DEF TypeOK, RowInv, Auditing, Confirming
<1>. QED BY <1>4, <1>6 DEF IInv

\* A snapshot is staged as the record names it, or its pair is over.
LEMMA StageStep ==
  ASSUME IInv, NEW v \in Version, NEW from, NEW next,
         <<from, next>> \in {<<"stage_parent", "stage_candidate">>, <<"stage_candidate", "restore">>},
         Stage(v, from, next)
  PROVE  IInv'
<1>1. /\ pc = from /\ pc \in Auditing \ Confirming /\ next \in Auditing \ Confirming
      /\ UNCHANGED <<record, pairs, results, failed, log, finished>>
  BY DEF Stage, Auditing, Confirming
<1>2. RecordTells' /\ PairsInv' /\ EvaluationInv'
  BY <1>1 DEF IInv, RecordTells, PairsInv, EvaluationInv
<1>3. DOMAIN staged' = Version /\ EvaluatedAsRecorded'
  <2>1. \/ staged' = staged
        \/ AsRecorded(v, SourceOf(v)) /\ staged' = [staged EXCEPT ![v] = SourceOf(v).python]
    BY DEF Stage
  <2>2. CASE staged' = staged
    BY <1>1, <2>2 DEF IInv, TypeOK, EvaluatedAsRecorded
  <2>3. CASE AsRecorded(v, SourceOf(v)) /\ staged' = [staged EXCEPT ![v] = SourceOf(v).python]
    <3>1. v \in RecordedVersions(record) => SourceOf(v).python = record.versions[v].method
      BY <2>3 DEF AsRecorded, Staged, Clean
    <3>2. DOMAIN staged = Version /\ RecordedVersions(record) \subseteq Version
      BY DEF IInv, TypeOK, RecordTells
    <3>3. /\ staged'[v] = SourceOf(v).python /\ DOMAIN staged' = Version
          /\ \A w \in Version \ {v} : staged'[w] = staged[w]
      BY <2>3, <3>2
    <3>. QED BY <1>1, <3>1, <3>2, <3>3 DEF IInv, EvaluatedAsRecorded
  <2>. QED BY <2>1, <2>2, <2>3
<1>4. CASE Proceed(next) /\ gate' = gate
  <2>1. Position' /\ LogInv' /\ ReportFollowsTheGate'
    BY <1>1, <1>4, PairTyped, Proceeds DEF Proceed
  <2>2. TypeOK' /\ RowInv'
    BY <1>1, <1>3, <1>4 DEF IInv, TypeOK, RowInv, Proceed
  <2>. QED BY <1>2, <1>3, <2>1, <2>2 DEF IInv
<1>5. CASE EndPair([EmptyGate EXCEPT !.outcome = "not_replayable"])
  <2>. DEFINE ended == [EmptyGate EXCEPT !.outcome = "not_replayable"]
  <2>1. PICK g : g = ended
    OBVIOUS
  <2>2. g \in GateType /\ g.disposition = "none" /\ g.screening = "none" /\ g.refusal = "none" /\ EndPair(g)
    BY <1>5, <2>1 DEF EmptyGate, GateType, GateOutcomes
  <2>3. gate.screening = "none"
    BY <1>1 DEF IInv, RowInv
  <2>4. /\ results' \in [Units -> {"none", "partial", "complete"}] /\ failed' \subseteq Keys
        /\ finished' \in [Keys -> Nat]
    BY <1>1 DEF IInv, TypeOK
  <2>. QED BY <1>1, <1>2, <1>3, <2>2, <2>3, <2>4, PairEnds
<1>. QED BY <1>4, <1>5 DEF Stage

\* An evaluation tells something, or its pair is over.
LEMMA EvaluateStep ==
  ASSUME IInv, NEW v \in Version, NEW suite \in Version \cup {None}, NEW from, NEW next,
         <<from, next>> \in {<<"visible_parent", "visible_candidate">>, <<"visible_candidate", "screen">>,
                             <<"suite_parent", "suite_candidate">>, <<"suite_candidate", "confirm">>},
         Evaluate(v, suite, UnitOf(<<v, suite>>), from, next)
  PROVE  IInv'
<1>1. /\ pc = from /\ pc \in Auditing /\ next \in Auditing /\ (next \in Confirming <=> pc \in Confirming)
      /\ UNCHANGED <<record, pairs, staged, log>>
  BY DEF Evaluate, Auditing, Confirming
<1>2. /\ results' \in [Units -> {"none", "partial", "complete"}] /\ failed' \subseteq Keys
      /\ finished' \in [Keys -> Nat] /\ EvaluationInv'
  BY EvaluateCounts DEF IInv
<1>3. RecordTells' /\ PairsInv' /\ DOMAIN staged' = Version /\ EvaluatedAsRecorded'
  BY <1>1 DEF IInv, TypeOK, RecordTells, PairsInv, EvaluatedAsRecorded
<1>4. gate \in GateType /\ gate.disposition = "none" /\ gate.refusal = "none"
  BY <1>1 DEF IInv, TypeOK, RowInv
<1>5. CASE Proceed(next) /\ \E f \in BOOLEAN : gate' = [gate EXCEPT !.failed = f]
  <2>1. Position' /\ LogInv' /\ ReportFollowsTheGate'
    BY <1>1, <1>5, PairTyped, Proceeds DEF Proceed
  <2>2. gate' \in GateType /\ gate'.disposition = "none" /\ gate'.refusal = "none" /\ gate'.screening = gate.screening
    BY <1>4, <1>5 DEF GateType
  <2>3. TypeOK'
    BY <1>1, <1>2, <1>3, <1>5, <2>2 DEF IInv, TypeOK, Proceed
  <2>4. RowInv'
    BY <1>1, <1>5, <2>2 DEF IInv, RowInv, Proceed
  <2>. QED BY <1>2, <1>3, <2>1, <2>3, <2>4 DEF IInv
<1>6. CASE Fails("infrastructure_failed")
  <2>. DEFINE ended == [gate EXCEPT !.outcome = "infrastructure_failed", !.disposition = "none"]
  <2>1. PICK g : g = ended
    OBVIOUS
  <2>2. /\ g \in GateType /\ g.disposition = "none" /\ g.screening = gate.screening
        /\ g.outcome = "infrastructure_failed" /\ g.refusal = "none" /\ EndPair(g)
    BY <1>4, <1>6, <2>1 DEF Fails, GateType, GateOutcomes
  <2>. QED BY <1>1, <1>2, <1>3, <2>2, PairEnds
<1>7. \/ Proceed(next) /\ \E f \in BOOLEAN : gate' = [gate EXCEPT !.failed = f]
      \/ Fails("infrastructure_failed")
  <2>1. gate.failed \in BOOLEAN /\ gate = [gate EXCEPT !.failed = gate.failed]
    BY <1>4 DEF GateType
  <2>2. (gate.failed \/ <<v, suite>> \in failed) \in BOOLEAN
    OBVIOUS
  <2>. QED BY <2>1, <2>2 DEF Evaluate
<1>. QED BY <1>5, <1>6, <1>7

\* What the steps that neither stage nor evaluate leave alone.
Still == UNCHANGED <<record, pairs, staged, results, failed, finished>>

LEMMA StillKeeps ==
  ASSUME IInv, Still
  PROVE  /\ RecordTells' /\ PairsInv' /\ EvaluationInv' /\ EvaluatedAsRecorded' /\ DOMAIN staged' = Version
         /\ pairs' \in Seq(PairType)
         /\ results' \in [Units -> {"none", "partial", "complete"}] /\ failed' \subseteq Keys
         /\ finished' \in [Keys -> Nat]
BY DEF Still, IInv, TypeOK, RecordTells, PairsInv, EvaluationInv, EvaluatedAsRecorded

\* A pair that ends with a line leaves the invariant.
LEMMA LineEnds ==
  ASSUME IInv, Still, pc \in Auditing, NEW g \in GateType, EndPair(g),
         NEW d \in {"keep", "revert"}, LogLine(d), g.disposition = d, g.refusal = "none"
  PROVE  IInv'
<1>1. PICK r : r = Row(g)
  OBVIOUS
<1>2. FollowsTheLog(r)'
  BY <1>1, LinedRow
<1>3. r.refusal # "open"
  BY <1>1 DEF Row
<1>4. /\ Position' /\ LogInv' /\ ReportFollowsTheGate'
      /\ report' \in [complete : BOOLEAN, rows : Seq(RowType)] /\ log' \in Seq(LogLineType)
      /\ at' \in Nat /\ gate' \in GateType /\ pc' = "next"
  BY <1>1, <1>2, <1>3, RowAdded DEF Still
<1>5. TypeOK' /\ RowInv'
  BY <1>4, StillKeeps DEF TypeOK, RowInv, Auditing, Confirming
<1>. QED BY <1>4, <1>5, StillKeeps DEF IInv

\* Without a line: EvaluationFailed and the refusals.
LEMMA RefusedEnds ==
  ASSUME IInv, Still, log' = log, pc \in {"screen", "confirm"},
         \/ Fails("evaluation_failed") \/ Refused("failure")
         \/ pc = "screen" /\ OpenVersions # {} /\ Refused("open")
  PROVE  IInv'
<1>1. gate \in GateType /\ gate.disposition = "none" /\ gate.refusal = "none"
  BY DEF IInv, TypeOK, RowInv, Auditing, Confirming
<1>2. \E g \in GateType :
        /\ EndPair(g) /\ g.disposition = "none" /\ g.screening = gate.screening
        /\ g.outcome \in {"evaluation_failed", "gate_refused"}
        /\ g.refusal = "open" => pc = "screen" /\ OpenVersions # {}
  <2>1. CASE Fails("evaluation_failed")
    <3>. DEFINE g == [gate EXCEPT !.outcome = "evaluation_failed", !.disposition = "none"]
    <3>1. g \in GateType /\ g.disposition = "none" /\ g.screening = gate.screening
          /\ g.outcome = "evaluation_failed" /\ g.refusal = "none"
      BY <1>1 DEF GateType, GateOutcomes
    <3>2. EndPair(g)
      BY <2>1 DEF Fails
    <3>. HIDE DEF g
    <3>. QED BY <3>1, <3>2
  <2>2. ASSUME NEW reason \in {"failure", "open"}, Refused(reason),
               reason = "open" => pc = "screen" /\ OpenVersions # {}
        PROVE  \E g \in GateType :
                 /\ EndPair(g) /\ g.disposition = "none" /\ g.screening = gate.screening
                 /\ g.outcome \in {"evaluation_failed", "gate_refused"}
                 /\ g.refusal = "open" => pc = "screen" /\ OpenVersions # {}
    <3>. DEFINE g == [gate EXCEPT !.outcome = "gate_refused", !.disposition = "none", !.refusal = reason]
    <3>1. g \in GateType /\ g.disposition = "none" /\ g.screening = gate.screening
          /\ g.outcome = "gate_refused" /\ g.refusal = reason
      BY <1>1 DEF GateType, GateOutcomes
    <3>2. EndPair(g)
      BY <2>2 DEF Refused
    <3>. HIDE DEF g
    <3>. QED BY <2>2, <3>1, <3>2
  <2>. QED BY <2>1, <2>2
<1>3. pc \in Auditing /\ UNCHANGED <<pairs, log>>
  BY DEF Still, Auditing, Confirming
<1>. QED BY <1>2, <1>3, StillKeeps, PairEnds

\* The screening reverts, opens a confirmation or is refused.
LEMMA ScreenStep ==
  ASSUME IInv, Screen
  PROVE  IInv'
<1>1. pc = "screen" /\ pc \in Auditing /\ pc \notin Confirming /\ Still /\ at \in DOMAIN pairs
  BY PairTyped DEF Screen, Still, Auditing, Confirming
<1>2. gate \in GateType /\ gate.disposition = "none" /\ gate.refusal = "none"
  BY <1>1 DEF IInv, TypeOK, RowInv
<1>3. ASSUME NEW outcome \in {"screening_below", "exploratory"}, LogLine("revert"),
             EndPair([gate EXCEPT !.outcome = outcome, !.disposition = "revert", !.screening = "revert"])
      PROVE  IInv'
  <2>1. PICK g : g = [gate EXCEPT !.outcome = outcome, !.disposition = "revert", !.screening = "revert"]
    OBVIOUS
  <2>2. g \in GateType /\ g.disposition = "revert" /\ g.refusal = "none" /\ EndPair(g)
    BY <1>2, <1>3, <2>1 DEF GateType, GateOutcomes
  <2>. QED BY <1>1, <1>3, <2>2, LineEnds
<1>4. ASSUME LogLine("provisional"), gate' = [gate EXCEPT !.screening = "provisional"], Proceed("suite_parent")
      PROVE  IInv'
  <2>. DEFINE c == Pair.candidate
  <2>1. /\ log \in Seq(LogLineType) /\ pairs \in Seq(PairType) /\ at \in Nat
        /\ log' = Append(log, [version |-> c, disposition |-> "provisional"])
        /\ c \in Version /\ c = pairs[at].candidate
        /\ pc' = "suite_parent" /\ pairs' = pairs /\ at' = at /\ report' = report
    BY <1>1, <1>4, PairTyped DEF IInv, TypeOK, LogLine, Proceed, Still, Pair
  <2>2. log' \in Seq(LogLineType) /\ c \in OpenVersions'
    <3>. HIDE DEF c
    <3>1. [version |-> c, disposition |-> "provisional"] \in LogLineType
      BY <2>1 DEF LogLineType
    <3>. QED BY <2>1, <3>1, LineAdded
  <2>3. LogInv'
    <3>1. Reached = at - 1 /\ Reached' = at /\ pc' \in Confirming /\ Pair' = Pair
      BY <1>1, <2>1 DEF Reached, Confirming, Pair
    <3>2. ASSUME NEW i \in DOMAIN log' PROVE \E k \in DOMAIN pairs : k <= at /\ log'[i].version = pairs[k].candidate
      <4>1. CASE i \in DOMAIN log
        <5>1. PICK k \in DOMAIN pairs : k <= Reached /\ log[i].version = pairs[k].candidate
          BY <4>1 DEF IInv, LogInv
        <5>2. log'[i] = log[i] /\ k <= at
          BY <2>1, <3>1, <4>1, <5>1
        <5>. QED BY <5>1, <5>2
      <4>2. CASE i \notin DOMAIN log
        <5>. HIDE DEF c
        <5>1. log'[i].version = c
          BY <2>1, <4>2
        <5>. QED BY <1>1, <2>1, <5>1
      <4>. QED BY <4>1, <4>2
    <3>. QED BY <2>1, <2>2, <3>1, <3>2 DEF LogInv
  <2>4. Position'
    BY <1>1, <2>1 DEF IInv, Position, Auditing, Confirming
  <2>5. ReportFollowsTheGate'
    <3>1. ASSUME NEW k \in DOMAIN report.rows PROVE FollowsTheLog(report.rows[k])'
      <4>1. PICK row : row = report.rows[k]
        OBVIOUS
      <4>2. FollowsTheLog(row)'
        BY <1>1, <1>4, <4>1, RowsStay
      <4>. QED BY <2>1, <4>1, <4>2 DEF FollowsTheLog
    <3>. QED BY <2>1, <3>1 DEF IInv, ReportFollowsTheGate
  <2>6. TypeOK' /\ RowInv'
    <3>1. gate' \in GateType /\ gate'.disposition = "none" /\ gate'.refusal = "none" /\ gate'.screening = "provisional"
      BY <1>2, <1>4 DEF GateType
    <3>. QED BY <2>1, <2>2, <3>1, StillKeeps, <1>1 DEF IInv, TypeOK, RowInv, Auditing, Confirming
  <2>. QED BY <1>1, <2>3, <2>4, <2>5, <2>6, StillKeeps DEF IInv
<1>5. ASSUME log' = log, (OpenVersions # {} /\ Refused("open")) \/ Refused("failure") PROVE IInv'
  BY <1>1, <1>5, RefusedEnds
<1>. QED BY <1>3, <1>4, <1>5 DEF Screen

\* The confirmation decides or is refused.
LEMMA ConfirmStep ==
  ASSUME IInv, Confirm
  PROVE  IInv'
<1>1. pc = "confirm" /\ pc \in Auditing /\ Still
  BY DEF Confirm, Still, Auditing, Confirming
<1>2. gate \in GateType /\ gate.disposition = "none" /\ gate.refusal = "none"
  BY <1>1 DEF IInv, TypeOK, RowInv
<1>3. ASSUME NEW d \in {"keep", "revert"}, LogLine(d),
             EndPair([gate EXCEPT !.outcome = IF d = "keep" THEN "confirmed_keep" ELSE "confirmed_revert",
                                  !.disposition = Confirmed(d)])
      PROVE  IInv'
  <2>1. PICK g : g = [gate EXCEPT !.outcome = IF d = "keep" THEN "confirmed_keep" ELSE "confirmed_revert",
                                  !.disposition = Confirmed(d)]
    OBVIOUS
  <2>2. g \in GateType /\ g.disposition = d /\ g.refusal = "none" /\ EndPair(g)
    BY <1>2, <1>3, <2>1 DEF GateType, GateOutcomes, Confirmed
  <2>. QED BY <1>1, <1>3, <2>2, LineEnds
<1>4. ASSUME log' = log, Refused("failure") PROVE IInv'
  BY <1>1, <1>4, RefusedEnds
<1>. QED BY <1>3, <1>4 DEF Confirm

\* The steps that neither measure nor answer.
LEMMA OtherSteps ==
  ASSUME IInv, VerifyRecord \/ NextPair \/ Restore \/ Finish \/ Kill \/ Damage \/ UNCHANGED vars
  PROVE  IInv'
<1>1. CASE VerifyRecord
  <2>1. /\ pc = "verify" /\ at = 0 /\ log = <<>> /\ report.rows = <<>> /\ pairs = <<>> /\ ~report.complete
        /\ UNCHANGED <<record, staged, results, failed, finished, log, gate, report>>
    BY <1>1 DEF VerifyRecord, workdir, IInv, Position, Auditing
  <2>2. RecordTells' /\ EvaluationInv' /\ EvaluatedAsRecorded'
    BY <2>1 DEF IInv, RecordTells, EvaluationInv, EvaluatedAsRecorded
  <2>3. CASE Errors(record, job) = {}
    <3>1. at' = 1 /\ pc' = "next" /\ pairs' = PairsOf(record)
      BY <1>1, <2>3 DEF VerifyRecord
    <3>2. pairs' \in Seq(PairType) /\ PairsInv'
      BY <2>3, <3>1, PairsOfARecord DEF IInv, PairsInv
    <3>3. Len(pairs') \in Nat
      BY <3>2
    <3>4. Position' /\ LogInv' /\ ReportFollowsTheGate'
      BY <2>1, <3>1, <3>3 DEF Position, LogInv, ReportFollowsTheGate, Auditing, Confirming
    <3>5. TypeOK' /\ RowInv'
      BY <2>1, <3>1, <3>2 DEF IInv, TypeOK, RowInv, Auditing, Confirming
    <3>. QED BY <2>2, <3>2, <3>4, <3>5 DEF IInv
  <2>4. CASE Errors(record, job) # {}
    <3>1. at' = at /\ pc' = "refused" /\ pairs' = pairs
      BY <1>1, <2>4 DEF VerifyRecord
    <3>2. PairsInv' /\ Position' /\ LogInv' /\ ReportFollowsTheGate'
      BY <2>1, <3>1 DEF PairsInv, Position, LogInv, ReportFollowsTheGate, Auditing, Confirming
    <3>3. TypeOK' /\ RowInv'
      BY <2>1, <3>1 DEF IInv, TypeOK, RowInv, Auditing, Confirming, Ended
    <3>. QED BY <2>2, <3>2, <3>3 DEF IInv
  <2>. QED BY <2>3, <2>4
<1>2. CASE NextPair
  <2>1. /\ pc = "next" /\ at \in DOMAIN pairs /\ gate' = EmptyGate /\ pc' = "stage_parent"
        /\ UNCHANGED <<pairs, at, log, report>> /\ Still
    BY <1>2 DEF NextPair, workdir, Still
  <2>2. Position' /\ LogInv' /\ ReportFollowsTheGate'
    BY <2>1, Proceeds DEF Auditing, Confirming
  <2>3. TypeOK' /\ RowInv'
    BY <2>1, StillKeeps DEF IInv, TypeOK, RowInv, EmptyGate, GateType, GateOutcomes, Auditing, Confirming
  <2>. QED BY <2>1, <2>2, <2>3, StillKeeps DEF IInv
<1>3. CASE Restore
  <2>1. /\ pc = "restore" /\ pc' = "visible_parent" /\ gate' = gate
        /\ UNCHANGED <<pairs, at, log, report>> /\ Still
    BY <1>3 DEF Restore, Proceed, Still
  <2>2. pc \in Auditing /\ pc' \in Auditing /\ pc \notin Confirming /\ pc' \notin Confirming
    BY <2>1 DEF Auditing, Confirming
  <2>3. Position' /\ LogInv' /\ ReportFollowsTheGate'
    BY <2>1, <2>2, PairTyped, Proceeds
  <2>4. TypeOK' /\ RowInv'
    BY <2>1, <2>2, StillKeeps DEF IInv, TypeOK, RowInv
  <2>. QED BY <2>1, <2>3, <2>4, StillKeeps DEF IInv
<1>4. CASE Finish
  <2>1. /\ pc = "next" /\ at \notin DOMAIN pairs /\ pc' = "ended"
        /\ report' = [report EXCEPT !.complete = TRUE]
        /\ UNCHANGED <<pairs, at, log, gate>> /\ Still
    BY <1>4 DEF Finish, workdir, Still
  <2>2. /\ at # 0 /\ at \in Nat /\ pairs \in Seq(PairType) /\ at <= Len(pairs) + 1
        /\ Len(report.rows) = at - 1
        /\ report \in [complete : BOOLEAN, rows : Seq(RowType)]
    BY <2>1 DEF IInv, TypeOK, Position
  <2>3. at = Len(pairs) + 1
    BY <2>1, <2>2
  <2>4. report' \in [complete : BOOLEAN, rows : Seq(RowType)] /\ report'.rows = report.rows
    BY <2>1, <2>2
  <2>5. Reached' = Reached /\ OpenVersions' = OpenVersions
    BY <2>1 DEF Reached, OpenVersions, Confirming
  <2>6. Position' /\ LogInv'
    BY <2>1, <2>2, <2>3, <2>4, <2>5 DEF IInv, Position, LogInv, Auditing, Confirming
  <2>7. ReportFollowsTheGate'
    BY <2>1, <2>2, <2>3, <2>4, ReportStays
  <2>8. TypeOK' /\ RowInv'
    BY <2>1, <2>4, StillKeeps DEF IInv, TypeOK, RowInv, Auditing, Confirming, Ended
  <2>. QED BY <2>1, <2>6, <2>7, <2>8, StillKeeps DEF IInv
<1>5. CASE Kill
  <2>1. pc \notin Ended /\ pc' = "killed" /\ UNCHANGED <<pairs, at, log, gate, report>> /\ Still
    BY <1>5 DEF Kill, workdir, Still
  <2>2. /\ at \in Nat /\ pairs \in Seq(PairType) /\ ~report.complete
    BY <2>1 DEF IInv, TypeOK, Position, Ended
  <2>3. Position'
    BY <2>1, <2>2 DEF IInv, Position, Auditing, Confirming
  <2>4. LogInv'
    <3>1. Reached' = at /\ Reached \in Int /\ Reached <= at /\ pc' \notin Confirming
      BY <2>1, <2>2 DEF Reached, Confirming
    <3>2. ASSUME NEW i \in DOMAIN log PROVE \E k \in DOMAIN pairs : k <= at /\ log[i].version = pairs[k].candidate
      <4>1. PICK k \in DOMAIN pairs : k <= Reached /\ log[i].version = pairs[k].candidate
        BY DEF IInv, LogInv
      <4>2. k <= at
        BY <2>2, <3>1, <4>1
      <4>. QED BY <4>1, <4>2
    <3>. QED BY <2>1, <3>1, <3>2 DEF LogInv
  <2>5. ReportFollowsTheGate'
    BY <2>1, <2>2, ReportStays
  <2>6. TypeOK' /\ RowInv'
    BY <2>1, StillKeeps DEF IInv, TypeOK, RowInv, Auditing, Confirming, Ended
  <2>. QED BY <2>1, <2>3, <2>4, <2>5, <2>6, StillKeeps DEF IInv
<1>6. CASE Damage \/ UNCHANGED vars
  <2>1. UNCHANGED <<pairs, at, pc, log, gate, report>> /\ Still
    BY <1>6 DEF Damage, vars, workdir, Still
  <2>2. TypeOK' /\ Position' /\ RowInv'
    BY <2>1, StillKeeps DEF IInv, TypeOK, Position, RowInv
  <2>3. OpenVersions' = OpenVersions /\ ReportFollowsTheGate'
    BY <2>1, ReportStays DEF IInv, ReportFollowsTheGate
  <2>4. LogInv'
    BY <2>1, <2>3 DEF IInv, LogInv, Reached, Pair
  <2>. QED BY <2>1, <2>2, <2>3, <2>4, StillKeeps DEF IInv
<1>. QED BY <1>1, <1>2, <1>3, <1>4, <1>5, <1>6

\* The evaluations of a stage are kept in the units that UnitOf names.
LEMMA EvaluateSteps ==
  ASSUME IInv, VisibleParent \/ VisibleCandidate \/ SuiteParent \/ SuiteCandidate
  PROVE  IInv'
<1>1. pc \in Auditing
  BY DEF VisibleParent, VisibleCandidate, SuiteParent, SuiteCandidate, Evaluate, Auditing, Confirming
<1>2. /\ Pair.parent # Pair.candidate /\ Pair.parent \in Version /\ Pair.candidate \in Version
      /\ None \notin Version
  BY <1>1, PairTyped, DecisionLinesAssumption
<1>3. PICK p \in Version, c \in Version : p = Pair.parent /\ c = Pair.candidate
  BY <1>2
<1>4. /\ UnitOf(<<p, None>>) = <<p, "visible">> /\ UnitOf(<<c, None>>) = <<c, "visible">>
      /\ UnitOf(<<p, c>>) = <<c, "parent">> /\ UnitOf(<<c, c>>) = <<c, "candidate">>
  BY <1>2, <1>3 DEF UnitOf
<1>5. CASE VisibleParent
  <2>1. Evaluate(p, None, UnitOf(<<p, None>>), "visible_parent", "visible_candidate")
    BY <1>3, <1>4, <1>5 DEF VisibleParent
  <2>. QED BY <2>1, EvaluateStep
<1>6. CASE VisibleCandidate
  <2>1. Evaluate(c, None, UnitOf(<<c, None>>), "visible_candidate", "screen")
    BY <1>3, <1>4, <1>6 DEF VisibleCandidate
  <2>. QED BY <2>1, EvaluateStep
<1>7. CASE SuiteParent
  <2>1. Evaluate(p, c, UnitOf(<<p, c>>), "suite_parent", "suite_candidate")
    BY <1>3, <1>4, <1>7 DEF SuiteParent
  <2>. QED BY <2>1, EvaluateStep
<1>8. CASE SuiteCandidate
  <2>1. Evaluate(c, c, UnitOf(<<c, c>>), "suite_candidate", "confirm")
    BY <1>3, <1>4, <1>8 DEF SuiteCandidate
  <2>. QED BY <2>1, EvaluateStep
<1>. QED BY <1>5, <1>6, <1>7, <1>8

-----------------------------------------------------------------------------
(* The theorems.                                                           *)

\* The invariant holds of the audit: of the record's pairs, of how far the log
\* and the report have come, and of what has been evaluated.
THEOREM Invariance == Spec => []IInv
<1>1. Init => IInv
  <2>. SUFFICES ASSUME Init PROVE IInv
    OBVIOUS
  <2>1. RecordTells
    BY RecordOfAJob
  <2>2. TypeOK
    BY DEF Init, TypeOK, EmptyGate, GateType, GateOutcomes
  <2>3. PairsInv /\ Position /\ LogInv /\ RowInv
    BY DEF Init, PairsInv, Position, LogInv, RowInv, Auditing, Confirming
  <2>4. EvaluationInv
    BY DEF Init, EvaluationInv
  <2>5. EvaluatedAsRecorded
    BY <2>1 DEF Init, RecordTells, EvaluatedAsRecorded
  <2>6. ReportFollowsTheGate
    BY DEF Init, ReportFollowsTheGate
  <2>. QED BY <2>1, <2>2, <2>3, <2>4, <2>5, <2>6 DEF IInv
<1>2. IInv /\ [Next]_vars => IInv'
  <2>. SUFFICES ASSUME IInv, [Next]_vars PROVE IInv'
    OBVIOUS
  <2>1. CASE StageParent \/ StageCandidate
    <3>1. pc \in Auditing
      BY <2>1 DEF StageParent, StageCandidate, Stage, Auditing
    <3>2. PICK p \in Version, c \in Version : p = Pair.parent /\ c = Pair.candidate
      BY <3>1, PairTyped
    <3>3. Stage(p, "stage_parent", "stage_candidate") \/ Stage(c, "stage_candidate", "restore")
      BY <2>1, <3>2 DEF StageParent, StageCandidate
    <3>. QED BY <3>3, StageStep
  <2>2. CASE EvaluationFailed
    <3>1. Still /\ log' = log /\ pc \in {"screen", "confirm"} /\ Fails("evaluation_failed")
      BY <2>2 DEF EvaluationFailed, workdir, Still
    <3>. QED BY <3>1, RefusedEnds
  <2>. QED BY <2>1, <2>2, EvaluateSteps, ScreenStep, ConfirmStep, OtherSteps DEF Next, Done
<1>. QED BY <1>1, <1>2, PTL DEF Spec

\* A version is evaluated on a suite once: what a pair finds known is what an
\* earlier evaluation of the same version on the same suite told.
THEOREM Once == Spec => []EvaluatedOnce
<1>1. IInv => EvaluatedOnce
  BY DEF IInv, EvaluationInv, EvaluatedOnce
<1>. QED BY <1>1, Invariance, PTL

\* What is evaluated under a version is the tree the record names for it,
\* whatever becomes of the job directory meanwhile.
THEOREM StagedAsRecorded == Spec => []EvaluatedAsRecorded
<1>1. IInv => EvaluatedAsRecorded
  BY DEF IInv
<1>. QED BY <1>1, Invariance, PTL

\* The report follows the log: a row has its candidate's last disposition or
\* says which stage was left, and a pair is refused for another's open decision
\* only after one was left open.
THEOREM ReportFollows == Spec => []ReportFollowsTheGate
<1>1. IInv => ReportFollowsTheGate
  BY DEF IInv
<1>. QED BY <1>1, Invariance, PTL
=============================================================================
