------------------------------- MODULE Record -------------------------------
(***************************************************************************)
(* A rollout leaves its job directory, the producer builds a record of it, *)
(* and the verifier checks the record against the directory, which may     *)
(* have been kept by hand or altered since; so may the record.             *)
(*                                                                         *)
(* The rollout is given here by what the helper and the gate leave behind, *)
(* a version at a time; how they come to leave it is the subject of        *)
(* Instrument and Gate.                                                    *)
(***************************************************************************)
EXTENDS Capsule

CONSTANTS
  Scores,       \* the scores a measurement may have
  Budget        \* bound: for each mode and number of snapshots a rollout may hold, how
                \* many alterations there may be

VARIABLES
  mode,         \* "gated", "replay" or, when the gate was never called, "none"
  job,          \* the job directory
  record,       \* the record, or None
  phase,        \* "rollout", "handed", "recorded", "refused", "verified"
  altered,      \* how many times the directory was altered by hand
  reworded,     \* whether the record was
  verdict       \* what the verifier reported

vars == <<mode, job, record, phase, altered, reworded, verdict>>

Modes == {"gated", "replay", "none"}
Unverified == [errors |-> {}, complete |-> FALSE]
EmptyJob ==
  [versions |-> [v \in Version |-> None], stray |-> FALSE, log |-> <<>>, decisions |-> None,
   results |-> [p \in Places |-> None], main |-> None, reward |-> "low"]

Init ==
  /\ mode \in Modes
  /\ job = EmptyJob
  /\ record = None
  /\ phase = "rollout"
  /\ altered = 0
  /\ reworded = FALSE
  /\ verdict = Unverified

-----------------------------------------------------------------------------
(* The rollout.                                                            *)

\* Suites are told apart by what they were derived from.
SuiteNo(n) == [of |-> None, look |-> n, size |-> 0]
VisibleSuite == SuiteNo(0)

\* What evaluate_suite leaves of a policy on a suite.
Measurement(policy, suite, score) ==
  LET result == [of |-> policy, suite |-> suite, score |-> score]
  IN  [result |-> result,
       receipt |-> [result |-> result, of |-> policy, suite |-> suite, profile |-> "profile"]]

\* A decision line on the results at two places: build_line.
EvidenceAt(results, places, gated) ==
  [r \in RoleSet |-> [at |-> places[r], result |-> results[places[r]].result,
                      receipt |-> IF gated THEN results[places[r]].receipt ELSE None]]
EstimateOf(evidence) == evidence["candidate"].result.score - evidence["parent"].result.score
NewLine(j, v, parent, places, gated) ==
  LET evidence == EvidenceAt(j.results, places, gated)
      number == IF j.decisions = None THEN 1 ELSE Len(j.decisions) + 1
      tree(w) == IF gated THEN MethodView(j.versions[w]) ELSE None
  IN  [num |-> number, unit |-> "unit", version |-> v, parent |-> parent, replicates |-> None,
       estimate |-> EstimateOf(evidence), verdict |-> GateVerdict(EstimateOf(evidence)),
       disposition |-> "revert", sample |-> 2, profile |-> IF gated THEN "profile" ELSE None,
       plan |-> None, suite |-> None, look |-> None,
       parentTree |-> tree(parent), tree |-> tree(v), evidence |-> evidence]

\* The confirmation a screening plans, under the gate.
Planned(line, plan, look) ==
  IF plan.exploratory THEN [line EXCEPT !.plan = plan, !.disposition = "revert"]
  ELSE [line EXCEPT !.plan = plan, !.look = look,
                    !.suite = [of |-> line.tree, look |-> look, size |-> plan.size]]

Plans == {[size |-> 2, planned |-> 2, exploratory |-> FALSE],
          [size |-> 1, planned |-> 2, exploratory |-> TRUE]}
Looks(j) == 1 + (IF j.decisions = None THEN 0
                 ELSE Cardinality({i \in DOMAIN j.decisions : ~Screening(j.decisions[i])}))
VisiblePlaces(v, parent) == [r \in RoleSet |-> <<IF r = "parent" THEN parent ELSE v, "visible">>]

ScreeningLines(j, v, parent) ==
  LET gated == mode = "gated"
      line == NewLine(j, v, parent, VisiblePlaces(v, parent), gated)
      screened == [line EXCEPT !.disposition = GateScreens(line.verdict, gated)]
  IN  IF screened.disposition = "provisional" /\ gated
      THEN {Planned(screened, plan, Looks(j)) : plan \in Plans}
      ELSE {screened}

\* The block of a version says what was decided, in its status and in the word
\* its declaration ends with.
Says(block, disposition) ==
  CASE disposition = "keep" -> [block EXCEPT !.status = "kept", !.closing = "keep"]
    [] disposition = "revert" -> [block EXCEPT !.status = "reverted", !.closing = "revert"]
    [] OTHER -> block
NewBlock(v, parent, score) ==
  [version |-> v, parent |-> parent, status |-> "none", closing |-> "none", score |-> score]

Undecided(j) == \E i \in DOMAIN j.log : j.log[i].status = "none"
NextVersion(j) == Cardinality(Snapshots(j))
MayTry(j) == Snapshots(j) # {} /\ ~Undecided(j) /\ NextVersion(j) + 1 \in DOMAIN Budget[mode]
Standing(j) == {v \in Snapshots(j) : BlockOf(j.log, v).status \in {"baseline", "kept"}}

\* The block just written says it; the log of decisions starts with the first.
LastSays(log, disposition) == [log EXCEPT ![Len(log)] = Says(@, disposition)]
WithLine(decisions, line) == IF decisions = None THEN <<line>> ELSE Append(decisions, line)

\* A snapshot with its visible result and its block.
WithVersion(j, v, policy, score, block) ==
  [j EXCEPT !.versions[v] = Clean(policy), !.log = Append(@, block),
            !.results[<<v, "visible">>] = Measurement(policy, VisibleSuite, score)]

Inherit ==
  /\ phase = "rollout" /\ Snapshots(job) = {}
  /\ \E policy \in Policy \ Oversized, score \in Scores :
       job' = WithVersion(job, 0, policy, score, [NewBlock(0, None, score) EXCEPT !.status = "baseline"])
  /\ UNCHANGED <<mode, record, phase, altered, reworded, verdict>>

\* What the agent may decide by itself: under the gate, only to give a candidate
\* up that the gate was not asked about.
AgentMay == IF mode = "none" THEN {"keep", "revert"} ELSE {"revert"}

\* A candidate that the agent decides by itself.
Try ==
  /\ phase = "rollout" /\ MayTry(job)
  /\ \E parent \in Standing(job), policy \in Policy \ Oversized, disposition \in AgentMay :
       LET v == NextVersion(job)
       IN  job' = WithVersion(job, v, policy, 0, Says(NewBlock(v, parent, 0), disposition))
  /\ UNCHANGED <<mode, record, phase, altered, reworded, verdict>>

\* A candidate and the gate's screening of it.
Screen ==
  /\ phase = "rollout" /\ mode # "none" /\ MayTry(job)
  /\ \E parent \in Standing(job), policy \in Policy \ Oversized, score \in Scores :
       LET v == NextVersion(job)
           measured == WithVersion(job, v, policy, score, NewBlock(v, parent, score))
       IN  \E line \in ScreeningLines(measured, v, parent) :
             job' = [measured EXCEPT !.decisions = WithLine(@, line), !.log = LastSays(@, line.disposition)]
  /\ UNCHANGED <<mode, record, phase, altered, reworded, verdict>>

\* The confirmation of the candidate whose decision is open.
ConfirmationLine(j, open) ==
  LET places == [r \in RoleSet |-> <<open.version, r>>]
      line == NewLine(j, open.version, open.parent, places, Gated(open))
  IN  [line EXCEPT !.replicates = open.version, !.disposition = GateConfirms(line.verdict),
                   !.plan = open.plan, !.suite = open.suite, !.look = open.look]
Confirm ==
  /\ phase = "rollout" /\ mode # "none" /\ Undecided(job)
  /\ \E score \in Scores :
       LET open == Last(job.decisions)
           suite == IF Gated(open) THEN open.suite ELSE SuiteNo(1)
           measured ==
             [job EXCEPT
               !.results[<<open.version, "parent">>] =
                 Measurement(MethodView(job.versions[open.parent]), suite, 0),
               !.results[<<open.version, "candidate">>] =
                 Measurement(MethodView(job.versions[open.version]), suite, score)]
           line == ConfirmationLine(measured, open)
       IN  job' = [measured EXCEPT !.decisions = WithLine(@, line), !.log = LastSays(@, line.disposition)]
  /\ UNCHANGED <<mode, record, phase, altered, reworded, verdict>>

\* main/ is a version that stands, with the caches its run has left.
HandIn ==
  /\ phase = "rollout"
  /\ \E v \in Standing(job) :
       job' = [job EXCEPT !.main = [Clean(MethodView(job.versions[v])) EXCEPT !.caches = TRUE]]
  /\ phase' = "handed"
  /\ UNCHANGED <<mode, record, altered, reworded, verdict>>

-----------------------------------------------------------------------------
(* Alterations: what a directory kept by hand, or damaged, may differ in.  *)

\* f with its value at one of the keys replaced by one of Values(key).
OneOf(f, keys, Values(_)) == UNION {{[f EXCEPT ![k] = x] : x \in Values(k) \ {f[k]}} : k \in keys}

AlteredTrees(tree) ==
  {None} \cup {Clean(policy) : policy \in Policy}
  \cup {[t EXCEPT ![f] = TRUE] : t \in {tree} \ {None}, f \in {"caches", "notes", "link"}}

BlockValues(f) ==
  CASE f = "parent" -> Version \cup {None}
    [] f = "status" -> Statuses
    [] f = "closing" -> {"none", "keep", "revert"}
    [] f = "score" -> Scores \cup {None}
AlteredLogs(log) ==
  OneOf(log, DOMAIN log, LAMBDA i : OneOf(log[i], {"parent", "status", "closing", "score"}, BlockValues))
  \cup (IF log = <<>> THEN {}
        ELSE {Front(log)} \cup {Append(log, b) : b \in OneOf(Last(log), {"status"}, BlockValues)})

LineValues(f) ==
  CASE f = "num" -> {1, 9}
    [] f = "unit" -> {"other"}
    [] f \in {"version", "parent"} -> Version
    [] f = "replicates" -> Version \cup {None}
    [] f = "estimate" -> {a - b : a, b \in Scores} \cup {-1}
    [] f = "verdict" -> {"clears", "below", "inconclusive"}
    [] f = "disposition" -> {"keep", "revert", "provisional"}
    [] f = "sample" -> {1, 3}
    [] f = "profile" -> {None, "other"}
    [] f = "plan" -> Plans \cup {None}
    [] f \in {"suite", "look", "tree"} -> {None}
AlteredLines(l) == OneOf(l, DOMAIN l \ {"parentTree", "evidence"}, LineValues)
Renumbered(log) == [i \in DOMAIN log |-> [log[i] EXCEPT !.num = i]]
AlteredDecisions(log) ==
  {None, <<>>}
  \cup OneOf(log, DOMAIN log, LAMBDA i : AlteredLines(log[i]))
  \cup {Renumbered(RemoveAt(log, i)) : i \in DOMAIN log}
  \cup {Renumbered(Append(log, log[i])) : i \in DOMAIN log}

AlteredResults(m) ==
  {None, [m EXCEPT !.receipt = None]}
  \cup {[m EXCEPT !.receipt = [rc EXCEPT !.suite = SuiteNo(2)]] : rc \in {m.receipt} \ {None}}
  \cup {[m EXCEPT !.result = [@ EXCEPT !.score = x]] : x \in Scores}

\* The directories that differ from j in one such place.
Altered(j) ==
  {[j EXCEPT !.stray = TRUE]}
  \cup {[j EXCEPT !.versions = f] : f \in OneOf(j.versions, Snapshots(j), LAMBDA v : AlteredTrees(j.versions[v]))}
  \cup {[j EXCEPT !.versions[v] = Clean(p)] : v \in Version \ Snapshots(j), p \in Policy}
  \cup {[j EXCEPT !.main = t] : t \in AlteredTrees(j.main)}
  \cup {[j EXCEPT !.log = log] : log \in AlteredLogs(j.log)}
  \cup (IF j.decisions = None THEN {}
        ELSE {[j EXCEPT !.decisions = log] : log \in AlteredDecisions(j.decisions)})
  \cup (UNION {{[j EXCEPT !.results[p] = m] : m \in AlteredResults(j.results[p])} :
                 p \in {p \in Places : j.results[p] # None}})
  \cup {[j EXCEPT !.reward = x] : x \in {"high", "absent", "text"}}

\* A record that differs in one field.
EntryValues(f) ==
  CASE f = "line" -> {1, 2}
    [] f = "resolves" -> {0, 1, 2}
    [] f = "kind" -> {"screening", "confirmation"}
AlteredEntries(e) ==
  OneOf(e, {"line", "resolves", "kind"}, EntryValues)
  \cup {[e EXCEPT !.body = l] : l \in OneOf(e.body, {"verdict", "disposition", "estimate"}, LineValues)}
AlteredVersions(rv) ==
  {[rv EXCEPT !.status = s] : s \in Statuses \cup {"provisional"}}
  \cup {[rv EXCEPT !.parents = {}], [rv EXCEPT !.decisions = <<>>]}
  \cup {[rv EXCEPT !.decisions = d] :
          d \in OneOf(rv.decisions, DOMAIN rv.decisions, LAMBDA k : AlteredEntries(rv.decisions[k]))}
AlteredRecords(r) ==
  {[r EXCEPT !.versions = f] : f \in OneOf(r.versions, RecordedVersions(r), LAMBDA v : AlteredVersions(r.versions[v]))}
  \cup {[r EXCEPT !.versions = [w \in RecordedVersions(r) \ {v} |-> r.versions[w]]] : v \in RecordedVersions(r)}
  \cup {[r EXCEPT !.final.class = <<v>>] : v \in Version}
  \cup {[r EXCEPT !.final.version = v] : v \in Version}
  \cup {[r EXCEPT !.reward = "high"]}

MayAlter ==
  LET alterations == altered + (IF reworded THEN 1 ELSE 0)
  IN  \E n \in DOMAIN Budget[mode] : n = Cardinality(Snapshots(job)) /\ alterations < Budget[mode][n]

Alter ==
  /\ phase \in {"handed", "recorded"} /\ MayAlter
  /\ job' \in Altered(job)
  /\ altered' = altered + 1
  /\ UNCHANGED <<mode, record, phase, reworded, verdict>>

Reword ==
  /\ phase = "recorded" /\ MayAlter
  /\ record' \in AlteredRecords(record)
  /\ reworded' = TRUE
  /\ UNCHANGED <<mode, job, phase, altered, verdict>>

-----------------------------------------------------------------------------
(* The producer and the verifier.                                          *)

Build ==
  /\ phase = "handed"
  /\ IF ProducerRefuses(job)
     THEN phase' = "refused" /\ UNCHANGED record
     ELSE phase' = "recorded" /\ record' = Produced(job)
  /\ UNCHANGED <<mode, job, altered, reworded, verdict>>

Verify ==
  /\ phase = "recorded"
  /\ verdict' = Verdict(record, job)
  /\ phase' = "verified"
  /\ UNCHANGED <<mode, job, record, altered, reworded>>

\* The record is written once.
Done == phase \in {"refused", "verified"} /\ UNCHANGED vars

Next ==
  \/ Inherit \/ Try \/ Screen \/ Confirm \/ HandIn
  \/ Alter \/ Reword
  \/ Build \/ Verify \/ Done

Spec == Init /\ [][Next]_vars

-----------------------------------------------------------------------------
(* Properties.                                                             *)

\* An accepted record: no error; a covered one: the verifier's coverage is
\* complete.
Accepted == phase = "verified" /\ verdict.errors = {}
Covered == Accepted /\ verdict.complete
Untouched == altered = 0 /\ ~reworded

\* What a rollout under the protocol leaves, the producer records and the
\* verifier accepts, whole, unless a decision was left open; except that when
\* versions share main/'s method tree the first of them is held responsible
\* for being handed in.
BlamedOnTheClass ==
  {"protocol:kept_against_verdict", "decision:missing_for_kept_version"}
HonestRolloutsVerify ==
  /\ phase = "refused" /\ altered = 0 => Undecided(job)
  /\ phase = "verified" /\ Untouched =>
       /\ verdict.complete
       /\ verdict.errors \subseteq BlamedOnTheClass
       /\ verdict.errors # {} => Len(record.final.class) > 1

\* A record that is as it was produced and that the verifier accepts and finds
\* complete is the one the producer would write of the directory as it is now,
\* and the results its decisions rest on are what they were: nothing that the
\* record rests on changes unnoticed, but a decision log or a stray directory
\* that was not there.
AcceptedRebuilds ==
  Covered /\ ~reworded =>
    LET now == [job EXCEPT !.stray = FALSE, !.decisions = IF record.decisionLog = None THEN None ELSE @]
    IN  /\ ~ProducerRefuses(now)
        /\ Produced(now) = record
        /\ \A e \in AllEntries(record), r \in RoleSet :
             LET at == job.results[e.body.evidence[r].at]
             IN  at # None /\ at.result = e.body.evidence[r].result

\* Whatever a record claims, if the verifier accepts it, it carries each line
\* of the log once, under its version, resolving what it resolved, and every
\* line follows from the results on disk by the gate's own rule.
FollowsFromResults(l) ==
  LET score(r) == job.results[l.evidence[r].at].result.score
      estimate == score("candidate") - score("parent")
      gated == Gated(l)
  IN  /\ l.estimate = estimate
      /\ l.verdict = GateVerdict(estimate)
      /\ l.disposition = IF ~Screening(l) THEN GateConfirms(l.verdict)
                         ELSE IF Exploratory(l) THEN "revert" ELSE GateScreens(l.verdict, gated)
AcceptedDecisionsFollow ==
  Accepted /\ record.decisionLog # None =>
    /\ \A v \in RecordedVersions(record) : record.versions[v].decisions = EntriesOf(job.decisions, v)
    /\ \A i \in DOMAIN job.decisions : FollowsFromResults(job.decisions[i])

\* Whatever a record claims, if it is accepted, its class is every snapshot it
\* lists that main/ is, its submission and every version it calls kept was
\* kept by the gate, and under a profile by a confirmation.
SubmissionStands ==
  Accepted =>
    /\ ToSet(record.final.class) = Matches(job) \cap RecordedVersions(record)
    /\ verdict.complete => ToSet(record.final.class) = Matches(job)
    /\ AllEntries(record) # {} =>
         \A v \in RecordedVersions(record) :
           record.versions[v].parents # {} /\ record.versions[v].status \in {"kept", "submitted"} =>
             /\ record.versions[v].decisions # <<>>
             /\ LET last == Last(record.versions[v].decisions)
                IN  /\ last.body.disposition = "keep"
                    /\ Gated(last.body) => last.kind = "confirmation"

\* The readers agree: the converter accepts what the gate wrote; a log that it
\* accepts, however it came about, is one the producer reads and whose
\* decisions the verifier finds consistent, except for a unit that changes and
\* for the size of a confirmation; and the last event of a version says what
\* its status says.
ReadersAgree ==
  job.decisions # None =>
    LET log == job.decisions
        all == {Entry(log, i) : i \in DOMAIN log}
        decided == {log[i].version : i \in DOMAIN log}
    IN  /\ altered = 0 => Converts(log)
        /\ Converts(log) =>
             /\ (\A i \in DOMAIN log : log[i].unit = log[1].unit) => ProducerReads(log)
             /\ RuleErrors(all) \subseteq {"protocol:replication_reduction"}
             /\ \A v \in decided :
                  LET entries == EntriesOf(log, v) IN
                  /\ \A k \in DOMAIN entries : EntryErrors(v, entries, k) = {}
                  /\ EventOf(log, Last(entries).line) =
                       [kept |-> "accepted", reverted |-> "rejected", provisional |-> "proposed"][DecidedStatus(entries)]
=============================================================================
