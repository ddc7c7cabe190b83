------------------------------ MODULE RecordInv ------------------------------
(***************************************************************************)
(* The invariant of Record: what a job directory and a record are made of, *)
(* what an unaltered rollout has left so far, and what the producer's      *)
(* record and the verifier's verdict are of.  Record_proofs proves it;     *)
(* here it can be model-checked.                                           *)
(***************************************************************************)
EXTENDS Record

-----------------------------------------------------------------------------
(* Types.                                                                  *)

MethodTree == Policy \cup {NoPolicy}
Optional(S) == S \cup {None}

Suite == [of : Optional(MethodTree), look : Nat, size : Nat]
Result == [of : MethodTree, suite : Suite, score : Int]
Receipt == [result : Result, of : MethodTree, suite : Suite, profile : {"profile"}]
Measured == [result : Result, receipt : Optional(Receipt)]
Evidence == [at : Places, result : Result, receipt : Optional(Receipt)]
Plan == [size : Nat, planned : Nat, exploratory : BOOLEAN]

Line ==
  [num : Nat, unit : {"unit", "other"}, version : Version, parent : Version,
   replicates : Optional(Version), estimate : Int,
   verdict : {"clears", "below", "inconclusive"},
   disposition : {"keep", "revert", "provisional"}, sample : Nat,
   profile : Optional({"profile", "other"}), plan : Optional(Plan),
   suite : Optional(Suite), look : Optional(Nat),
   parentTree : Optional(MethodTree), tree : Optional(MethodTree),
   evidence : [RoleSet -> Evidence]]

JobDirectory ==
  [versions : [Version -> Optional(Tree)], stray : BOOLEAN, log : Seq(Block),
   decisions : Optional(Seq(Line)), results : [Places -> Optional(Measured)],
   main : Optional(Tree), reward : Rewards \cup {"absent", "text"}]

\* The versions a rollout may reach are versions, and None is nothing else.
ASSUME RecordAssumption ==
  /\ 0 \in Version /\ Version \subseteq Nat
  /\ Scores \subseteq Int
  /\ Budget \in [Modes -> Seq(Nat)]
  /\ \A m \in Modes : \A n \in DOMAIN Budget[m] : n - 1 \in Version
  /\ None \notin Tree \cup MethodTree \cup Int \cup {"profile", "unit", "other"}
  /\ None \notin Suite \cup Measured \cup Receipt \cup Plan \cup Line \cup Seq(Line)

EntryType ==
  [line : Nat, body : {Body(l) : l \in Line}, kind : {"screening", "confirmation"}, resolves : Nat]
VersionType ==
  [ordinal : Nat, line : Nat, parents : SUBSET Version, unsnapshotted : SUBSET Version,
   status : Statuses \cup {"none", "provisional"}, score : Optional(Int),
   tree : Tree, method : MethodTree, decisions : Seq(EntryType)]
RecordType ==
  [versions : UNION {[S -> VersionType] : S \in SUBSET Version},
   final : [version : Version, class : Seq(Version), tree : Tree, method : MethodTree],
   log : Seq(Block), decisionLog : Optional(Seq(Line)),
   reward : Rewards \cup {"absent", "text"}, unit : Optional({"unit", "other"})]

TypeOK ==
  /\ mode \in Modes
  /\ job \in JobDirectory
  /\ phase \in {"rollout", "handed", "recorded", "refused", "verified"}
  /\ phase \in {"recorded", "verified"} => record \in RecordType
  /\ altered \in Nat
  /\ reworded \in BOOLEAN

-----------------------------------------------------------------------------
(* The inductive invariant.                                                *)

\* While the rollout lasts every snapshot has its visible result, the lines
\* are about snapshots, and an open decision is the last line's, with the
\* suite its confirmation is to use.
RolloutLeaves ==
  phase = "rollout" =>
    /\ \A v \in Snapshots(job) : job.results[<<v, "visible">>] # None
    /\ job.decisions # None =>
         \A i \in DOMAIN job.decisions : {job.decisions[i].version, job.decisions[i].parent} \subseteq Snapshots(job)
    /\ Undecided(job) /\ mode # "none" =>
         /\ job.decisions \notin {None, <<>>}
         /\ Gated(Last(job.decisions)) => Last(job.decisions).suite # None

\* The directory a record was made of, as far as the record tells.
Origin(r) ==
  [versions |-> [v \in Version |-> IF v \in RecordedVersions(r) THEN r.versions[v].tree ELSE None],
   stray |-> FALSE, log |-> r.log, decisions |-> r.decisionLog, main |-> r.final.tree, reward |-> r.reward]

\* An untouched record is the producer's, of the directory it tells of.
RecordIsProduced ==
  phase \in {"recorded", "verified"} /\ ~reworded =>
    Produced(Origin(record)) = record /\ ~ProducerRefuses(Origin(record))

\* The verdict is about the record and the directory that are still there.
VerdictIsOfThese == phase = "verified" => verdict = Verdict(record, job)

IInv == TypeOK /\ RolloutLeaves /\ RecordIsProduced /\ VerdictIsOfThese

-----------------------------------------------------------------------------
(* What a rollout leaves that nobody alters.                               *)

\* The blocks are those of the snapshots, in order, and only the last may be
\* open.  A block says the same by its status and by its closing word.
Decisions == {<<"kept", "keep">>, <<"reverted", "revert">>, <<"none", "none">>}
Said == [keep |-> <<"kept", "keep">>, revert |-> <<"reverted", "revert">>, provisional |-> <<"none", "none">>]
What(block) == <<block.status, block.closing>>
BlockFollows(log, v) ==
  /\ log[v + 1].version = v /\ log[v + 1].score \in Int
  /\ IF v = 0 THEN log[1].parent = None /\ What(log[1]) = <<"baseline", "none">>
     ELSE log[v + 1].parent \in 0 .. (v - 1) /\ What(log[v + 1]) \in Decisions
  /\ log[v + 1].status = "none" => v + 1 = Len(log)

\* A snapshot is a policy that the grader would take, with its visible result.
SnapshotFollows(j, v) ==
  /\ \E policy \in Policy \ Oversized : j.versions[v] = Clean(policy)
  /\ j.results[<<v, "visible">>] = Measurement(MethodView(j.versions[v]), VisibleSuite, j.log[v + 1].score)
SnapshotsFollow(j) ==
  /\ ~j.stray /\ j.reward = "low"
  /\ Snapshots(j) = 0 .. (Len(j.log) - 1)
  /\ \A v \in Snapshots(j) : BlockFollows(j.log, v) /\ SnapshotFollows(j, v)

\* What a line of the log says, when it is written and after: its results are
\* still there, and it follows from them.
MeasuredAt(l) == IF Screening(l) THEN VisiblePlaces(l.version, l.parent) ELSE [r \in RoleSet |-> <<l.version, r>>]
LineRests(j, l) ==
  LET gated == mode = "gated"
      tree(w) == IF gated THEN MethodView(j.versions[w]) ELSE None
  IN  /\ l.unit = "unit" /\ l.sample = 2 /\ l.profile = IF gated THEN "profile" ELSE None
      /\ l.parentTree = tree(l.parent) /\ l.tree = tree(l.version)
      /\ l.evidence = EvidenceAt(j.results, MeasuredAt(l), gated)
      /\ l.estimate = EstimateOf(l.evidence) /\ l.verdict = GateVerdict(l.estimate)

ScreeningSays(l) ==
  IF Gated(l) /\ l.verdict # "below"
  THEN /\ l.plan \in Plans
       /\ IF l.plan.exploratory THEN l.disposition = "revert" /\ Leaves(l, {"suite", "look"})
          ELSE /\ l.disposition = "provisional" /\ l.look \in Nat
               /\ l.suite = [of |-> l.tree, look |-> l.look, size |-> l.plan.size]
  ELSE l.disposition = GateScreens(l.verdict, FALSE) /\ Leaves(l, {"plan", "suite", "look"})

ConfirmationSays(j, l) ==
  /\ l.replicates = l.version
  /\ l.disposition = GateConfirms(l.verdict)
  /\ \A r \in RoleSet :
       LET on == j.results[<<l.version, r>>]
           policy == MethodView(j.versions[IF r = "parent" THEN l.parent ELSE l.version])
       IN  on # None /\ on = Measurement(policy, IF Gated(l) THEN l.suite ELSE SuiteNo(1), on.result.score)

\* A line has its place: a confirmation comes next to the screening that it
\* resolves, and after a provisional screening nothing else comes.
InPlace(log, i) ==
  /\ log[i].num = i
  /\ Screening(log[i]) /\ i > 1 => ~Provisional(log[i - 1])
  /\ ~Screening(log[i]) => /\ i > 1 /\ Provisional(log[i - 1])
                           /\ log[i].version = log[i - 1].version
                           /\ \A f \in Frozen : log[i][f] = log[i - 1][f]

\* The last line about a version says what its block says.
EndsIts(log, i) == i = Len(log) \/ Screening(log[i + 1])
LineFollowsRollout(j, i) ==
  LET l == j.decisions[i] IN
  /\ InPlace(j.decisions, i)
  /\ l.version \in Snapshots(j) \ {0} /\ l.parent = j.log[l.version + 1].parent
  /\ LineRests(j, l)
  /\ IF Screening(l) THEN ScreeningSays(l) ELSE ConfirmationSays(j, l)
  /\ EndsIts(j.decisions, i) => What(j.log[l.version + 1]) = Said[l.disposition]

Decided(j, v) == j.decisions # None /\ \E i \in DOMAIN j.decisions : j.decisions[i].version = v
DecisionsFollow(j) ==
  /\ mode = "none" => j.decisions = None
  /\ j.decisions # None => j.decisions # <<>> /\ \A i \in DOMAIN j.decisions : LineFollowsRollout(j, i)
  /\ mode # "none" => \A v \in Snapshots(j) : j.log[v + 1].status = "kept" => Decided(j, v)
  /\ \A v \in Snapshots(j) :
       j.log[v + 1].status = "none" => Decided(j, v) /\ Last(j.decisions).version = v

\* main/ is a version that stands, with the caches of its run.
HandedIn(j) ==
  /\ j.log # <<>>
  /\ \E v \in Standing(j) : j.main = [Clean(MethodView(j.versions[v])) EXCEPT !.caches = TRUE]

HonestInv ==
  /\ phase = "rollout" => Untouched
  /\ altered = 0 =>
       /\ SnapshotsFollow(job) /\ DecisionsFollow(job)
       /\ phase # "rollout" => HandedIn(job)
       /\ phase = "refused" => Undecided(job)
       /\ phase \in {"recorded", "verified"} /\ ~reworded => record = Produced(job) /\ ~ProducerRefuses(job)
=============================================================================
