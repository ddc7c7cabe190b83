------------------------------ MODULE Capsule -------------------------------
(***************************************************************************)
(* A provenance record ("capsule") and the job directory it is about: what *)
(* the producer builds or refuses (build_capsule in                        *)
(* src/profile/build_capsule.py) and what the verifier reports             *)
(* (verify_capsule in src/profile/verify_capsule.py), as functions of the  *)
(* two.                                                                    *)
(*                                                                         *)
(* A job directory j has j.versions, the snapshots; j.stray, whether       *)
(* versions/ holds a directory with another name; j.log, the blocks of the *)
(* experiment log; j.decisions, the gate's log or None; j.results, the     *)
(* result files, each with its receipt; j.main and j.reward.               *)
(***************************************************************************)
EXTENDS DecisionLines, Trees

\* A block: the version it declares, the parent it names, the status that is
\* read from it, the word its declaration line ends with and the score on it.
Statuses == {"baseline", "kept", "reverted", "submitted"}
Block == [version : Version, parent : Version \cup {None}, status : Statuses \cup {"none"},
          closing : {"none", "keep", "revert"}, score : Int \cup {None}]

Places == Version \X {"visible", "parent", "candidate"}
Rewards == {"low", "high"}

Snapshots(j) == {v \in Version : j.versions[v] # None}

-----------------------------------------------------------------------------
(* The experiment log: get_version_blocks.                                 *)

\* A version that is declared again keeps its first block.
DeclaredIn(log) == {log[i].version : i \in DOMAIN log}
LineOf(log, v) == CHOOSE i \in DOMAIN log : log[i].version = v /\ \A k \in 1 .. (i - 1) : log[k].version # v
BlockOf(log, v) == log[LineOf(log, v)]
Ordinal(log, v) == Cardinality({w \in DeclaredIn(log) : LineOf(log, w) <= LineOf(log, v)})

-----------------------------------------------------------------------------
(* build_capsule.                                                          *)

IsLowest(j, v) == \A w \in Snapshots(j) : Ordinal(j.log, v) <= Ordinal(j.log, w)
\* The other version a block names as its parent, in a set of at most one.
ParentsOf(j, v) == {BlockOf(j.log, v).parent} \ {v, None}
Recorded(j, v) == ParentsOf(j, v) \cap Snapshots(j)
Unsnapshotted(j, v) == (ParentsOf(j, v) \cap DeclaredIn(j.log)) \ Snapshots(j)

VersionRefused(j, v) ==
  \/ ~(ParentsOf(j, v) \subseteq Recorded(j, v) \cup Unsnapshotted(j, v))
  \/ Recorded(j, v) = {} /\ ~IsLowest(j, v)
  \/ ~Digestible(j.versions[v])
  \/ BlockOf(j.log, v).status = "none"

\* The versions main/ is: those with its method tree.
Matches(j) == {v \in Snapshots(j) : MethodView(j.versions[v]) = MethodView(j.main)}

ProducerRefuses(j) ==
  \/ j.main = None \/ j.reward \in {"absent", "text"} \/ j.stray
  \/ j.decisions # None /\ ~ProducerReads(j.decisions)
  \/ Snapshots(j) = {} \/ ~(Snapshots(j) \subseteq DeclaredIn(j.log))
  \/ \E v \in Snapshots(j) : VersionRefused(j, v)
  \/ ~Stageable(j.main) \/ ~Digestible(j.main)
  \/ Matches(j) = {}
  \/ j.decisions # None /\ \E i \in DOMAIN j.decisions : j.decisions[i].version \notin Snapshots(j)

\* The class in the order of its ordinals; its first stands for it.
ByOrdinal(log, class) == InOrder(class, [v \in class |-> Ordinal(log, v)])
MainClass(j) == ByOrdinal(j.log, Matches(j))

StatusIn(j, v) ==
  IF v = Head(MainClass(j)) THEN "submitted"
  ELSE IF j.decisions # None /\ EntriesOf(j.decisions, v) # <<>> THEN DecidedStatus(EntriesOf(j.decisions, v))
  ELSE BlockOf(j.log, v).status

VersionIn(j, v) ==
  [ordinal |-> Ordinal(j.log, v), line |-> LineOf(j.log, v),
   parents |-> Recorded(j, v), unsnapshotted |-> Unsnapshotted(j, v),
   status |-> StatusIn(j, v), score |-> BlockOf(j.log, v).score,
   tree |-> FullView(j.versions[v]), method |-> MethodView(j.versions[v]),
   decisions |-> IF j.decisions = None THEN <<>> ELSE EntriesOf(j.decisions, v)]

Produced(j) ==
  [versions |-> [v \in Snapshots(j) |-> VersionIn(j, v)],
   final |-> [version |-> Head(MainClass(j)), class |-> MainClass(j),
              tree |-> FullView(j.main), method |-> MethodView(j.main)],
   log |-> j.log, decisionLog |-> j.decisions, reward |-> j.reward,
   unit |-> IF j.decisions = None THEN None ELSE j.decisions[1].unit]

-----------------------------------------------------------------------------
(* verify_capsule: the checks that need only the record.                   *)

RecordedVersions(r) == DOMAIN r.versions
DecidedVersions(r) == {v \in RecordedVersions(r) : r.versions[v].decisions # <<>>}
AllEntries(r) == UNION {ToSet(r.versions[v].decisions) : v \in RecordedVersions(r)}

\* CAPSULE_SPEC: the fields are there and in their ranges.
EntryWellFormed(e) ==
  /\ e.kind \in {"screening", "confirmation"}
  /\ e.line \in Nat \ {0} /\ e.resolves \in Nat
  /\ e.body.verdict \in {"clears", "below", "inconclusive"}
  /\ e.body.disposition \in {"keep", "revert", "provisional"}
  /\ e.body.sample \in Nat \ {0}
WellFormed(r) ==
  /\ RecordedVersions(r) # {}
  /\ \A v \in RecordedVersions(r) :
       /\ r.versions[v].status \in Statuses \cup {"provisional"}
       /\ \A k \in DOMAIN r.versions[v].decisions : EntryWellFormed(r.versions[v].decisions[k])
  /\ r.final.class # <<>> /\ Cardinality(ToSet(r.final.class)) = Len(r.final.class)
  /\ r.reward \in Rewards

LineageErrors(r) ==
  If(Cardinality({v \in RecordedVersions(r) : r.versions[v].parents = {}}) # 1, "semantic:versions:root_count")
  \cup UNION {
    LET parents == r.versions[v].parents IN
    If(\E w \in RecordedVersions(r) \ {v} : r.versions[w].ordinal = r.versions[v].ordinal,
       "semantic:versions:duplicate_ordinal")
    \cup If(~(parents \subseteq RecordedVersions(r)), "semantic:version:missing_parent")
    \cup If(\E p \in parents \cap RecordedVersions(r) : r.versions[p].ordinal >= r.versions[v].ordinal,
            "semantic:version:parent_order")
    \cup If(r.versions[v].unsnapshotted \cap (RecordedVersions(r) \cup parents) # {},
            "semantic:version:unsnapshotted_parent_is_recorded")
    : v \in RecordedVersions(r)}

RecordClass(r) ==
  LET class == {v \in RecordedVersions(r) : r.versions[v].method = r.final.method}
  IN  InOrder(class, [v \in class |-> r.versions[v].ordinal])

\* Mutant: the class is taken from the record as it is.
SubmissionErrors_AnyClass(r) ==
  LET submitted == {v \in RecordedVersions(r) : r.versions[v].status = "submitted"} IN
  IF Cardinality(submitted) # 1 THEN {"semantic:versions:submitted_count"}
  ELSE If(submitted # {r.final.version}, "semantic:final:submitted_mismatch")
       \cup If(\E v \in submitted : r.versions[v].method # r.final.method, "semantic:final:method_tree_mismatch")

SubmissionErrors(r) ==
  LET submitted == {v \in RecordedVersions(r) : r.versions[v].status = "submitted"} IN
  IF Cardinality(submitted) # 1 THEN {"semantic:versions:submitted_count"}
  ELSE UNION {
    If(submitted # {r.final.version}, "semantic:final:submitted_mismatch"),
    If(\E v \in submitted : r.versions[v].method # r.final.method, "semantic:final:method_tree_mismatch"),
    If(RecordClass(r) # r.final.class, "semantic:final:class_mismatch"),
    If(RecordClass(r) = r.final.class /\ r.final.version # Head(r.final.class), "semantic:final:not_canonical")}

\* Once the gate ran a version it did not decide is not kept, and what it
\* reverted is not handed in.
ConductErrors(r) ==
  UNION {
    LET entries == r.versions[v].decisions IN
    If(/\ entries = <<>>
       /\ r.versions[v].parents # {} /\ r.versions[v].status \in {"kept", "submitted"},
       "decision:missing_for_kept_version")
    \cup If(/\ entries # <<>> /\ r.versions[v].status = "submitted"
            /\ \E e \in ToSet(entries) : /\ e.body.disposition = "revert"
                                         /\ \A f \in ToSet(entries) : f.line <= e.line,
            "protocol:kept_against_verdict")
    : v \in RecordedVersions(r)}

DecisionErrors(r) ==
  IF AllEntries(r) = {} THEN {}
  ELSE UNION {
    If(r.decisionLog = None, "semantic:source:decision_log_missing"),
    If(r.unit = None, "semantic:benchmark:measurement_missing"),
    If(\E v, w \in DecidedVersions(r) : v # w /\ \E e \in ToSet(r.versions[v].decisions),
         f \in ToSet(r.versions[w].decisions) : e.line = f.line, "semantic:decision:duplicate_log_line"),
    UNION {ConsistencyErrors(v, r.versions[v].decisions, r.versions[v].status) : v \in DecidedVersions(r)},
    RuleErrors(AllEntries(r)),
    ConductErrors(r)}

SemanticErrors(r) == LineageErrors(r) \cup SubmissionErrors(r) \cup DecisionErrors(r)

-----------------------------------------------------------------------------
(* verify_capsule: the checks against the job directory.                   *)

\* _check_decisions_match_log: every line is claimed, by what it says.
SameDecision(e, l) == e.body = Body(l)
MatchErrors(r, j) ==
  LET log == j.decisions IN
  IF r.decisionLog = None \/ log = None THEN {}
  ELSE IF log = <<>> THEN {"decision:log_empty"}
  ELSE UNION {
    If(\E i \in DOMAIN log : log[i].num # i, "decision:log_line_number"),
    If(\E i \in DOMAIN log : log[i].unit # log[1].unit, "decision:log_mixed_unit"),
    If((\A i \in DOMAIN log : log[i].unit = log[1].unit) /\ r.unit # log[1].unit, "decision:log_unit_mismatch"),
    If(\E i \in DOMAIN log : \A e \in AllEntries(r) : e.line # i, "decision:log_line_missing"),
    If(\E e \in AllEntries(r) : e.line \notin DOMAIN log, "decision:log_line_absent"),
    If(\E e \in AllEntries(r) : e.line \in DOMAIN log /\ ~SameDecision(e, log[e.line]),
       "decision:log_line_mismatch")}

\* _check_receipts.  on is what the disk has where the evidence says.
ReceiptErrors(e, role, on) ==
  LET ref == e.body.evidence[role]
      tree == IF role = "parent" THEN e.body.parentTree ELSE e.body.tree
  IN  IF ref.receipt = None THEN If(Gated(e.body), "receipt:missing")
      ELSE IF on = None \/ on.receipt = None THEN {}
      ELSE If(\/ on.receipt.result # ref.result
              \/ tree # None /\ on.receipt.of # tree
              \/ e.body.profile # None /\ on.receipt.profile # e.body.profile
              \/ e.kind = "confirmation" /\ e.body.suite # None /\ on.receipt.suite # e.body.suite,
              "receipt:mismatch")

\* _resolve_evidence: every file is there and has the bytes it had.
EvidenceErrors(e, role, on) ==
  LET ref == e.body.evidence[role] IN
  IF on = None \/ (ref.receipt # None /\ on.receipt = None) THEN {"decision:evidence_missing"}
  ELSE If(on.result # ref.result \/ (ref.receipt # None /\ on.receipt # ref.receipt),
          "decision:evidence_digest_mismatch")

\* Mutant: the estimate is taken from the record.
Reproduced_Trusting(e, parent, candidate) == {}
\* _reproduce: the estimate, and with it the interval, from the scores.
Reproduced(e, parent, candidate) ==
  If(e.body.estimate # candidate.result.score - parent.result.score, "decision:interval_not_reproducible")

MeasurementErrors(e, j) ==
  LET on == [role \in RoleSet |-> j.results[e.body.evidence[role].at]]
      unresolved == UNION {EvidenceErrors(e, role, on[role]) : role \in RoleSet}
  IN  (UNION {ReceiptErrors(e, role, on[role]) : role \in RoleSet})
      \cup IF unresolved # {} THEN unresolved ELSE Reproduced(e, on["parent"], on["candidate"])

\* _check_logged_scores: the score on the declaration line against the result
\* of the first screening, in a set of one, or empty.
FirstScreening(entries) ==
  {k \in DOMAIN entries : entries[k].kind = "screening" /\ \A i \in 1 .. (k - 1) : entries[i].kind # "screening"}
ScoreErrors(r, v, j) ==
  LET entries == r.versions[v].decisions
      line == r.versions[v].line
  IN  If(/\ line \in DOMAIN j.log
         /\ r.versions[v].score # None /\ j.log[line].score # None
         /\ \E k \in FirstScreening(entries) :
              LET on == j.results[entries[k].body.evidence["candidate"].at]
              IN  on # None /\ on.result.score # j.log[line].score, "log:score_mismatch")

\* _check_action_contradiction: what the declaration line says was done against
\* the last decision.
ActionErrors(r, v, j) ==
  LET entries == r.versions[v].decisions
      line == r.versions[v].line
  IN  IF entries = <<>> \/ line \notin DOMAIN j.log THEN {}
      ELSE If(<<DecidedStatus(entries), j.log[line].closing>> \in {<<"reverted", "keep">>, <<"kept", "revert">>},
              "protocol:action_contradiction")

ArtifactErrors(r, v, j) ==
  LET tree == j.versions[v] IN
  IF tree = None THEN {"file:artifact:missing_file"}
  ELSE IF ~Digestible(tree) THEN {"file:artifact:symlink"}
  ELSE If(FullView(tree) # r.versions[v].tree, "file:artifact:digest_mismatch")
       \cup If(MethodView(tree) # r.versions[v].method, "file:artifact:method_tree_mismatch")

\* Mutant: main/ is not read, only the snapshot the record names.
FinalErrors_Unread(r, j) == If(j.main = None, "file:final_submission:missing_file")
FinalErrors(r, j) ==
  IF j.main = None THEN {"file:final_submission:missing_file"}
  ELSE UNION {
    If(~Digestible(j.main), "file:final_submission:symlink"),
    If(FullView(j.main) # r.final.tree, "file:final_submission:digest_mismatch"),
    If(MethodView(j.main) # r.final.method, "file:final_submission:method_tree_mismatch"),
    StageableErrors(j.main)}

\* _check_unrecorded_matches: the class is derived again from the disk.
ClassErrors(r, j) ==
  LET unrecorded == {j.versions[v] : v \in Snapshots(j) \ RecordedVersions(r)} IN
  If(\E tree \in unrecorded : ~Digestible(tree), "identity:unscannable_snapshot")
  \cup If(\E tree \in unrecorded : Digestible(tree) /\ MethodView(tree) = r.final.method,
          "identity:unrecorded_match")

\* The experiment log is bound by digest; then each version's line names it.
Mentions(block, v) == v \in {block.version, block.parent}
LogErrors(r, j) ==
  IF j.log # r.log THEN {"file:experiment_log:digest_mismatch"}
  ELSE If(\E v \in RecordedVersions(r) :
            r.versions[v].line \notin DOMAIN j.log \/ ~Mentions(j.log[r.versions[v].line], v),
          "file:log:line_mismatch")

RewardErrors(r, j) == If(j.reward # r.reward, "file:reward:mismatch")

FileErrors(r, j) ==
  UNION {
    LogErrors(r, j),
    If(r.decisionLog # None /\ j.decisions # r.decisionLog, "file:decision_log:digest_mismatch"),
    MatchErrors(r, j),
    UNION {MeasurementErrors(e, j) : e \in AllEntries(r)},
    UNION {ScoreErrors(r, v, j) \cup ActionErrors(r, v, j) \cup ArtifactErrors(r, v, j) : v \in RecordedVersions(r)},
    FinalErrors(r, j),
    ClassErrors(r, j),
    RewardErrors(r, j)}

Complete(r, j) == Snapshots(j) = RecordedVersions(r)

\* An ill-formed record is not looked into.
Errors(r, j) == IF ~WellFormed(r) THEN {"schema"} ELSE SemanticErrors(r) \cup FileErrors(r, j)
Verdict(r, j) == [errors |-> Errors(r, j), complete |-> WellFormed(r) /\ Complete(r, j)]
=============================================================================
