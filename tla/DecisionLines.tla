--------------------------- MODULE DecisionLines ----------------------------
(***************************************************************************)
(* The gate's decision log as its three readers take it: the record        *)
(* producer (src/profile/build_capsule.py), the verifier                   *)
(* (src/profile/verify_capsule.py) and the TRACE converter                 *)
(* (src/gate/trace_from_decisions.py).  Each re-states the rules of the    *)
(* gate in code of its own.                                                *)
(*                                                                         *)
(* A measurement is abstracted to its estimate, an integer; the bootstrap  *)
(* interval is the estimate give or take Spread.                           *)
(***************************************************************************)
EXTENDS Integers, Sequences, FiniteSets, SequencesExt

CONSTANTS Version, None, MinEffect, Spread

ASSUME DecisionLinesAssumption ==
  IsFiniteSet(Version) /\ None \notin Version /\ {MinEffect, Spread} \subseteq Nat

\* A line: num, the number it gives itself; unit, the measurement it states;
\* version, parent, replicates (a version or None); estimate, verdict,
\* disposition, sample; profile, None in replay mode; plan, None or the size,
\* the planned size and the exploratory flag of the confirmation; suite and
\* look, of the confirmation it opens; parentTree and tree, the method trees it
\* is about; evidence, for both roles where the result was read, its bytes and
\* its receipt's.
Gated(l) == l.profile # None
Screening(l) == l.replicates = None
Exploratory(l) == l.plan # None /\ l.plan.exploratory
Lower(estimate) == estimate - Spread
Upper(estimate) == estimate + Spread
RoleSet == {"parent", "candidate"}

\* A finite set in the order of its members' ranks, no two of which are equal.
\* (SetToSortSeq, by a definition that the provers can expand.)
InOrder(S, rank) ==
  [k \in 1 .. Cardinality(S) |-> CHOOSE x \in S : Cardinality({y \in S : rank[y] <= rank[x]}) = k]

\* The lines before i.
Earlier(log, i) == DOMAIN log \cap 1 .. (i - 1)
Provisional(l) == Screening(l) /\ l.disposition = "provisional"

-----------------------------------------------------------------------------
(* The gate: get_verdict and get_disposition.                              *)

GateVerdict(estimate) ==
  IF Lower(estimate) > MinEffect THEN "clears"
  ELSE IF Upper(estimate) < 0 THEN "below" ELSE "inconclusive"
GateScreens(verdict, gated) ==
  IF verdict = "below" THEN "revert"
  ELSE IF verdict = "clears" /\ ~gated THEN "keep" ELSE "provisional"
GateConfirms(verdict) == IF verdict = "clears" THEN "keep" ELSE "revert"

-----------------------------------------------------------------------------
(* The producer: get_decisions.                                            *)

\* The provisional line a confirmation at i resolves: the latest of its
\* version that no other confirmation has taken.  A set of one, or empty.
Resolved(log, i) ==
  {j \in Earlier(log, i) :
     /\ Provisional(log[j])
     /\ log[j].version = log[i].version
     /\ \A k \in (j + 1) .. (i - 1) :
          log[k].version = log[j].version => Screening(log[k]) /\ ~Provisional(log[k])}

ProducerReads(log) ==
  /\ log # <<>>
  /\ \A i \in DOMAIN log :
       /\ log[i].num = i
       /\ log[i].unit = log[1].unit
       /\ ~Screening(log[i]) => log[i].replicates = log[i].version /\ Resolved(log, i) # {}

\* The record's entry for line i: what the line says of the decision, with its
\* place.  The unit is the record's own.
Body(l) == [f \in DOMAIN l \ {"num", "unit"} |-> l[f]]
Entry(log, i) ==
  [line |-> i, body |-> Body(log[i]),
   kind |-> IF Screening(log[i]) THEN "screening" ELSE "confirmation",
   resolves |-> IF Screening(log[i]) THEN 0
                ELSE IF Resolved(log, i) = {} THEN 0 ELSE CHOOSE j \in Resolved(log, i) : TRUE]

LinesOf(log, v) == {i \in DOMAIN log : log[i].version = v}
EntriesOf(log, v) ==
  LET lines == InOrder(LinesOf(log, v), [i \in LinesOf(log, v) |-> i])
  IN  [k \in DOMAIN lines |-> Entry(log, lines[k])]

StatusOf == [keep |-> "kept", revert |-> "reverted", provisional |-> "provisional"]

\* Mutant: the first decision is taken for the last.
DecidedStatus_First(entries) == StatusOf[Head(entries).body.disposition]
DecidedStatus(entries) == StatusOf[Last(entries).body.disposition]

-----------------------------------------------------------------------------
(* The verifier: the gate's rules, re-applied to what a record carries.    *)

ExpectedVerdict(estimate) ==
  IF Lower(estimate) > MinEffect THEN "clears"
  ELSE IF Upper(estimate) < 0 THEN "below" ELSE "inconclusive"

\* Mutant: an under-planned confirmation stays provisional.
ExpectedDisposition_NoPlan(e) ==
  IF e.kind = "confirmation" THEN IF e.body.verdict = "clears" THEN "keep" ELSE "revert"
  ELSE IF e.body.verdict = "below" THEN "revert"
  ELSE IF e.body.verdict = "inconclusive" \/ Gated(e.body) THEN "provisional" ELSE "keep"
ExpectedDisposition(e) ==
  IF e.kind = "confirmation" THEN IF e.body.verdict = "clears" THEN "keep" ELSE "revert"
  ELSE IF e.body.verdict = "below" \/ Exploratory(e.body) THEN "revert"
  ELSE IF e.body.verdict = "inconclusive" \/ Gated(e.body) THEN "provisional" ELSE "keep"

\* "found" is what a check reports: a set of error kinds, empty when it passes.
If(condition, error) == IF condition THEN {error} ELSE {}

\* _check_decision_consistency, for the entries of one version.
OpenIn(entries, k) ==
  {entries[j].line : j \in {j \in 1 .. (k - 1) :
     /\ entries[j].kind = "screening" /\ entries[j].body.disposition = "provisional"
     /\ \A m \in (j + 1) .. (k - 1) :
          entries[m].kind = "confirmation" => entries[m].resolves # entries[j].line}}

EntryErrors(v, entries, k) ==
  LET e == entries[k] IN
  UNION {
    If(k > 1 /\ entries[k - 1].line >= e.line, "semantic:decision:log_line_order"),
    If(e.body.version # v, "semantic:decision:version_mismatch"),
    If((e.kind = "screening") # Screening(e.body), "semantic:decision:kind_mismatch"),
    If(e.kind = "confirmation" /\ e.body.replicates # v, "semantic:decision:replicates_mismatch"),
    If(e.kind = "confirmation" /\ e.resolves \notin OpenIn(entries, k), "semantic:decision:resolves_unknown"),
    If(e.kind = "confirmation" /\ e.body.disposition = "provisional",
       "semantic:decision:confirmation_provisional"),
    If(e.kind = "screening" /\ e.resolves # 0, "semantic:decision:resolves_unexpected")}

ConsistencyErrors(v, entries, status) ==
  (UNION {EntryErrors(v, entries, k) : k \in DOMAIN entries})
  \cup If(status \notin {"submitted", DecidedStatus(entries)}, "semantic:version:status_not_decided")
  \cup If(status = "submitted" /\ DecidedStatus(entries) = "provisional",
          "protocol:unresolved_provisional_submitted")

\* _check_decision_rules, over all entries of a record, a set.  open_line is
\* the last provisional line unless a confirmation names it.
OpenLineBefore(all, e) ==
  LET before == {f \in all : f.line < e.line}
      opened == {f \in before : f.kind = "screening" /\ f.body.disposition = "provisional"}
  IN  {f \in opened :
         /\ \A g \in opened : g.line <= f.line
         /\ \A g \in before : g.line > f.line /\ g.kind = "confirmation" => g.resolves # f.line}

PlanErrors(e) ==
  If(/\ e.kind = "screening" /\ e.body.plan # None
     /\ \/ e.body.plan.exploratory # (e.body.plan.size < e.body.plan.planned)
        \/ e.body.plan.exploratory /\ e.body.suite # None,
     "decision:sizing_inconsistent")

\* A confirmation owes the size its screening planned, or that screening's own.
Reduced(all, e) ==
  \E f \in all : /\ f.line = e.resolves
                 /\ e.body.sample < (IF f.body.plan # None THEN f.body.plan.size ELSE f.body.sample)

RuleErrors(all) ==
  UNION {UNION {
    IF e.body.verdict # ExpectedVerdict(e.body.estimate) THEN {"decision:verdict_inconsistent"}
    ELSE If(e.body.disposition # ExpectedDisposition(e), "decision:disposition_inconsistent"),
    PlanErrors(e),
    If(e.kind = "screening" /\ e.body.disposition = "keep" /\ Gated(e.body), "protocol:unconfirmed_keep"),
    If(e.kind = "confirmation" /\ Reduced(all, e), "protocol:replication_reduction"),
    If(e.kind = "screening" /\ e.body.disposition = "provisional" /\ OpenLineBefore(all, e) # {},
       "protocol:stacked_provisional")}
  : e \in all}

-----------------------------------------------------------------------------
(* The converter: build_session, one TRACE event per line.                 *)

\* open_provisional when line i is read.
OpenBefore(log, i) ==
  {j \in Earlier(log, i) : Provisional(log[j]) /\ \A k \in (j + 1) .. (i - 1) : log[k].replicates # log[j].version}

MeasuredVerdict(estimate) ==
  CASE Lower(estimate) > MinEffect -> "clears"
    [] Upper(estimate) < 0 -> "below"
    [] OTHER -> "inconclusive"
PlanIsWhole(p) == p.size <= p.planned /\ p.exploratory = (p.size < p.planned)

States(l, fields) == \A f \in fields : l[f] # None
Leaves(l, fields) == \A f \in fields : l[f] = None

\* _check_gated_shapes: the plan follows its rule, a suite its plan and its
\* candidate, and both results have a receipt.
GatedShape(l) ==
  /\ States(l, {"parentTree", "tree"})
  /\ l.plan # None => PlanIsWhole(l.plan)
  /\ l.suite # None => l.plan # None /\ l.suite = [of |-> l.tree, look |-> l.look, size |-> l.plan.size]
  /\ \A r \in RoleSet : l.evidence[r].receipt # None

ReplayShape(l) == Leaves(l, {"profile", "look", "parentTree", "tree", "plan", "suite"})

Frozen == {"profile", "look", "parentTree", "tree", "plan", "suite", "parent"}

\* The disposition _check_line expects; "none" when the line may not be.
ConverterExpects(l) ==
  LET ruled == [below |-> "revert", clears |-> "keep", inconclusive |-> "provisional"]
      reverts == l.verdict = "below" \/ Exploratory(l)
  IN  IF ~Screening(l) THEN IF l.verdict = "clears" THEN "keep" ELSE "revert"
      ELSE IF ~Gated(l) THEN ruled[l.verdict]
      ELSE IF reverts /\ Leaves(l, {"suite", "look"}) /\ (l.verdict = "below" => l.plan = None) THEN "revert"
      ELSE IF ~reverts /\ States(l, {"plan", "suite", "look"}) THEN "provisional"
      ELSE "none"

\* _check_line; opened is the line a replication resolves.
LineConverts(l, opened) ==
  /\ l.verdict = MeasuredVerdict(l.estimate)
  /\ IF Gated(l) THEN GatedShape(l) ELSE ReplayShape(l)
  /\ ~Screening(l) =>
       /\ l.replicates = l.version
       /\ l.disposition # "provisional"
       /\ opened # None
       /\ Gated(l) => \A f \in Frozen : l[f] = opened[f]
  /\ l.disposition = ConverterExpects(l)

Opened(log, i) ==
  IF \E j \in OpenBefore(log, i) : log[j].version = log[i].replicates
  THEN log[CHOOSE j \in OpenBefore(log, i) : log[j].version = log[i].replicates] ELSE None

Converts(log) ==
  /\ log # <<>>
  /\ \A i \in DOMAIN log :
       LET l == log[i] IN
       /\ l.num = i
       /\ l.profile = log[1].profile
       /\ LineConverts(l, Opened(log, i))
       /\ ~Screening(l) => l.parent = Opened(log, i).parent
       /\ Provisional(l) => OpenBefore(log, i) = {}
       /\ Screening(l) => \A j \in OpenBefore(log, i) : log[j].version # l.parent

\* The disposition of line i's event: a provisional one stays proposed until
\* the replication that resolves it revises it.
Outcome(disposition) == IF disposition = "keep" THEN "accepted" ELSE "rejected"
EventOf(log, i) ==
  LET revising == {k \in DOMAIN log : ~Screening(log[k]) /\ k > i /\ i \in OpenBefore(log, k)
                                        /\ log[k].replicates = log[i].version}
  IN  IF ~Provisional(log[i]) THEN Outcome(log[i].disposition)
      ELSE IF revising = {} THEN "proposed"
      ELSE Outcome(log[CHOOSE k \in revising : TRUE].disposition)
=============================================================================
