------------------------- MODULE Instrument_proofs -------------------------
(***************************************************************************)
(* IInv is inductive, hence an invariant of the rollout helper under the   *)
(* gate; and what follows from it: the safety properties, the action       *)
(* properties, and that the helper implements Ledger.  First the steps,    *)
(* one by one: the ranges of the variables, the forms of the gate's log,   *)
(* which steps write which part of the record, and what each writes.       *)
(***************************************************************************)
EXTENDS InstrumentInv, Rollout_proofs, FiniteSetTheorems

-----------------------------------------------------------------------------
(* Types.                                                                  *)

\* The instrument's empty records are well typed, and what a ruling is not.
LEMMA EmptyType ==
  /\ NoGated \in Gated
  /\ NoFrame \in Frame
  /\ \A r \in Ruling : r # NoRuling /\ r.of \in Versions
  /\ NoRuling.of = None
<1>1. \A r \in Ruling : r # NoRuling /\ r.of \in Versions
  BY Constants DEF Ruling, NoRuling
<1>. QED BY <1>1 DEF NoGated, Gated, NoFrame, Frame, VersionOrNone, NoRuling

\* The fields of what the instrument keeps in state.json.
LEMMA GatedType ==
  ASSUME NEW g \in Gated
  PROVE  /\ g.unmeasurable \subseteq Versions
         /\ g.confirming \in VersionOrNone /\ g.blocked \in VersionOrNone
         /\ g.proposal \in VersionOrNone
         /\ g.settling \in Ruling \cup {NoRuling}
         /\ g.settling # NoRuling => g.settling \in Ruling /\ g.settling.of \in Versions
         /\ g.settling = NoRuling => g.settling.of = None
<1>1. /\ g.unmeasurable \subseteq Versions
      /\ g.confirming \in VersionOrNone /\ g.blocked \in VersionOrNone
      /\ g.proposal \in VersionOrNone
      /\ g.settling \in Ruling \cup {NoRuling}
  BY DEF Gated
<1>. QED BY <1>1, EmptyType

\* replace_main is left with a well-typed frame, and called with one.
LEMMA FrameType ==
  ASSUME frame \in Frame
  PROVE  /\ \A label : Return(label) => frame' \in Frame
         /\ \A v \in VersionOrNone, label \in {"settle_clear", "play", "refused", "finalized", "ok"} :
              Ensure(v, label) => frame' \in Frame
<1>1. ASSUME NEW label, Return(label) PROVE frame' \in Frame
  BY <1>1, EmptyType DEF Return, Finish, Frame, VersionOrNone
<1>2. ASSUME NEW v \in VersionOrNone, NEW label \in {"settle_clear", "play", "refused", "finalized", "ok"},
             Call(v, label)
      PROVE  frame' \in Frame
  BY <1>2 DEF Call, Frame
<1>. QED BY <1>1, <1>2 DEF Ensure

\* A command that ends.
LEMMA FinishForm ==
  ASSUME NEW result, Finish(result)
  PROVE  /\ pc' = "idle" /\ job' = NoJob /\ mem' = Blank /\ frame' = NoFrame
         /\ outcome' \in Outcomes
         /\ outcome' = "finalized" <=> result = "finalized"
BY DEF Finish, End, Outcomes

\* replace_main returns to a label of the caller, or ends the command.
LEMMA ReturnForm ==
  ASSUME NEW label \in {"settle_clear", "play", "refused", "finalized", "ok"}, Return(label)
  PROVE  \/ label \in {"settle_clear", "play"} /\ pc' = label /\ UNCHANGED <<job, mem, outcome>>
            /\ frame' = [frame EXCEPT !.target = None, !.swapped = "none"]
         \/ label \in {"refused", "finalized", "ok"} /\ Finish(label)
BY DEF Return, Goto

\* main/ holds the version, or it is put there.
LEMMA EnsureForm ==
  ASSUME NEW v, NEW label \in {"settle_clear", "play", "refused", "finalized", "ok"}, Ensure(v, label)
  PROVE  \/ MainIs(v) /\ Return(label)
         \/ pc' = "swap" /\ UNCHANGED <<job, mem, outcome>>
            /\ frame' = [frame EXCEPT !.target = v, !.swapped = label]
BY DEF Ensure, Call, Goto

-----------------------------------------------------------------------------
(* The gate's log.                                                         *)

\* A version has no line, a screening, or a provisional screening and its
\* confirmation.
LEMMA LinesForm ==
  ASSUME decisions \in Seq(DecisionLine), DecisionsInv, NEW v
  PROVE  \/ LinesOf(v) = {}
         \/ \E i \in DOMAIN decisions :
              LinesOf(v) = {i} /\ ~decisions[i].replicates
         \/ \E i, j \in DOMAIN decisions :
              /\ i < j /\ LinesOf(v) = {i, j}
              /\ ~decisions[i].replicates /\ decisions[i].disposition = "provisional"
              /\ decisions[j].replicates
<1>. USE DEF DecisionsInv, AskedOnce, LinesOf
<1>0. DOMAIN decisions \subseteq Int
  OBVIOUS
<1>. SUFFICES ASSUME LinesOf(v) # {}
              PROVE  \/ \E i \in DOMAIN decisions :
                          LinesOf(v) = {i} /\ ~decisions[i].replicates
                     \/ \E i, j \in DOMAIN decisions :
                          /\ i < j /\ LinesOf(v) = {i, j}
                          /\ ~decisions[i].replicates /\ decisions[i].disposition = "provisional"
                          /\ decisions[j].replicates
  OBVIOUS
<1>1. \E i \in LinesOf(v) : ~decisions[i].replicates
  <2>1. PICK k \in LinesOf(v) : TRUE
    OBVIOUS
  <2>2. CASE decisions[k].replicates
    <3>1. PICK j \in LinesOf(v) : j < k
      BY <2>1, <2>2
    <3>. QED BY <1>0, <3>1
  <2>. QED BY <2>1, <2>2
<1>2. PICK i \in LinesOf(v) : ~decisions[i].replicates
  BY <1>1
<1>3. CASE LinesOf(v) = {i}
  BY <1>2, <1>3
<1>4. CASE \E j \in LinesOf(v) : j # i
  <2>1. PICK j \in LinesOf(v) : j # i
    BY <1>4
  <2>2. i < j
    BY <1>0, <1>2, <2>1
  <2>3. decisions[i].disposition = "provisional" /\ decisions[j].replicates
    BY <1>2, <2>1, <2>2
  <2>4. LinesOf(v) = {i, j}
    BY <1>0, <1>2, <2>1, <2>2, <2>3
  <2>. QED BY <1>2, <2>1, <2>2, <2>3, <2>4
<1>. HIDE DEF LinesOf
<1>5. LinesOf(v) = {i} \/ \E j \in LinesOf(v) : j # i
  BY <1>2
<1>. QED BY <1>3, <1>4, <1>5

\* What gate_state makes of the lines of a version.
LEMMA KindForm ==
  ASSUME decisions \in Seq(DecisionLine), DecisionsInv, NEW v
  PROVE  /\ Kind(v) \in {"none", "resolved", "provisional_open", "screening_revert"}
         /\ Kind(v) = "none" <=> LinesOf(v) = {}
         /\ Kind(v) = "resolved" <=> \E j \in LinesOf(v) : decisions[j].replicates
         /\ Kind(v) = "provisional_open" <=>
              \E i \in LinesOf(v) : LinesOf(v) = {i} /\ decisions[i].disposition = "provisional"
         /\ Confirmed(v) <=> \E j \in LinesOf(v) : decisions[j].disposition = "keep"
<1>. DEFINE Facts == /\ Kind(v) \in {"none", "resolved", "provisional_open", "screening_revert"}
                     /\ Kind(v) = "none" <=> LinesOf(v) = {}
                     /\ Kind(v) = "resolved" <=> \E j \in LinesOf(v) : decisions[j].replicates
                     /\ Kind(v) = "provisional_open" <=>
                          \E i \in LinesOf(v) : LinesOf(v) = {i} /\ decisions[i].disposition = "provisional"
                     /\ Confirmed(v) <=> \E j \in LinesOf(v) : decisions[j].disposition = "keep"
<1>0. DOMAIN decisions \subseteq Int
  OBVIOUS
<1>1. CASE LinesOf(v) = {}
  <2>1. LastScreening(v) = {}
    BY <1>1 DEF LastScreening
  <2>2. Kind(v) = "none"
    BY <2>1 DEF Kind
  <2>. QED BY <1>1, <2>2 DEF Confirmed
<1>2. ASSUME NEW i \in DOMAIN decisions, LinesOf(v) = {i}, ~decisions[i].replicates
      PROVE  Facts
  <2>1. LastScreening(v) = {i}
    BY <1>2 DEF LastScreening
  <2>2. {j \in LinesOf(v) : \E k \in LastScreening(v) : j > k} = {}
    BY <1>0, <1>2, <2>1
  <2>3. Kind(v) = IF decisions[i].disposition = "provisional" THEN "provisional_open" ELSE "screening_revert"
    BY <2>1, <2>2 DEF Kind
  <2>4. decisions[i].disposition # "keep"
    BY <1>2 DEF DecisionsInv
  <2>. QED BY <1>2, <2>3, <2>4 DEF Confirmed
<1>3. ASSUME NEW i \in DOMAIN decisions, NEW j \in DOMAIN decisions, i < j, LinesOf(v) = {i, j},
             ~decisions[i].replicates, decisions[i].disposition = "provisional", decisions[j].replicates
      PROVE  Facts
  <2>1. LastScreening(v) = {i}
    BY <1>0, <1>3 DEF LastScreening
  <2>2. j \in {k \in LinesOf(v) : \E m \in LastScreening(v) : k > m}
    BY <1>0, <1>3, <2>1
  <2>3. Kind(v) = "resolved"
    BY <2>1, <2>2 DEF Kind
  <2>4. Confirmed(v) <=> decisions[j].disposition = "keep"
    BY <1>0, <1>3, <2>3 DEF Confirmed
  <2>5. ~\E k \in LinesOf(v) : LinesOf(v) = {k}
    BY <1>0, <1>3
  <2>. QED BY <1>3, <2>3, <2>4, <2>5
<1>. HIDE DEF Facts
<1>4. LinesOf(v) = {} => Facts
  BY <1>1 DEF Facts
<1>5. Facts
  BY <1>2, <1>3, <1>4, LinesForm
<1>. QED BY <1>5 DEF Facts

\* What is read of the gate's log changes with the log only.
LEMMA KindFrame ==
  ASSUME decisions' = decisions
  PROVE  /\ \A v : LinesOf(v)' = LinesOf(v)
         /\ \A v : Kind(v)' = Kind(v)
         /\ \A v : Confirmed(v)' = Confirmed(v)
         /\ \A v : Endorsed(v)' = Endorsed(v)
         /\ OpenVersions' = OpenVersions
         /\ \A r : Agrees(r)' = Agrees(r)
<1>1. \A v : LinesOf(v)' = LinesOf(v)
  BY DEF LinesOf
<1>2. \A v : LastScreening(v)' = LastScreening(v)
  BY <1>1 DEF LastScreening
<1>3. \A v : Kind(v)' = Kind(v)
  BY <1>1, <1>2 DEF Kind
<1>4. \A v : Confirmed(v)' = Confirmed(v)
  BY <1>1, <1>3 DEF Confirmed
<1>5. \A v : Endorsed(v)' = Endorsed(v)
  BY <1>4 DEF Endorsed
<1>6. OpenVersions' = OpenVersions
  BY <1>3 DEF OpenVersions
<1>7. \A r : Agrees(r)' = Agrees(r)
  BY <1>3, <1>4 DEF Agrees
<1>. QED BY <1>1, <1>3, <1>4, <1>5, <1>6, <1>7

\* A line is added at the end.
LEMMA AppendedLines ==
  ASSUME decisions \in Seq(DecisionLine), NEW replicates, NEW disposition,
         GateAppends(replicates, disposition)
  PROVE  \E n \in Int :
           /\ \A i \in DOMAIN decisions : i < n
           /\ DOMAIN decisions' = DOMAIN decisions \cup {n}
           /\ \A i \in DOMAIN decisions : decisions'[i] = decisions[i]
           /\ decisions'[n] = [version |-> job.version, parent |-> mem.head,
                               replicates |-> replicates, disposition |-> disposition]
           /\ \A v : v # job.version => LinesOf(v)' = LinesOf(v)
           /\ \A v : v = job.version => LinesOf(v)' = LinesOf(v) \cup {n}
<1>. DEFINE line == [version |-> job.version, parent |-> mem.head,
                     replicates |-> replicates, disposition |-> disposition]
<1>1. decisions' = Append(decisions, line)
  BY DEF GateAppends
<1>2. PICK n \in Int : n = Len(decisions) + 1
  OBVIOUS
<1>3. /\ \A i \in DOMAIN decisions : i < n
      /\ DOMAIN decisions' = DOMAIN decisions \cup {n}
      /\ \A i \in DOMAIN decisions : decisions'[i] = decisions[i]
      /\ decisions'[n] = line
  BY <1>1, <1>2
<1>4. line.version = job.version
  OBVIOUS
<1>. HIDE DEF line
<1>5. \A v : v # job.version => LinesOf(v)' = LinesOf(v)
  BY <1>3, <1>4 DEF LinesOf
<1>6. \A v : v = job.version => LinesOf(v)' = LinesOf(v) \cup {n}
  BY <1>3, <1>4 DEF LinesOf
<1>. QED BY <1>3, <1>5, <1>6 DEF line

-----------------------------------------------------------------------------
(* What the steps do.                                                      *)

\* Past load_state the command holds the saved state of an initialized rollout.
LEMMA PastLoad ==
  ASSUME InstrumentTypeOK, MemInv, pc \notin Unread \cup Opening \cup {"repair"}
  PROVE  mem = saved /\ saved.head \in Versions
BY StateType DEF InstrumentTypeOK, MemInv, Initialized, VersionOrNone

\* Where the saves that settle a candidate are, and what they say: the gate
\* ruled if its log has a line, and kept what it confirmed.
Decides == ApplyConfirmation \/ ApplyScreening \/ AgentReverts \/ RefuseKeep

\* The four of them, each a settlement that says what the log says.
LEMMA SettleForm ==
  ASSUME IInv, Decides
  PROVE  \E status \in {"kept", "reverted"}, by \in {"gate", "agent", "helper"},
            proposed \in {"kept", "reverted"} :
           /\ Settle(status, by, proposed)
           /\ pc \in {"decide", "screen", "screened", "confirm"}
           /\ job.version \in Versions /\ saved.pending = job.version
           /\ job.cmd \in DecideCommands
           /\ by = "gate" <=> Kind(job.version) # "none"
           /\ status = "kept" <=> Confirmed(job.version)
           /\ by = "gate" => proposed = "kept"
           /\ Kind(job.version) # "provisional_open"
<1>. USE DEF IInv, InstrumentTypeOK, Unread, Opening
<1>0. Confirmed(job.version) => Kind(job.version) = "resolved"
  BY DEF Confirmed
<1>1. ASSUME Consult \/ pc \in {"screened", "confirm", "screen"}
      PROVE  /\ pc \in {"decide", "screen", "screened", "confirm"}
             /\ job.version \in Versions /\ saved.pending = job.version
             /\ job.cmd \in DecideCommands /\ job.status \in {"kept", "reverted"}
             /\ Kind(job.version) # "none" => Proposed(job.version) = "kept"
  <2>1. mem = saved
    BY <1>1, PastLoad DEF Consult, Deciding
  <2>2. /\ job.version \in Versions /\ job.cmd \in DecideCommands
        /\ job.status \in {"kept", "reverted"}
    BY <1>1 DEF DecideInv, Pondering, Proposing, Consult, Deciding
  <2>3. saved.pending = job.version
    BY <1>1, <2>1 DEF DecideInv, Pondering, Proposing, Consult, Deciding
  <2>4. Kind(job.version) # "none" => Proposed(job.version) = "kept"
    BY <2>2, <2>3, Constants DEF GatedInv, Proposed
  <2>. QED BY <1>1, <2>2, <2>3, <2>4 DEF Consult, Deciding
<1>2. CASE ApplyConfirmation
  BY <1>0, <1>1, <1>2 DEF ApplyConfirmation
<1>3. CASE ApplyScreening
  BY <1>0, <1>1, <1>3 DEF ApplyScreening
<1>4. CASE AgentReverts
  BY <1>0, <1>1, <1>4 DEF AgentReverts
<1>5. CASE RefuseKeep
  <2>1. pc = "screen" /\ Kind(job.version) = "none"
    BY <1>5 DEF RefuseKeep, Screenable, DecideInv, Proposing
  <2>. QED BY <1>0, <1>1, <1>5, <2>1 DEF RefuseKeep
<1>. QED BY <1>2, <1>3, <1>4, <1>5 DEF Decides

\* The save itself.
LEMMA SettleEffect ==
  ASSUME InstrumentTypeOK, job.version \in Versions, mem = saved,
         NEW status \in {"kept", "reverted"}, NEW by \in {"gate", "agent", "helper"},
         NEW proposed \in {"kept", "reverted"}, Settle(status, by, proposed)
  PROVE  /\ mem' = saved' /\ saved' \in State
         /\ saved'.pending = None
         /\ saved'.head = IF status = "kept" THEN job.version ELSE saved.head
         /\ saved'.intent = saved.intent /\ saved'.digests = saved.digests
         /\ saved'.parents = saved.parents
         /\ gated' \in Gated /\ gated'.blocked = None
         /\ gated'.settling \in Ruling
         /\ gated'.settling = [of |-> job.version, status |-> status, by |-> by, proposed |-> proposed]
         /\ frame' = [frame EXCEPT !.settled = "decided"] /\ pc' = "settle_status"
         /\ UNCHANGED <<main, versions, log, evidence, job, decisions, visible, fresh, rulings, outcome>>
<1>. USE DEF InstrumentTypeOK
<1>1. /\ mem' = [saved EXCEPT !.pending = None, !.head = IF status = "kept" THEN job.version ELSE @]
      /\ saved' = mem' /\ pc' = "settle_status"
      /\ frame' = [frame EXCEPT !.settled = "decided"]
      /\ UNCHANGED <<main, versions, log, evidence, job, decisions, visible, fresh, rulings, outcome>>
  BY DEF Settle, Goto
<1>2. /\ saved'.pending = None
      /\ saved'.head = IF status = "kept" THEN job.version ELSE saved.head
      /\ saved'.intent = saved.intent /\ saved'.digests = saved.digests
      /\ saved'.parents = saved.parents /\ saved' \in State
  BY <1>1 DEF State, VersionOrNone
<1>3. PICK r : r = [of |-> job.version, status |-> status, by |-> by, proposed |-> proposed]
  OBVIOUS
<1>4. r \in Ruling
  BY <1>3 DEF Ruling
<1>5. gated' = [unmeasurable |-> gated.unmeasurable, confirming |-> None, blocked |-> None,
                settling |-> r, proposal |-> None]
  BY <1>3 DEF Settle, NoGated
<1>6. gated' \in Gated
  BY <1>4, <1>5, GatedType DEF Gated, VersionOrNone
<1>. QED BY <1>1, <1>2, <1>3, <1>4, <1>5, <1>6

\* Stores into the instrument's part of state.json keep it well typed.
LEMMA GatedUpdates ==
  ASSUME gated \in Gated, NEW v \in Versions
  PROVE  /\ [gated EXCEPT !.unmeasurable = @ \cup {v}] \in Gated
         /\ [gated EXCEPT !.settling = NoRuling] \in Gated
         /\ [gated EXCEPT !.confirming = v] \in Gated
         /\ [gated EXCEPT !.proposal = v] \in Gated
         /\ [gated EXCEPT !.blocked = v, !.confirming = v] \in Gated
BY DEF Gated, VersionOrNone

\* Every step keeps the variables in their ranges.
LEMMA TypeStep == ASSUME IInv, [InstrumentNext]_instrumentVars PROVE InstrumentTypeOK'
<1>. InstrumentTypeOK /\ MemInv /\ RegisterInv /\ DecideInv /\ FrameInv
  BY DEF IInv
<1>. USE Constants, BlankType, EmptyType DEF InstrumentTypeOK, Labels, Goto, End, Outcomes, disk, added
<1>0. CASE StartCommand /\ UNCHANGED <<added, frame>>
  BY <1>0, StartCases
<1>1. CASE EditMain /\ UNCHANGED <<added, frame>>
  BY <1>1 DEF EditMain
<1>2. CASE LoseEvidence
  <2>1. visible' \in [Versions -> Units]
    BY <1>2 DEF LoseEvidence, Units, Whole
  <2>. QED BY <1>2, <2>1 DEF LoseEvidence
<1>3. CASE Load /\ UNCHANGED <<added, frame>>
  <2>. PICK p \in AdoptedPending(saved) :
         mem' = [saved EXCEPT
                   !.pending = p,
                   !.digests = [v \in Versions |-> IF v \in Unknown(saved) \ Broken
                                                   THEN versions[v] ELSE saved.digests[v]]]
    BY <1>3 DEF Load
  <2>1. p \in VersionOrNone
    BY StateType DEF AdoptedPending, Unknown, Snapshots, VersionOrNone
  <2>2. ASSUME NEW v \in Unknown(saved) \ Broken PROVE versions[v] \in Tree
    BY <2>2 DEF Broken, Unknown, Snapshots, Content
  <2>3. [v \in Versions |-> IF v \in Unknown(saved) \ Broken THEN versions[v] ELSE saved.digests[v]]
          \in [Versions -> Tree \cup {Missing}]
    BY <2>2, StateType
  <2>4. mem' \in State
    BY <2>1, <2>3 DEF State
  <2>. QED BY SMTT(30), <1>3, <2>4 DEF Load
<1>4. CASE RepairBlock /\ UNCHANGED <<added, frame>>
  <2>. PICK v \in Blockless :
         /\ log' = [log EXCEPT ![v] = RepairedBlock(v)]
         /\ mem' = IF mem.parents[v] = None
                   THEN [mem EXCEPT !.parents[v] = RepairParent(v)] ELSE mem
    BY <1>4 DEF RepairBlock
  <2>1. v \in Versions
    BY DEF Blockless, Snapshots
  <2>2. log' \in [Versions -> Block]
    BY <2>1, BlockType, LogType
  <2>3. mem' \in State
    BY RepairParentType DEF State
  <2>. QED BY <1>4, <2>2, <2>3 DEF RepairBlock
<1>5. CASE (RepairStatus \/ RepairHead) /\ UNCHANGED <<added, frame>>
  <2>1. PICK v \in VersionOrNone, st \in Statuses : log' = [log EXCEPT ![v].status = st]
    <3>1. CASE RepairStatus
      BY <3>1 DEF RepairStatus, SetStatus, Statuses, Torn, Snapshots, VersionOrNone
    <3>2. CASE RepairHead
      BY <3>2, StateType DEF RepairHead, SetStatus, HeadStatus, Statuses
    <3>. QED BY <1>5, <3>1, <3>2
  <2>2. log' \in [Versions -> Block]
    BY <2>1, LogType
  <2>. QED BY <1>5, <2>2 DEF RepairStatus, RepairHead
<1>6. CASE LoadDone /\ UNCHANGED <<added, frame>>
  <2>1. mem' \in State
    BY <1>6 DEF LoadDone, State, NoIntent, Intent, VersionOrNone
  <2>2. job.cmd \in Labels
    BY <1>6 DEF LoadDone, RegisterInv, Job, Commands
  <2>. QED BY <1>6, <2>1, <2>2 DEF LoadDone
<1>7. CASE (InitFresh \/ InitResume) /\ UNCHANGED <<added, frame>>
  <2>1. PICK tree \in Content : job' = [job EXCEPT !.version = First, !.tree = tree]
    BY <1>7 DEF InitFresh, InitResume
  <2>2. job' \in Job
    BY <2>1 DEF Job, VersionOrNone
  <2>. QED BY <1>7, <2>2 DEF InitFresh, InitResume
<1>8. CASE InitLog /\ UNCHANGED <<added, frame>>
  <2>1. log' \in [Versions -> Block]
    BY <1>8, LogType, BlockType DEF InitLog, Statuses
  <2>. QED BY <1>8, <2>1 DEF InitLog
<1>9. CASE InitSave /\ UNCHANGED <<added, frame>>
  <2>1. mem' \in State
    BY <1>9 DEF InitSave, State, RegisterInv, VersionOrNone
  <2>. QED BY <1>9, <2>1 DEF InitSave
<1>10. CASE PlaceCandidate /\ UNCHANGED <<added, frame>>
  BY <1>10 DEF PlaceCandidate, Content
<1>11. CASE (NothingNew \/ Status) /\ UNCHANGED <<added, frame>>
  BY <1>11 DEF NothingNew, Status
<1>12. CASE SaveIntent /\ UNCHANGED <<added, frame>>
  <2>. PICK v \in Versions :
         /\ mem' = [mem EXCEPT !.intent = [version |-> v, parent |-> mem.head]]
         /\ job' = [job EXCEPT !.version = v, !.tree = main]
    BY <1>12 DEF SaveIntent
  <2>1. mem' \in State
    <3>1. [version |-> v, parent |-> mem.head] \in Intent
      BY StateType DEF Intent, VersionOrNone
    <3>. QED BY <3>1 DEF State
  <2>2. job' \in Job
    BY DEF Job, VersionOrNone
  <2>. QED BY <1>12, <2>1, <2>2 DEF SaveIntent
<1>13. CASE StageSnapshot /\ UNCHANGED <<added, frame>>
  <2>1. job' \in Job
    BY ZenonT(60), <1>13 DEF StageSnapshot, Job
  <2>. QED BY <1>13, <2>1 DEF StageSnapshot
<1>14. CASE CommitSnapshot /\ UNCHANGED <<added, frame>>
  <2>1. versions' \in [Versions -> Content]
    BY <1>14 DEF CommitSnapshot, Job
  <2>. QED BY <1>14, <2>1 DEF CommitSnapshot
<1>15. CASE AppendBlock /\ UNCHANGED <<added, frame>>
  <2>1. log' \in [Versions -> Block]
    BY <1>15, LogType, BlockType DEF AppendBlock
  <2>. QED BY <1>15, <2>1 DEF AppendBlock
<1>16. CASE SaveCandidate /\ UNCHANGED <<added, frame>>
  <2>1. job.version \in Versions /\ job.tree \in Tree
    BY <1>16 DEF SaveCandidate, RegisterInv, Registering
  <2>2. NoIntent \in Intent
    BY DEF NoIntent, Intent, VersionOrNone
  <2>3. mem' = [mem EXCEPT !.pending = job.version, !.intent = NoIntent,
                           !.digests[job.version] = job.tree, !.parents[job.version] = mem.head]
    BY <1>16 DEF SaveCandidate
  <2>4. mem' \in State
    BY <2>1, <2>2, <2>3 DEF State, VersionOrNone
  <2>. QED BY <1>16, <2>4 DEF SaveCandidate
<1>17. CASE FinalizePending /\ UNCHANGED <<added, frame>>
  <2>1. job' \in Job
    BY <1>17, StateType DEF FinalizePending, Job
  <2>. QED BY <1>17, <2>1 DEF FinalizePending
<1>18. CASE InitMeasure
  <2>1. job' \in Job
    BY ZenonT(60), <1>18 DEF InitMeasure, Job, VersionOrNone, Finish
  <2>2. frame' \in Frame
    BY <1>18 DEF InitMeasure, Finish
  <2>. QED BY <1>18, <2>1, <2>2 DEF InitMeasure, Finish
<1>19. CASE Measure
  <2>1. visible' \in [Versions -> Units]
    BY ZenonT(60), <1>19 DEF Measure, Units, Failed
  <2>. QED BY <1>19, <2>1 DEF Measure
<1>20. CASE Score \/ Unscored
  <2>1. job.version \in Versions
    BY <1>20 DEF Score, Unscored, RegisterInv
  <2>2. log' \in [Versions -> Block]
    BY <1>20, <2>1, AppendLineType DEF Score, Unscored, LineKinds
  <2>. QED BY <1>20, <2>2 DEF Score, Unscored, Finish
<1>21. CASE MarkUnmeasurable
  <2>1. job.version \in Versions
    BY <1>21 DEF MarkUnmeasurable, RegisterInv
  <2>2. gated' \in Gated
    BY <1>21, <2>1, GatedUpdates DEF MarkUnmeasurable
  <2>. QED BY <1>21, <2>2 DEF MarkUnmeasurable, Finish
<1>22. CASE StayBlocked \/ SettleMain \/ Deliver \/ FinishConfirmation
  <2>1. PICK v \in VersionOrNone, label \in {"settle_clear", "play", "refused", "finalized", "ok"} :
          Ensure(v, label)
    BY <1>22, StateType DEF StayBlocked, SettleMain, Deliver, FinishConfirmation, Job
  <2>2. frame' \in Frame
    BY <2>1, FrameType
  <2>3. pc' \in Labels /\ job' \in Job /\ mem' \in State /\ outcome' \in Outcomes
    <3>1. CASE pc' = "swap" /\ UNCHANGED <<job, mem, outcome>>
      BY <3>1
    <3>2. CASE Return(label)
      BY <3>2, ReturnForm, FinishForm
    <3>3. (pc' = "swap" /\ UNCHANGED <<job, mem, outcome>>) \/ Return(label)
      BY <2>1 DEF Ensure, Call
    <3>. QED BY <3>1, <3>2, <3>3
  <2>. QED BY <1>22, <2>2, <2>3 DEF StayBlocked, SettleMain, Deliver, FinishConfirmation
<1>23. CASE Decides
  <2>1. PICK status \in {"kept", "reverted"}, by \in {"gate", "agent", "helper"}, proposed \in {"kept", "reverted"} :
          /\ Settle(status, by, proposed) /\ job.version \in Versions
          /\ pc \in {"decide", "screen", "screened", "confirm"}
    BY <1>23, SettleForm
  <2>2. mem = saved
    BY <2>1, PastLoad DEF Unread, Opening
  <2>3. /\ saved' \in State /\ mem' \in State /\ gated' \in Gated /\ pc' = "settle_status"
        /\ frame' = [frame EXCEPT !.settled = "decided"]
        /\ UNCHANGED <<main, versions, log, evidence, job, decisions, visible, fresh, rulings, outcome>>
    BY <2>1, <2>2, SettleEffect
  <2>4. frame' \in Frame
    BY <2>3 DEF Frame
  <2>. QED BY <2>3, <2>4
<1>24. CASE OpenConfirmation \/ SaveProposal \/ BlockGate
  <2>1. job.version \in Versions
    BY <1>24 DEF OpenConfirmation, SaveProposal, BlockGate, Consult, Deciding, Screenable, DecideInv, Pondering,
      Proposing, Resolving
  <2>2. gated' \in Gated
    <3>1. PICK v \in Versions : v = job.version
      BY <2>1
    <3>2. CASE OpenConfirmation
      BY <3>1, <3>2, GatedUpdates DEF OpenConfirmation
    <3>3. CASE SaveProposal
      BY <3>1, <3>3, GatedUpdates DEF SaveProposal
    <3>4. CASE BlockGate
      BY <3>1, <3>4, GatedUpdates DEF BlockGate
    <3>. QED BY <1>24, <3>2, <3>3, <3>4
  <2>3. CASE OpenConfirmation \/ SaveProposal
    BY <2>2, <2>3 DEF OpenConfirmation, SaveProposal
  <2>4. CASE BlockGate
    <3>1. frame' \in Frame /\ pc' \in Labels /\ job' \in Job /\ mem' \in State /\ outcome' \in Outcomes
      <4>1. Ensure(mem.head, "refused") /\ mem.head \in VersionOrNone
        BY <2>4, StateType DEF BlockGate
      <4>. QED BY <4>1, FrameType, EnsureForm, ReturnForm, FinishForm
    <3>. QED BY SMTT(30), <2>2, <2>4, <3>1 DEF BlockGate
  <2>. QED BY <1>24, <2>3, <2>4
<1>25. CASE ProposeKeep
  BY <1>25 DEF ProposeKeep
<1>26. CASE MeasureHead
  <2>1. visible' \in [Versions -> Units]
    BY ZenonT(60), <1>26 DEF MeasureHead, Units, Failed
  <2>. QED BY <1>26, <2>1 DEF MeasureHead, Finish
<1>27. CASE GateScreens \/ GateConfirms
  <2>1. job.version \in Versions /\ mem.head \in Versions
    BY <1>27, PastLoad DEF GateScreens, GateConfirms, DecideInv, Pondering, Proposing, Resolving, Unread, Opening
  <2>2. PICK replicates \in BOOLEAN, disposition \in {"keep", "revert", "provisional"} :
          GateAppends(replicates, disposition)
    BY <1>27 DEF GateScreens, GateConfirms
  <2>3. PICK line \in DecisionLine : decisions' = Append(decisions, line)
    BY <2>1, <2>2 DEF GateAppends, DecisionLine
  <2>4. decisions' \in Seq(DecisionLine)
    BY <2>3
  <2>. QED BY ZenonT(60), <1>27, <2>4 DEF GateScreens, GateConfirms
<1>28. CASE Play
  <2>1. fresh' \in [Versions -> SUBSET Roles]
    BY <1>28 DEF Play
  <2>. QED BY <1>28, <2>1 DEF Play
<1>29. CASE ResumeSettlement
  <2>1. frame' \in Frame
    BY <1>29 DEF ResumeSettlement, Frame
  <2>. QED BY <1>29, <2>1 DEF ResumeSettlement
<1>30. CASE SettleStatus
  <2>1. gated.settling \in Ruling
    BY <1>30, GatedType DEF SettleStatus, FrameInv, InSettlement, Settling
  <2>2. gated.settling.status \in Statuses
    BY <2>1 DEF Ruling, Statuses
  <2>3. log' \in [Versions -> Block]
    BY <1>30, <2>2, LogType DEF SettleStatus, SetStatus
  <2>. QED BY <1>30, <2>3 DEF SettleStatus
<1>31. CASE SettleLines
  <2>1. PICK r \in Ruling : r = gated.settling
    BY <1>31, GatedType DEF SettleLines, FrameInv, InSettlement, Settling
  <2>2. \A b \in Versions : Append(rulings[b], r) \in Seq(Ruling)
    BY <2>1
  <2>3. rulings' = rulings \/ \E b \in Versions : rulings' = [rulings EXCEPT ![b] = Append(@, r)]
    BY <1>31, <2>1 DEF SettleLines
  <2>. HIDE DEF Ruling
  <2>4. rulings' \in [Versions -> Seq(Ruling)]
    <3>1. CASE rulings' = rulings
      BY <3>1
    <3>2. CASE \E b \in Versions : rulings' = [rulings EXCEPT ![b] = Append(@, r)]
      BY <2>2, <3>2
    <3>. QED BY <2>3, <3>1, <3>2
  <2>. QED BY <1>31, <2>4 DEF SettleLines
<1>32. CASE ClearSettlement
  <2>1. gated' \in Gated
    BY <1>32, GatedUpdates DEF ClearSettlement
  <2>2. frame' \in Frame /\ pc' \in Labels /\ job' \in Job /\ mem' \in State /\ outcome' \in Outcomes
    BY <1>32 DEF ClearSettlement, Finish
  <2>. QED BY <1>32, <2>1, <2>2 DEF ClearSettlement
<1>33. CASE Restore
  <2>1. mem' \in State
    BY <1>33 DEF Restore, State, Job
  <2>2. frame' \in Frame
    BY <1>33 DEF Restore, Frame, Job
  <2>. QED BY <1>33, <2>1, <2>2 DEF Restore
<1>34. CASE FinalizeSettled
  BY <1>34 DEF FinalizeSettled
<1>35. CASE Walk
  <2>1. mem' \in State
    BY ZenonT(60), <1>35 DEF Walk, Visited, State, VersionOrNone
  <2>. QED BY <1>35, <2>1 DEF Walk
<1>36. CASE PutAside
  BY <1>36 DEF PutAside, Content
<1>37. CASE PutInPlace
  <2>1. frame.target \in Versions /\ frame.swapped \in {"settle_clear", "play", "refused", "finalized", "ok"}
        /\ Return(frame.swapped)
    BY <1>37 DEF PutInPlace, FrameInv, Frame
  <2>2. frame' \in Frame
    BY <2>1, FrameType
  <2>3. main' \in Content
    BY <1>37, <2>1 DEF PutInPlace
  <2>4. pc' \in Labels /\ job' \in Job /\ mem' \in State /\ outcome' \in Outcomes
    BY <2>1, ReturnForm, FinishForm
  <2>. QED BY <1>37, <2>2, <2>3, <2>4 DEF PutInPlace
<1>38. CASE Refuse
  BY <1>38 DEF Refuse, Finish
<1>39. CASE Stop /\ frame' = NoFrame /\ UNCHANGED added
  BY <1>39 DEF Stop
<1>40. CASE StopInAppend /\ frame' = NoFrame /\ UNCHANGED added
  <2>1. \E v \in VersionOrNone, w \in Block : \E b \in TornBlocks(w) : log' = [log EXCEPT ![v] = b]
    <3>1. CASE pc = "append"
      BY <1>40, <3>1, BlockType DEF StopInAppend, Job
    <3>2. CASE pc = "repair"
      <4>1. PICK v \in Blockless : \E b \in TornBlocks(RepairedBlock(v)) : log' = [log EXCEPT ![v] = b]
        BY <1>40, <3>2 DEF StopInAppend
      <4>2. v \in Versions /\ v \in VersionOrNone
        BY DEF Blockless, Snapshots, VersionOrNone
      <4>. QED BY <4>1, <4>2, BlockType
    <3>3. CASE pc = "init_log"
      BY <1>40, <3>3, BlockType DEF StopInAppend, VersionOrNone
    <3>. QED BY <1>40, <3>1, <3>2, <3>3 DEF StopInAppend
  <2>2. log' \in [Versions -> Block]
    BY ZenonT(60), <2>1, LogType, TornType
  <2>. QED BY <1>40, <2>2 DEF StopInAppend
<1>41. CASE StopInRun
  <2>1. visible' \in [Versions -> Units]
    BY <1>41 DEF StopInRun, Units
  <2>2. fresh' \in [Versions -> SUBSET Roles]
    <3>1. CASE fresh' = fresh
      BY <3>1
    <3>2. ASSUME NEW roles \in SUBSET Roles, fresh' = [fresh EXCEPT ![job.version] = @ \cup roles]
          PROVE  fresh' \in [Versions -> SUBSET Roles]
      BY <3>2
    <3>. QED BY <1>41, <3>1, <3>2 DEF StopInRun
  <2>. QED BY <1>41, <2>1, <2>2 DEF StopInRun, Finish
<1>42. CASE UNCHANGED instrumentVars
  BY <1>42 DEF instrumentVars, vars
<1>. QED
  BY <1>0, <1>1, <1>2, <1>3, <1>4, <1>5, <1>6, <1>7, <1>8, <1>9, <1>10, <1>11, <1>12, <1>13, <1>14, <1>15, <1>16,
     <1>17, <1>18, <1>19, <1>20, <1>21, <1>22, <1>23, <1>24, <1>25, <1>26, <1>27, <1>28, <1>29, <1>30, <1>31,
     <1>32, <1>33, <1>34, <1>35, <1>36, <1>37, <1>38, <1>39, <1>40, <1>41, <1>42
     DEF InstrumentNext, Outside, Step, SharedStep, Kill, Decides

-----------------------------------------------------------------------------
(* What each step writes of the record: the snapshots, the log, the state  *)
(* file, the gate's log and the rulings.                                   *)

record == <<versions, log, saved, decisions, gated, rulings>>

\* The steps that write each of them; every other step leaves the record alone.
StatusWriters ==
  \/ RepairBlock \/ RepairStatus \/ (RepairHead /\ ~Settling) \/ InitLog \/ AppendBlock
  \/ StopInAppend \/ SettleStatus
GatedWriters == MarkUnmeasurable \/ OpenConfirmation \/ SaveProposal \/ BlockGate \/ ClearSettlement

\* Which steps write the record, and what else of it they leave alone.
LEMMA RecordSteps ==
  ASSUME IInv, [InstrumentNext]_instrumentVars
  PROVE  \/ UNCHANGED record
         \/ /\ (LoadDone /\ ~Settling) \/ InitSave \/ SaveIntent \/ SaveCandidate \/ Restore \/ Walk
            /\ UNCHANGED <<versions, log, decisions, gated, rulings>>
         \/ Decides /\ UNCHANGED <<versions, log, decisions, rulings>>
         \/ CommitSnapshot /\ UNCHANGED <<log, saved, decisions, gated, rulings>>
         \/ StatusWriters /\ UNCHANGED <<versions, saved, decisions, gated, rulings>>
         \/ (Score \/ Unscored) /\ UNCHANGED <<versions, saved, decisions, gated, rulings>>
         \/ (GateScreens \/ GateConfirms) /\ UNCHANGED <<versions, log, saved, gated, rulings>>
         \/ GatedWriters /\ UNCHANGED <<versions, log, saved, decisions, rulings>>
         \/ SettleLines /\ UNCHANGED <<versions, log, saved, decisions, gated>>
<1>. InstrumentTypeOK /\ MemInv
  BY DEF IInv
<1>. USE DEF disk, added, record
<1>1. CASE Outside
  BY <1>1, StartCases DEF Outside, EditMain, LoseEvidence
<1>2. CASE SharedStep
  <2>. UNCHANGED added
    BY <1>2 DEF SharedStep
  <2>1. CASE \/ Load \/ InitFresh \/ InitResume \/ PlaceCandidate \/ NothingNew \/ StageSnapshot
             \/ FinalizePending \/ Status
    BY <2>1 DEF Load, InitFresh, InitResume, PlaceCandidate, NothingNew, StageSnapshot,
                FinalizePending, Status
  <2>2. CASE RepairBlock \/ RepairStatus \/ (RepairHead /\ ~Settling) \/ InitLog \/ AppendBlock
    BY <2>2 DEF StatusWriters, RepairBlock, RepairStatus, RepairHead, InitLog, AppendBlock
  <2>3. CASE (LoadDone /\ ~Settling) \/ InitSave \/ SaveIntent \/ SaveCandidate
    BY <2>3 DEF LoadDone, InitSave, SaveIntent, SaveCandidate
  <2>4. CASE CommitSnapshot
    BY <2>4 DEF CommitSnapshot
  <2>. QED BY <1>2, <2>1, <2>2, <2>3, <2>4 DEF SharedStep
<1>3. CASE \/ InitMeasure \/ Measure \/ StayBlocked \/ ProposeKeep \/ MeasureHead \/ FinishConfirmation
           \/ Play \/ ResumeSettlement \/ SettleMain \/ FinalizeSettled \/ Deliver \/ PutAside
           \/ PutInPlace \/ Refuse
  BY <1>3 DEF InitMeasure, Measure, StayBlocked, ProposeKeep, MeasureHead, FinishConfirmation, Play,
              ResumeSettlement, SettleMain, FinalizeSettled, Deliver, PutAside, PutInPlace, Refuse
<1>4. CASE Score \/ Unscored
  BY <1>4 DEF Score, Unscored
<1>5. CASE Decides
  BY <1>5 DEF Decides, ApplyConfirmation, ApplyScreening, AgentReverts, RefuseKeep, Settle
<1>6. CASE GatedWriters
  <2>1. mem = saved
    BY <1>6, PastLoad DEF GatedWriters, MarkUnmeasurable, OpenConfirmation, SaveProposal, BlockGate,
      ClearSettlement, Consult, Deciding, Screenable, Unread, Opening
  <2>2. CASE MarkUnmeasurable \/ OpenConfirmation \/ SaveProposal
    BY <2>1, <2>2 DEF MarkUnmeasurable, OpenConfirmation, SaveProposal, GatedWriters
  <2>3. CASE BlockGate \/ ClearSettlement
    BY <2>1, <2>3 DEF BlockGate, ClearSettlement, GatedWriters
  <2>. QED BY <1>6, <2>2, <2>3 DEF GatedWriters
<1>7. CASE GateScreens \/ GateConfirms
  BY <1>7 DEF GateScreens, GateConfirms
<1>8. CASE SettleStatus
  BY <1>8 DEF SettleStatus, StatusWriters
<1>9. CASE SettleLines
  BY <1>9 DEF SettleLines
<1>10. CASE Restore \/ Walk
  BY <1>10 DEF Restore, Walk
<1>11. CASE Kill
  BY <1>11 DEF Kill, Stop, StopInAppend, StopInRun, StatusWriters
<1>12. CASE UNCHANGED instrumentVars
  BY <1>12 DEF instrumentVars, vars
<1>. QED
  BY <1>1, <1>2, <1>3, <1>4, <1>5, <1>6, <1>7, <1>8, <1>9, <1>10, <1>11, <1>12
     DEF InstrumentNext, Step, Decides, GatedWriters

\* A version that may be the head is one the state knows.
LEMMA EndorsedKnown ==
  ASSUME IInv, Initialized, NEW v \in Versions, Endorsed(v)
  PROVE  saved.digests[v] # Missing
<1>1. CASE v = First
  BY <1>1 DEF IInv, SavedInv, Initialized
<1>2. CASE Confirmed(v)
  <2>1. PICK i \in LinesOf(v) : TRUE
    BY <1>2, KindForm DEF IInv, InstrumentTypeOK
  <2>2. i \in DOMAIN decisions /\ decisions[i].version = v
    BY DEF LinesOf
  <2>. QED BY <2>2 DEF IInv, DecisionsInv
<1>. QED BY <1>1, <1>2 DEF Endorsed

\* What the state does not know the gate knows nothing of.
LEMMA UnknownUndecided ==
  ASSUME InstrumentTypeOK, DecisionsInv, NEW v, saved.digests[v] = Missing
  PROVE  Kind(v) = "none" /\ ~Confirmed(v)
<1>1. LinesOf(v) = {}
  BY DEF LinesOf, DecisionsInv
<1>. QED BY <1>1, KindForm DEF InstrumentTypeOK

\* The head's own block says that it is the head, except where a settlement
\* that keeps it has not come to write so.
LEMMA HeadReadsKept ==
  ASSUME IInv, Initialized
  PROVE  /\ saved.head \in Declared
         /\ saved.head # gated.settling.of => log[saved.head].status = HeadStatus(saved.head)
<1>. USE DEF IInv, InstrumentTypeOK, Initialized
<1>0. saved.head \in Versions /\ saved.digests[saved.head] # Missing /\ saved.head # saved.pending
  BY StateType DEF SavedInv, VersionOrNone
<1>1. saved.head \in Declared /\ saved.head \notin Unknown(saved)
  BY <1>0 DEF SavedInv, LogInv, Blockless, Unknown, Snapshots
<1>2. CASE saved.head = First
  BY <1>1, <1>2 DEF LogInv, HeadStatus
<1>3. CASE saved.head # First /\ saved.head # gated.settling.of
  <2>1. Confirmed(saved.head)
    BY <1>3 DEF EndorsedInv, EndorsedIn, Endorsed
  <2>2. saved.head \in Ruled
    BY <1>0, <1>1, <1>3 DEF Ruled, Undecided
  <2>3. PICK r \in Ruling : r.of = saved.head /\ r.status = log[saved.head].status /\ Agrees(r)
    BY <1>0, <2>2 DEF RulingsInv
  <2>. QED BY <1>1, <1>3, <2>1, <2>3 DEF Agrees, HeadStatus
<1>. QED BY <1>1, <1>2, <1>3

\* So load_state never has to repair the head's block.
LEMMA NoHeadRepair == ASSUME IInv PROVE ~(RepairHead /\ ~Settling)
<1>. SUFFICES ASSUME RepairHead, ~Settling PROVE FALSE
  OBVIOUS
<1>1. mem.head = saved.head /\ Initialized
  BY DEF RepairHead, IInv, MemInv, Adopting, Unread, Opening
<1>2. gated.settling.of = None
  BY EmptyType DEF Settling
<1>3. saved.head # gated.settling.of
  BY <1>1, <1>2 DEF Initialized
<1>. QED BY <1>1, <1>3, HeadReadsKept DEF RepairHead, HeadReads

\* The four ways a block's status is written.
LEMMA StatusForm ==
  ASSUME IInv, StatusWriters
  PROVE  \E v \in Snapshots, st \in Statuses :
           /\ \A w \in Versions : log'[w].status = IF w = v THEN st ELSE log[w].status
           /\ st # "absent"
           /\ \/ Initialized /\ v \in Unknown(saved) /\ st \in {"torn", "reverted"}
              \/ ~Initialized /\ v = First /\ st \in {"torn", "baseline"}
              \/ Settling /\ v = gated.settling.of /\ st = gated.settling.status
<1>. DEFINE Form(v, st) ==
       /\ \A w \in Versions : log'[w].status = IF w = v THEN st ELSE log[w].status
       /\ st # "absent"
       /\ \/ Initialized /\ v \in Unknown(saved) /\ st \in {"torn", "reverted"}
          \/ ~Initialized /\ v = First /\ st \in {"torn", "baseline"}
          \/ Settling /\ v = gated.settling.of /\ st = gated.settling.status
<1>. InstrumentTypeOK /\ LogInv /\ MemInv /\ RegisterInv /\ ReconciledInv /\ FrameInv /\ SettlingInv /\ SavedInv
  BY DEF IInv
<1>0. \A v \in Versions, b \in Block :
        log' = [log EXCEPT ![v] = b] =>
          \A w \in Versions : log'[w].status = IF w = v THEN b.status ELSE log[w].status
  BY DEF InstrumentTypeOK
<1>1. CASE RepairBlock
  <2>1. PICK v \in Blockless : log' = [log EXCEPT ![v] = RepairedBlock(v)]
    BY <1>1 DEF RepairBlock
  <2>2. v \in Snapshots /\ v \in Versions /\ v \in Unknown(saved) /\ Initialized
    BY <1>1, <2>1 DEF RepairBlock, LogInv, MemInv, Unread, Opening, Blockless, Snapshots
  <2>3. RepairedBlock(v) \in Block /\ RepairedBlock(v).status = "reverted"
    BY <2>2, BlockType DEF RepairedBlock, InstrumentTypeOK
  <2>4. \A w \in Versions : log'[w].status = IF w = v THEN "reverted" ELSE log[w].status
    <3>1. PICK b \in Block : b = RepairedBlock(v)
      BY <2>3
    <3>2. log' = [log EXCEPT ![v] = b] /\ b.status = "reverted"
      BY <2>1, <2>3, <3>1
    <3>3. \A w \in Versions : log'[w].status = IF w = v THEN b.status ELSE log[w].status
      BY <1>0, <2>2, <3>2
    <3>. QED BY <3>2, <3>3
  <2>5. Form(v, "reverted")
    BY <2>2, <2>4
  <2>. QED BY <2>2, <2>5 DEF Statuses
<1>2. CASE RepairStatus
  <2>1. PICK v \in Torn : SetStatus(v, "reverted")
    BY <1>2 DEF RepairStatus
  <2>2. v \in Snapshots /\ v \in Versions /\ v \in Unknown(saved) /\ Initialized
    BY <1>2, <2>1 DEF RepairStatus, LogInv, MemInv, Unread, Opening, Torn, Snapshots
  <2>3. Form(v, "reverted")
    BY <2>1, <2>2 DEF SetStatus, InstrumentTypeOK, Block
  <2>. QED BY <2>2, <2>3 DEF Statuses
<1>3. CASE InitLog
  <2>1. ~Initialized /\ First \in Snapshots /\ log[First].status \in {"absent", "torn", "baseline"}
    BY <1>3, Constants DEF InitLog, RegisterInv, LogInv, Snapshots
  <2>2. Form(First, "baseline")
    BY <1>3, <2>1, Constants DEF InitLog, Declared, NewBlock, InstrumentTypeOK, Block
  <2>. QED BY <2>1, <2>2 DEF Statuses
<1>4. CASE AppendBlock
  <2>1. job.version \in Versions /\ job.version \in Unknown(saved) /\ Initialized /\ job.version \in Snapshots
    BY <1>4 DEF AppendBlock, RegisterInv, Registering, ReconciledInv, MemInv, Unread, Opening, Unknown
  <2>2. CandidateBlock \in Block /\ CandidateBlock.status = "reverted"
    BY <2>1, BlockType DEF CandidateBlock, NewBlock, InstrumentTypeOK
  <2>3. log' = [log EXCEPT ![job.version] = CandidateBlock]
    BY <1>4 DEF AppendBlock
  <2>4. \A w \in Versions : log'[w].status = IF w = job.version THEN "reverted" ELSE log[w].status
    <3>1. PICK b \in Block : b = CandidateBlock
      BY <2>2
    <3>2. log' = [log EXCEPT ![job.version] = b] /\ b.status = "reverted"
      BY <2>2, <2>3, <3>1
    <3>3. \A w \in Versions : log'[w].status = IF w = job.version THEN b.status ELSE log[w].status
      BY <1>0, <2>1, <3>2
    <3>. QED BY <3>2, <3>3
  <2>5. Form(job.version, "reverted")
    BY <2>1, <2>4
  <2>. QED BY <2>1, <2>5 DEF Statuses
<1>5. CASE SettleStatus
  <2>1. Settling /\ gated.settling \in Ruling /\ SetStatus(gated.settling.of, gated.settling.status)
    BY <1>5, GatedType DEF SettleStatus, FrameInv, InSettlement, Settling, InstrumentTypeOK
  <2>2. gated.settling.of \in Versions /\ gated.settling.status \in {"kept", "reverted"}
    BY <2>1 DEF Ruling
  <2>3. gated.settling.of \in Snapshots
    BY <2>1, <2>2 DEF SettlingInv, SavedInv, Snapshots
  <2>4. \A w \in Versions : log'[w].status = IF w = gated.settling.of THEN gated.settling.status ELSE log[w].status
    BY <2>1, <2>2 DEF SetStatus, InstrumentTypeOK, Block
  <2>5. Form(gated.settling.of, gated.settling.status)
    BY <2>1, <2>2, <2>4
  <2>. QED BY <2>2, <2>3, <2>5 DEF Statuses
<1>6. CASE StopInAppend
  <2>1. CASE pc = "append"
    <3>1. PICK b \in TornBlocks(CandidateBlock) : log' = [log EXCEPT ![job.version] = b]
      BY <1>6, <2>1 DEF StopInAppend
    <3>2. CandidateBlock \in Block /\ CandidateBlock.status = "reverted"
      BY BlockType, Constants DEF CandidateBlock, NewBlock, InstrumentTypeOK
    <3>3. b \in Block /\ b.status \in {"torn", "reverted"}
      BY <3>1, <3>2, TornType
    <3>4. job.version \in Versions /\ job.version \in Unknown(saved) /\ Initialized /\ job.version \in Snapshots
      BY <2>1 DEF RegisterInv, Registering, ReconciledInv, MemInv, Unread, Opening, Unknown
    <3>5. Form(job.version, b.status)
      BY <1>0, <3>1, <3>3, <3>4
    <3>. QED BY <3>3, <3>4, <3>5 DEF Statuses
  <2>2. CASE pc = "repair"
    <3>1. PICK v \in Blockless : \E b \in TornBlocks(RepairedBlock(v)) : log' = [log EXCEPT ![v] = b]
      BY <1>6, <2>2 DEF StopInAppend
    <3>2. PICK b \in TornBlocks(RepairedBlock(v)) : log' = [log EXCEPT ![v] = b]
      BY <3>1
    <3>3. v \in Snapshots /\ v \in Versions /\ v \in Unknown(saved) /\ Initialized
      BY <2>2, <3>1 DEF LogInv, MemInv, Unread, Opening, Blockless, Snapshots
    <3>4. RepairedBlock(v) \in Block /\ RepairedBlock(v).status = "reverted"
      BY <3>3, BlockType DEF RepairedBlock, InstrumentTypeOK
    <3>5. b \in Block /\ b.status \in {"torn", "reverted"}
      BY <3>2, <3>4, TornType
    <3>6. Form(v, b.status)
      BY <1>0, <3>2, <3>3, <3>5
    <3>. QED BY <3>3, <3>5, <3>6 DEF Statuses
  <2>3. CASE pc = "init_log"
    <3>1. PICK b \in TornBlocks(NewBlock("baseline", None)) : log' = [log EXCEPT ![First] = b]
      BY <1>6, <2>3 DEF StopInAppend
    <3>2. NewBlock("baseline", None) \in Block /\ NewBlock("baseline", None).status = "baseline"
      BY BlockType, Constants DEF NewBlock, InstrumentTypeOK
    <3>3. b \in Block /\ b.status \in {"torn", "baseline"}
      BY <3>1, <3>2, TornType
    <3>4. ~Initialized /\ First \in Snapshots
      BY <2>3, Constants DEF RegisterInv, Snapshots
    <3>5. Form(First, b.status)
      BY <1>0, <3>1, <3>3, <3>4, Constants
    <3>. QED BY <3>3, <3>4, <3>5 DEF Statuses
  <2>. QED BY <1>6, <2>1, <2>2, <2>3 DEF StopInAppend
<1>. QED BY <1>1, <1>2, <1>3, <1>4, <1>5, <1>6, NoHeadRepair DEF StatusWriters

-----------------------------------------------------------------------------
(* What the saves of state.json write.                                     *)

\* What load_state makes pending: what was, or a snapshot the state did not know.
LEMMA Adopted ==
  ASSUME NEW p \in AdoptedPending(saved)
  PROVE  p = saved.pending \/ (saved.pending = None /\ p \in Unknown(saved) \ {saved.head})
BY DEF AdoptedPending

\* load_state saves what it adopted.
LEMMA LoadSaves ==
  ASSUME IInv, LoadDone
  PROVE  /\ Initialized /\ saved' = mem' /\ saved'.head = saved.head
         /\ saved'.pending \in AdoptedPending(saved)
         /\ \/ saved'.pending = saved.pending
            \/ saved.pending = None /\ saved'.pending \in Unknown(saved) \ {saved.head}
         /\ \A v \in Versions :
              saved'.digests[v] = IF v \in Unknown(saved) THEN versions[v] ELSE saved.digests[v]
         /\ saved'.parents = mem.parents
         /\ saved'.intent.parent \in {None, mem.intent.parent}
         /\ Broken = {} /\ Blockless = {} /\ Torn = {}
<1>. USE DEF IInv, InstrumentTypeOK
<1>1. /\ Initialized /\ mem.head = saved.head
      /\ mem.pending \in AdoptedPending(saved)
      /\ Broken = {} /\ Blockless = {} /\ Torn = {}
      /\ \A v \in Versions :
           mem.digests[v] = IF v \in Unknown(saved) THEN versions[v] ELSE saved.digests[v]
  BY DEF LoadDone, MemInv, Adopting, Unread, Opening
<1>2. /\ saved' = mem' /\ saved'.head = mem.head /\ saved'.pending = mem.pending
      /\ saved'.digests = mem.digests /\ saved'.parents = mem.parents
      /\ saved'.intent.parent \in {None, mem.intent.parent}
  BY DEF LoadDone, State, NoIntent
<1>. QED BY <1>1, <1>2, Adopted

\* The first state of a rollout.
LEMMA InitSaves ==
  ASSUME IInv, InitSave
  PROVE  /\ ~Initialized /\ saved = Blank /\ mem' = saved'
         /\ saved'.head = First /\ saved'.pending = None /\ saved'.intent.parent = None
         /\ saved'.parents = [v \in Versions |-> None]
         /\ job.tree \in Tree
         /\ \A v \in Versions : saved'.digests[v] = IF v = First THEN job.tree ELSE Missing
         /\ Snapshots = {First} /\ log[First].status = "baseline"
<1>. USE DEF IInv
<1>1. ~Initialized /\ saved = Blank /\ job.tree \in Tree /\ log[First].status = "baseline"
      /\ versions[First] # Missing
  BY DEF InitSave, RegisterInv, SavedInv, Initialized
<1>2. Snapshots = {First}
  BY <1>1, Constants DEF UnknownInv, Snapshots
<1>. QED BY <1>1, <1>2, Constants DEF InitSave, Blank, NoIntent

\* evaluate announces the version it is about to make.
LEMMA IntentSaves ==
  ASSUME IInv, SaveIntent
  PROVE  /\ Initialized /\ mem = saved /\ saved' = mem'
         /\ saved'.head = saved.head /\ saved'.pending = saved.pending /\ saved.pending = None
         /\ saved'.digests = saved.digests /\ saved'.parents = saved.parents
         /\ saved'.intent.parent = saved.head
         /\ \E v \in Versions : IsNextId(v) /\ job' = [job EXCEPT !.version = v, !.tree = main]
<1>1. mem = saved /\ Initialized
  BY PastLoad DEF IInv, SaveIntent, MemInv, Unread, Opening
<1>2. PICK v \in Versions :
        /\ IsNextId(v) /\ job' = [job EXCEPT !.version = v, !.tree = main]
        /\ mem' = [mem EXCEPT !.intent = [version |-> v, parent |-> mem.head]]
  BY DEF SaveIntent
<1>. QED BY <1>1, <1>2 DEF SaveIntent, EvaluateOpen, IInv, InstrumentTypeOK, State

\* evaluate makes its snapshot the pending candidate.
LEMMA CandidateSaves ==
  ASSUME IInv, SaveCandidate
  PROVE  /\ Initialized /\ mem = saved /\ saved' = mem'
         /\ job.version \in Versions /\ Unknown(saved) = {job.version} /\ saved.pending = None
         /\ job.version # saved.head /\ job.version # First
         /\ saved'.head = saved.head /\ saved'.pending = job.version
         /\ saved'.intent.parent = None
         /\ job.tree \in Tree
         /\ saved'.digests = [saved.digests EXCEPT ![job.version] = job.tree]
         /\ saved'.parents = [saved.parents EXCEPT ![job.version] = saved.head]
<1>. USE DEF IInv, InstrumentTypeOK
<1>1. mem = saved /\ Initialized
  BY PastLoad DEF SaveCandidate, MemInv, Unread, Opening
<1>2. job.version \in Versions /\ job.tree \in Tree /\ saved.pending = None /\ Unknown(saved) = {job.version}
  BY <1>1 DEF SaveCandidate, RegisterInv, Registering, ReconciledInv
<1>3. job.version # saved.head /\ job.version # First
  BY <1>1, <1>2 DEF SavedInv, Unknown, Initialized
<1>4. mem' = [mem EXCEPT !.pending = job.version, !.intent = NoIntent,
                         !.digests[job.version] = job.tree, !.parents[job.version] = mem.head]
      /\ saved' = mem'
  BY DEF SaveCandidate
<1>. QED BY <1>1, <1>2, <1>3, <1>4 DEF State, NoIntent

\* Every version the walk looks at may be the head.
LEMMA VisitedEndorsed == ASSUME IInv, pc = "walk", NEW v \in Visited PROVE v \in Versions /\ Endorsed(v)
<1>. DEFINE S == {w \in Versions : Endorsed(w)}
<1>1. mem = saved /\ saved.head \in Versions /\ saved \in State /\ EndorsedIn(saved) /\ Initialized
  BY PastLoad, Constants DEF IInv, InstrumentTypeOK, EndorsedInv, Unread, Opening, Initialized
<1>2. mem.head \in S
  BY <1>1 DEF EndorsedIn, Initialized
<1>3. ASSUME NEW w \in S PROVE Ancestor(w) \in S
  BY <1>1, Constants, StateType DEF EndorsedIn, Ancestor, Endorsed, VersionOrNone
<1>4. S \in SUBSET Versions
  OBVIOUS
<1>. HIDE DEF S
<1>5. v \in S
  BY <1>2, <1>3, <1>4 DEF Visited
<1>. QED BY <1>5 DEF S

\* restore and the safety walk move the head to a version that may be it.
LEMMA HeadMoves ==
  ASSUME IInv, Restore \/ Walk
  PROVE  /\ Initialized /\ mem = saved /\ saved' = mem' /\ saved.pending = None /\ ~Settling
         /\ Unknown(saved) = {}
         /\ saved'.head \in Versions /\ Endorsed(saved'.head) /\ saved.digests[saved'.head] # Missing
         /\ saved'.pending = None /\ saved'.intent = saved.intent
         /\ saved'.digests = saved.digests /\ saved'.parents = saved.parents
<1>. USE DEF IInv, InstrumentTypeOK
<1>1. pc \in {"restore", "walk"}
  BY DEF Restore, Walk
<1>2. mem = saved /\ Initialized
  BY <1>1, PastLoad DEF MemInv, Unread, Opening
<1>3. saved.pending = None
  BY <1>2 DEF Restore, Walk, DecideInv
<1>4. ~Settling /\ Unknown(saved) = {}
  BY <1>1, <1>2 DEF FrameInv, InSettlement, Swapping, Unread, ReconciledInv
<1>5. PICK v \in Versions : Endorsed(v) /\ mem' = [mem EXCEPT !.head = v] /\ saved' = mem'
  <2>1. CASE Restore
    BY <2>1 DEF Restore, DecideInv
  <2>2. CASE Walk
    BY <2>2, VisitedEndorsed DEF Walk
  <2>. QED BY <2>1, <2>2
<1>6. saved'.head = v /\ saved'.pending = None /\ saved'.intent = saved.intent
      /\ saved'.digests = saved.digests /\ saved'.parents = saved.parents
  BY <1>2, <1>3, <1>5 DEF State
<1>7. saved.digests[v] # Missing
  BY <1>2, <1>5, EndorsedKnown
<1>. QED BY <1>2, <1>3, <1>4, <1>5, <1>6, <1>7

\* The rename of a staged copy adds one snapshot, the latest, which the state
\* does not know.
LEMMA CommitEffect ==
  ASSUME IInv, CommitSnapshot
  PROVE  /\ job.version \in Versions /\ versions[job.version] = Missing
         /\ UNCHANGED <<saved, job, log>>
         /\ saved.digests[job.version] = Missing
         /\ \A u \in Snapshots : u < job.version
         /\ Snapshots' = Snapshots \cup {job.version}
         /\ Unknown(saved)' = Unknown(saved) \cup {job.version}
         /\ \A v \in Versions \ {job.version} : versions'[v] = versions[v]
         /\ Unknown(saved) = {} \/ ~Initialized
         /\ saved.pending = None /\ ~Settling
         /\ ~Initialized => job.version = First
         /\ Initialized <=> job.cmd # "init"
<1>. USE DEF IInv, InstrumentTypeOK
<1>1. /\ job.version \in Versions /\ versions[job.version] = Missing
      /\ versions'[job.version] # Missing
      /\ \A v \in Versions \ {job.version} : versions'[v] = versions[v]
      /\ \A u \in Snapshots : u < job.version
      /\ UNCHANGED <<saved, job, log>>
  BY DEF CommitSnapshot, RegisterInv, Registering
<1>2. saved.digests[job.version] = Missing
  BY <1>1 DEF SavedInv
<1>3. Snapshots' = Snapshots \cup {job.version} /\ Unknown(saved)' = Unknown(saved) \cup {job.version}
  BY <1>1, <1>2 DEF Snapshots, Unknown
<1>4. Unknown(saved) = {} \/ ~Initialized
  BY DEF CommitSnapshot, ReconciledInv, Unread
<1>5. saved.pending = None /\ ~Settling
  <2>1. CASE Initialized
    BY <2>1 DEF CommitSnapshot, RegisterInv, Registering, FrameInv, InSettlement, Swapping, Unread
  <2>2. CASE ~Initialized
    <3>1. saved = Blank
      BY <2>2 DEF SavedInv, Initialized
    <3>2. ~Settling
      BY <3>1, GatedType DEF SettlingInv, Settling, Blank
    <3>. QED BY <3>1, <3>2 DEF Blank
  <2>. QED BY <2>1, <2>2
<1>6. (~Initialized => job.version = First) /\ (Initialized <=> job.cmd # "init")
  BY DEF CommitSnapshot, RegisterInv, Registering
<1>. QED BY <1>1, <1>2, <1>3, <1>4, <1>5, <1>6

\* What KindForm says of a log holds of the next one, if that is one too.
KindFacts ==
  \A v : /\ Kind(v) \in {"none", "resolved", "provisional_open", "screening_revert"}
         /\ Kind(v) = "none" <=> LinesOf(v) = {}
         /\ Kind(v) = "resolved" <=> \E j \in LinesOf(v) : decisions[j].replicates
         /\ Kind(v) = "provisional_open" <=>
              \E i \in LinesOf(v) : LinesOf(v) = {i} /\ decisions[i].disposition = "provisional"
         /\ Confirmed(v) <=> \E j \in LinesOf(v) : decisions[j].disposition = "keep"

\* The same of the log a step leaves.
LEMMA KindFormNext == (decisions \in Seq(DecisionLine) /\ DecisionsInv)' => KindFacts'
<1>1. decisions \in Seq(DecisionLine) /\ DecisionsInv => KindFacts
  BY KindForm DEF KindFacts
<1>. QED BY <1>1, PTL

\* The gate's answer is one more line about the pending candidate.
LEMMA GateEffect ==
  ASSUME IInv, GateScreens \/ GateConfirms
  PROVE  \E w \in Versions :
           /\ w = job.version /\ w = saved.pending
           /\ ~Confirmed(w)
           /\ \A v : v # w => Kind(v)' = Kind(v) /\ (Confirmed(v)' <=> Confirmed(v))
           /\ GateScreens => Kind(w)' \in {"screening_revert", "provisional_open"} /\ ~Confirmed(w)'
           /\ GateConfirms => Kind(w) = "provisional_open" /\ Kind(w)' = "resolved"
           /\ DecisionsInv'
<1>. USE DEF IInv, InstrumentTypeOK
<1>1. /\ job.version \in Versions /\ job.version = saved.pending
      /\ Kind(job.version) = IF GateScreens THEN "none" ELSE "provisional_open"
      /\ pc = IF GateScreens THEN "gate" ELSE "gate_confirm"
  BY DEF GateScreens, GateConfirms, DecideInv, Pondering, Proposing, Resolving
<1>2. PICK w \in Versions : w = job.version
  BY <1>1
<1>3. /\ ~Confirmed(w)
      /\ GateScreens => LinesOf(w) = {}
      /\ GateConfirms => \E i \in DOMAIN decisions :
           LinesOf(w) = {i} /\ decisions[i].disposition = "provisional" /\ ~decisions[i].replicates
  <2>1. GateConfirms => ~GateScreens
    BY DEF GateScreens, GateConfirms
  <2>2. Kind(w) = IF GateScreens THEN "none" ELSE "provisional_open"
    BY <1>1, <1>2
  <2>3. ~Confirmed(w)
    BY <2>2 DEF Confirmed
  <2>4. GateScreens => LinesOf(w) = {}
    BY <2>2, KindForm
  <2>5. ASSUME GateConfirms
        PROVE  \E i \in DOMAIN decisions :
                 LinesOf(w) = {i} /\ decisions[i].disposition = "provisional" /\ ~decisions[i].replicates
    <3>1. PICK i \in LinesOf(w) : LinesOf(w) = {i} /\ decisions[i].disposition = "provisional"
      BY <2>1, <2>2, <2>5, KindForm
    <3>2. ~decisions[i].replicates
      BY <2>1, <2>2, <2>5, KindForm
    <3>. QED BY <3>1, <3>2 DEF LinesOf
  <2>. QED BY <2>3, <2>4, <2>5
<1>4. PICK replicates \in BOOLEAN, disposition \in {"keep", "revert", "provisional"} :
        /\ GateAppends(replicates, disposition)
        /\ GateScreens => ~replicates /\ disposition # "keep"
        /\ GateConfirms => replicates /\ disposition # "provisional"
  <2>1. GateConfirms => ~GateScreens
    BY DEF GateScreens, GateConfirms
  <2>2. CASE GateScreens
    BY <2>1, <2>2 DEF GateScreens
  <2>3. CASE GateConfirms
    BY <2>1, <2>3 DEF GateConfirms
  <2>. QED BY <2>2, <2>3
<1>5. PICK n \in Int :
        /\ \A i \in DOMAIN decisions : i < n
        /\ DOMAIN decisions' = DOMAIN decisions \cup {n}
        /\ \A i \in DOMAIN decisions : decisions'[i] = decisions[i]
        /\ decisions'[n].version = w
        /\ decisions'[n].replicates = replicates /\ decisions'[n].disposition = disposition
        /\ \A v : v # w => LinesOf(v)' = LinesOf(v)
        /\ LinesOf(w)' = LinesOf(w) \cup {n}
  <2>. PICK n \in Int :
         /\ \A i \in DOMAIN decisions : i < n
         /\ DOMAIN decisions' = DOMAIN decisions \cup {n}
         /\ \A i \in DOMAIN decisions : decisions'[i] = decisions[i]
         /\ decisions'[n] = [version |-> job.version, parent |-> mem.head,
                             replicates |-> replicates, disposition |-> disposition]
         /\ \A v : v # job.version => LinesOf(v)' = LinesOf(v)
         /\ \A v : v = job.version => LinesOf(v)' = LinesOf(v) \cup {n}
    BY <1>4, AppendedLines
  <2>1. /\ decisions'[n].version = w
        /\ decisions'[n].replicates = replicates /\ decisions'[n].disposition = disposition
    BY <1>2
  <2>2. \A v : v # w => LinesOf(v)' = LinesOf(v)
    BY <1>2
  <2>3. LinesOf(w)' = LinesOf(w) \cup {n}
    BY <1>2
  <2>. QED BY <2>1, <2>2, <2>3
<1>6. \A v : v # w => Kind(v)' = Kind(v) /\ (Confirmed(v)' <=> Confirmed(v))
  <2>. SUFFICES ASSUME NEW v, v # w PROVE Kind(v)' = Kind(v) /\ (Confirmed(v)' <=> Confirmed(v))
    OBVIOUS
  <2>1. LinesOf(v)' = LinesOf(v) /\ \A i \in LinesOf(v) : decisions'[i] = decisions[i]
    BY <1>5 DEF LinesOf
  <2>2. LastScreening(v)' = LastScreening(v)
    BY <2>1 DEF LastScreening
  <2>3. Kind(v)' = Kind(v)
    <3>1. LastScreening(v) \subseteq LinesOf(v)
      BY DEF LastScreening
    <3>2. {j \in LinesOf(v)' : \E i \in LastScreening(v)' : j > i}
            = {j \in LinesOf(v) : \E i \in LastScreening(v) : j > i}
      BY <2>1, <2>2
    <3>3. (\E i \in LastScreening(v)' : decisions'[i].disposition = "provisional")
            <=> (\E i \in LastScreening(v) : decisions[i].disposition = "provisional")
      BY <2>1, <2>2, <3>1
    <3>. QED BY <2>2, <3>2, <3>3 DEF Kind
  <2>4. Confirmed(v)' <=> Confirmed(v)
    BY <2>1, <2>3 DEF Confirmed
  <2>. QED BY <2>3, <2>4
<1>7. DecisionsInv'
  <2>0. DOMAIN decisions \subseteq Int /\ n \notin DOMAIN decisions /\ UNCHANGED saved
    <3>1. UNCHANGED saved
      BY DEF GateScreens, GateConfirms, disk
    <3>2. n \notin DOMAIN decisions
      BY <1>5
    <3>. QED BY <3>1, <3>2
  <2>1. ASSUME NEW i \in DOMAIN decisions', NEW j \in DOMAIN decisions', i < j,
               decisions'[i].version = decisions'[j].version
        PROVE  /\ ~decisions'[i].replicates /\ decisions'[j].replicates
               /\ decisions'[i].disposition = "provisional"
    <3>1. i \in DOMAIN decisions /\ decisions'[i] = decisions[i]
      BY <1>5, <2>0, <2>1
    <3>2. CASE j = n
      <4>1. i \in LinesOf(w)
        BY <1>5, <2>1, <3>1, <3>2 DEF LinesOf
      <4>2. GateConfirms
        BY <1>3, <4>1
      <4>. QED BY <1>3, <1>4, <1>5, <3>1, <3>2, <4>1, <4>2
    <3>3. CASE j # n
      <4>1. j \in DOMAIN decisions /\ decisions'[j] = decisions[j]
        BY <1>5, <3>3
      <4>. QED BY <2>1, <3>1, <4>1 DEF DecisionsInv, AskedOnce
    <3>. QED BY <3>2, <3>3
  <2>2. ASSUME NEW i \in DOMAIN decisions'
        PROVE  /\ decisions'[i].replicates =>
                    /\ decisions'[i].disposition # "provisional"
                    /\ \E j \in DOMAIN decisions' : decisions'[j].version = decisions'[i].version /\ j < i
               /\ ~decisions'[i].replicates => decisions'[i].disposition # "keep"
               /\ saved'.digests[decisions'[i].version] # Missing
    <3>1. CASE i = n
      <4>1. saved.digests[w] # Missing
        BY <1>1, <1>2, Constants DEF SavedInv
      <4>2. GateConfirms => \E j \in DOMAIN decisions : decisions[j].version = w
        BY <1>3 DEF LinesOf
      <4>3. replicates => GateConfirms /\ disposition # "provisional"
        BY <1>4
      <4>4. ~replicates => disposition # "keep"
        BY <1>4
      <4>5. replicates => \E j \in DOMAIN decisions' : decisions'[j].version = w /\ j < n
        BY <1>5, <4>2, <4>3
      <4>. QED BY <1>5, <2>0, <3>1, <4>1, <4>3, <4>4, <4>5
    <3>2. CASE i # n
      <4>1. i \in DOMAIN decisions /\ decisions'[i] = decisions[i]
        BY <1>5, <3>2
      <4>2. decisions[i].replicates => \E j \in DOMAIN decisions : decisions[j].version = decisions[i].version /\ j < i
        BY <4>1 DEF DecisionsInv, LinesOf
      <4>. QED BY <1>5, <2>0, <4>1, <4>2 DEF DecisionsInv
    <3>. QED BY <3>1, <3>2
  <2>3. AskedOnce'
    BY <2>1 DEF AskedOnce
  <2>. QED BY <2>2, <2>3 DEF DecisionsInv, LinesOf
<1>8. decisions' \in Seq(DecisionLine)
  BY TypeStep DEF InstrumentNext, Step
<1>9. GateScreens => Kind(w)' \in {"screening_revert", "provisional_open"} /\ ~Confirmed(w)'
  <2>. SUFFICES ASSUME GateScreens PROVE Kind(w)' \in {"screening_revert", "provisional_open"} /\ ~Confirmed(w)'
    OBVIOUS
  <2>1. LinesOf(w)' = {n} /\ ~decisions'[n].replicates /\ decisions'[n].disposition # "keep"
    BY <1>3, <1>4, <1>5
  <2>. QED BY <1>7, <1>8, <2>1, KindFormNext DEF KindFacts
<1>10. GateConfirms => Kind(w) = "provisional_open" /\ Kind(w)' = "resolved"
  <2>. SUFFICES ASSUME GateConfirms PROVE Kind(w) = "provisional_open" /\ Kind(w)' = "resolved"
    OBVIOUS
  <2>1. n \in LinesOf(w)' /\ decisions'[n].replicates
    BY <1>4, <1>5
  <2>2. Kind(w) = "provisional_open"
    BY <1>1, <1>2 DEF GateScreens, GateConfirms
  <2>. QED BY <1>7, <1>8, <2>1, <2>2, KindFormNext DEF KindFacts
<1>. QED BY <1>1, <1>2, <1>3, <1>6, <1>7, <1>9, <1>10

-----------------------------------------------------------------------------
(* The invariant: what it says of the parts of the record.                 *)

\* The save that settles the pending candidate, as the gate's log has it.
LEMMA DecideSaves ==
  ASSUME IInv, Decides
  PROVE  /\ Initialized /\ mem = saved /\ mem' = saved' /\ saved.head \in Versions
         /\ saved.pending \in Versions /\ job.version = saved.pending
         /\ job.cmd \in DecideCommands
         /\ ~Settling /\ Unknown(saved) = {}
         /\ saved'.pending = None
         /\ saved'.head = IF Confirmed(saved.pending) THEN saved.pending ELSE saved.head
         /\ saved'.intent = saved.intent /\ saved'.digests = saved.digests
         /\ saved'.parents = saved.parents
         /\ Kind(saved.pending) # "provisional_open"
         /\ gated'.blocked = None
         /\ gated'.settling \in Ruling /\ gated'.settling # NoRuling
         /\ gated'.settling.of = saved.pending
         /\ gated'.settling.status = "kept" <=> Confirmed(saved.pending)
         /\ gated'.settling.by = "gate" <=> Kind(saved.pending) # "none"
         /\ gated'.settling.by = "gate" => gated'.settling.proposed = "kept"
         /\ pc \in {"decide", "screen", "screened", "confirm"} /\ pc' = "settle_status"
         /\ frame' = [frame EXCEPT !.settled = "decided"]
         /\ UNCHANGED <<main, versions, log, evidence, job, decisions, visible, fresh, rulings, outcome>>
<1>1. PICK status \in {"kept", "reverted"}, by \in {"gate", "agent", "helper"},
           proposed \in {"kept", "reverted"} :
           /\ Settle(status, by, proposed)
           /\ pc \in {"decide", "screen", "screened", "confirm"}
           /\ job.version \in Versions /\ saved.pending = job.version
           /\ job.cmd \in DecideCommands
           /\ by = "gate" <=> Kind(job.version) # "none"
           /\ status = "kept" <=> Confirmed(job.version)
           /\ by = "gate" => proposed = "kept"
           /\ Kind(job.version) # "provisional_open"
  BY SettleForm
<1>2. InstrumentTypeOK /\ mem = saved /\ saved.head \in Versions /\ Initialized
  BY <1>1, PastLoad, Constants DEF IInv, Unread, Opening, Initialized
<1>3. /\ mem' = saved' /\ saved'.pending = None
      /\ saved'.head = IF status = "kept" THEN job.version ELSE saved.head
      /\ saved'.intent = saved.intent /\ saved'.digests = saved.digests
      /\ saved'.parents = saved.parents
      /\ gated'.blocked = None
      /\ gated'.settling \in Ruling
      /\ gated'.settling = [of |-> job.version, status |-> status, by |-> by, proposed |-> proposed]
      /\ frame' = [frame EXCEPT !.settled = "decided"] /\ pc' = "settle_status"
      /\ UNCHANGED <<main, versions, log, evidence, job, decisions, visible, fresh, rulings, outcome>>
  BY <1>1, <1>2, SettleEffect
<1>4. gated'.settling # NoRuling
  BY <1>3, EmptyType
<1>5. ~Settling
  BY <1>1 DEF IInv, FrameInv, InSettlement, Swapping, Unread
<1>6. Unknown(saved) = {}
  BY <1>1, <1>2 DEF IInv, ReconciledInv, Unread
<1>. QED BY <1>1, <1>2, <1>3, <1>4, <1>5, <1>6

-----------------------------------------------------------------------------
(* The record, step by step.                                               *)

\* A settlement that was begun is of a recorded version.
LEMMA SettlingFacts ==
  ASSUME IInv, Settling
  PROVE  /\ Initialized /\ gated.settling \in Ruling
         /\ gated.settling.of \in Versions /\ gated.settling.of # None
         /\ gated.settling.status \in {"kept", "reverted"}
         /\ saved.digests[gated.settling.of] # Missing
<1>1. gated.settling \in Ruling /\ gated.settling.of \in Versions
  BY GatedType DEF Settling, IInv, InstrumentTypeOK
<1>2. saved.digests[gated.settling.of] # Missing
  BY DEF IInv, SettlingInv
<1>3. Initialized
  BY <1>1, <1>2 DEF IInv, SavedInv, Initialized, Blank
<1>. QED BY <1>1, <1>2, <1>3, Constants DEF Ruling

\* The state file never names a head or a candidate it has no digest of.
LEMMA SavedStep == ASSUME IInv, [InstrumentNext]_instrumentVars PROVE SavedInv'
<1>. SavedInv /\ InstrumentTypeOK
  BY DEF IInv
<1>. USE DEF SavedInv
<1>1. CASE UNCHANGED <<versions, saved>>
  BY <1>1
<1>2. CASE LoadDone /\ UNCHANGED versions
  <2>1. /\ Initialized /\ saved'.head = saved.head
        /\ \/ saved'.pending = saved.pending
           \/ saved.pending = None /\ saved'.pending \in Unknown(saved) \ {saved.head}
        /\ \A v \in Versions :
             saved'.digests[v] = IF v \in Unknown(saved) THEN versions[v] ELSE saved.digests[v]
    BY <1>2, LoadSaves
  <2>2. saved.head \in Versions /\ saved.pending \in VersionOrNone
    BY <2>1, StateType DEF InstrumentTypeOK, Initialized, VersionOrNone
  <2>. QED BY <1>2, <2>1, <2>2, Constants DEF Unknown, Snapshots, Initialized, VersionOrNone
<1>3. CASE InitSave /\ UNCHANGED versions
  <2>1. /\ saved'.head = First /\ saved'.pending = None /\ job.tree \in Tree
        /\ \A v \in Versions : saved'.digests[v] = IF v = First THEN job.tree ELSE Missing
        /\ Snapshots = {First}
    BY <1>3, InitSaves
  <2>. QED BY <1>3, <2>1, Constants DEF Snapshots
<1>4. CASE SaveIntent /\ UNCHANGED versions
  BY <1>4, IntentSaves DEF Initialized
<1>5. CASE SaveCandidate /\ UNCHANGED versions
  <2>1. /\ Initialized
        /\ job.version \in Versions /\ Unknown(saved) = {job.version} /\ saved.pending = None
        /\ job.version # saved.head /\ job.version # First
        /\ saved'.head = saved.head /\ saved'.pending = job.version
        /\ job.tree \in Tree
        /\ saved'.digests = [saved.digests EXCEPT ![job.version] = job.tree]
    BY <1>5, CandidateSaves
  <2>2. saved.head \in Versions /\ saved.digests \in [Versions -> Tree \cup {Missing}]
    BY <2>1, StateType DEF InstrumentTypeOK, Initialized, VersionOrNone
  <2>. QED BY <1>5, <2>1, <2>2, Constants DEF Unknown, Snapshots, Initialized
<1>6. CASE (Restore \/ Walk) /\ UNCHANGED versions
  <2>1. /\ Initialized
        /\ saved'.head \in Versions /\ saved.digests[saved'.head] # Missing
        /\ saved'.pending = None /\ saved'.digests = saved.digests
    BY <1>6, HeadMoves
  <2>. QED BY <1>6, <2>1, Constants DEF Initialized
<1>7. CASE Decides
  <2>1. /\ Initialized /\ saved.pending \in Versions /\ saved.head \in Versions
        /\ saved'.pending = None /\ saved'.digests = saved.digests /\ versions' = versions
        /\ saved'.head = IF Confirmed(saved.pending) THEN saved.pending ELSE saved.head
    BY <1>7, DecideSaves
  <2>. QED BY <2>1, Constants DEF Initialized
<1>8. CASE CommitSnapshot
  BY <1>8, CommitEffect
<1>. QED BY <1>1, <1>2, <1>3, <1>4, <1>5, <1>6, <1>7, <1>8, RecordSteps DEF record

\* What the other saves change of the instrument's part of state.json.
LEMMA GatedForm ==
  ASSUME InstrumentTypeOK, GatedWriters
  PROVE  /\ gated'.settling = IF ClearSettlement THEN NoRuling ELSE gated.settling
         /\ gated'.blocked = IF BlockGate THEN job.version ELSE gated.blocked
         /\ gated'.proposal = IF SaveProposal THEN job.version ELSE gated.proposal
         /\ saved' = mem
<1>. USE DEF InstrumentTypeOK, Gated
<1>1. CASE MarkUnmeasurable
  BY <1>1 DEF MarkUnmeasurable, ClearSettlement, BlockGate, SaveProposal, Screenable
<1>2. CASE OpenConfirmation
  BY <1>2 DEF OpenConfirmation, ClearSettlement, BlockGate, SaveProposal, Screenable, Consult, Deciding
<1>3. CASE SaveProposal
  BY <1>3 DEF SaveProposal, ClearSettlement, BlockGate, Screenable
<1>4. CASE BlockGate
  BY <1>4 DEF BlockGate, ClearSettlement, SaveProposal, Screenable
<1>5. CASE ClearSettlement
  BY <1>5 DEF BlockGate, ClearSettlement, SaveProposal, Screenable
<1>. QED BY <1>1, <1>2, <1>3, <1>4, <1>5 DEF GatedWriters

\* At most one snapshot is unknown to the state file, and it is the latest one.
LEMMA UnknownStep == ASSUME IInv, [InstrumentNext]_instrumentVars PROVE UnknownInv'
<1>. UnknownInv /\ InstrumentTypeOK
  BY DEF IInv
<1>. USE DEF UnknownInv
<1>1. CASE UNCHANGED <<versions, saved, gated>>
  BY <1>1 DEF Unknown, Snapshots, Initialized
<1>2. CASE LoadDone /\ UNCHANGED <<versions, gated>>
  <2>1. /\ Initialized /\ saved'.head = saved.head
        /\ \/ saved'.pending = saved.pending
           \/ saved.pending = None /\ saved'.pending \in Unknown(saved) \ {saved.head}
        /\ \A v \in Versions :
             saved'.digests[v] = IF v \in Unknown(saved) THEN versions[v] ELSE saved.digests[v]
    BY <1>2, LoadSaves
  <2>2. Unknown(saved)' = {} /\ Snapshots' = Snapshots
    BY <1>2, <2>1 DEF Unknown, Snapshots
  <2>. QED BY <1>2, <2>1, <2>2 DEF Initialized
<1>3. CASE InitSave /\ UNCHANGED <<versions, gated>>
  <2>1. /\ ~Initialized /\ saved = Blank
        /\ saved'.head = First /\ saved'.pending = None /\ job.tree \in Tree
        /\ \A v \in Versions : saved'.digests[v] = IF v = First THEN job.tree ELSE Missing
        /\ Snapshots = {First}
    BY <1>3, InitSaves
  <2>2. Unknown(saved)' = {} /\ Snapshots' = {First}
    BY <1>3, <2>1, Constants DEF Unknown, Snapshots
  <2>3. ~Settling
    BY <2>1, GatedType DEF IInv, SettlingInv, Settling, Blank, InstrumentTypeOK
  <2>4. gated'.settling.of = None
    BY <1>3, <2>3, EmptyType DEF Settling
  <2>. QED BY <2>1, <2>2, <2>4, Constants DEF Initialized
<1>4. CASE SaveIntent /\ UNCHANGED <<versions, gated>>
  <2>1. Initialized /\ saved'.head = saved.head /\ saved'.pending = saved.pending
        /\ saved'.digests = saved.digests
    BY <1>4, IntentSaves
  <2>2. Unknown(saved)' = Unknown(saved) /\ Snapshots' = Snapshots
    BY <1>4, <2>1 DEF Unknown, Snapshots
  <2>. QED BY <1>4, <2>1, <2>2 DEF Initialized
<1>5. CASE SaveCandidate /\ UNCHANGED <<versions, gated>>
  <2>1. /\ Initialized
        /\ job.version \in Versions /\ Unknown(saved) = {job.version}
        /\ saved'.head = saved.head /\ saved'.pending = job.version
        /\ job.tree \in Tree
        /\ saved'.digests = [saved.digests EXCEPT ![job.version] = job.tree]
    BY <1>5, CandidateSaves
  <2>2. Unknown(saved)' = {} /\ Snapshots' = Snapshots
    BY <1>5, <2>1, StateType, Constants DEF Unknown, Snapshots, InstrumentTypeOK
  <2>. QED BY <1>5, <2>1, <2>2 DEF Initialized
<1>6. CASE (Restore \/ Walk) /\ UNCHANGED <<versions, gated>>
  <2>1. /\ Initialized /\ Unknown(saved) = {}
        /\ saved'.head \in Versions /\ saved'.pending = None /\ saved.pending = None
        /\ saved'.digests = saved.digests
    BY <1>6, HeadMoves
  <2>2. Unknown(saved)' = {} /\ Snapshots' = Snapshots
    BY <1>6, <2>1 DEF Unknown, Snapshots
  <2>. QED BY <1>6, <2>1, <2>2, Constants DEF Initialized
<1>7. CASE Decides
  <2>1. /\ Initialized /\ saved.pending \in Versions /\ saved.head \in Versions
        /\ saved'.pending = None /\ saved'.digests = saved.digests /\ versions' = versions
        /\ saved'.head = IF Confirmed(saved.pending) THEN saved.pending ELSE saved.head
        /\ gated'.settling.of = saved.pending
        /\ Unknown(saved) = {}
    BY <1>7, DecideSaves
  <2>2. Unknown(saved)' = {} /\ Snapshots' = Snapshots
    BY <2>1 DEF Unknown, Snapshots
  <2>. QED BY <2>1, <2>2, Constants DEF Initialized
<1>8. CASE CommitSnapshot /\ UNCHANGED gated
  <2>1. /\ job.version \in Versions
        /\ UNCHANGED saved
        /\ \A u \in Snapshots : u < job.version
        /\ Snapshots' = Snapshots \cup {job.version}
        /\ Unknown(saved)' = Unknown(saved) \cup {job.version}
        /\ Unknown(saved) = {} \/ ~Initialized
        /\ saved.pending = None /\ ~Settling
        /\ ~Initialized => job.version = First
    BY <1>8, CommitEffect
  <2>2. gated'.settling.of = None
    BY <1>8, <2>1, EmptyType DEF Settling
  <2>3. Initialized' <=> Initialized
    BY <2>1 DEF Initialized
  <2>4. CASE Initialized
    <3>. job.version \in Int /\ Snapshots \subseteq Int
      BY <2>1, Constants DEF Snapshots
    <3>. QED BY <2>1, <2>2, <2>3, <2>4
  <2>5. CASE ~Initialized
    <3>1. Snapshots' = {First} /\ Unknown(saved)' \subseteq {First}
      BY <2>1, <2>5 DEF Unknown, Snapshots
    <3>. QED BY <2>1, <2>3, <2>5, <3>1
  <2>. QED BY <2>4, <2>5
<1>9. CASE GatedWriters /\ UNCHANGED <<versions, saved>>
  <2>1. gated'.settling = gated.settling \/ gated'.settling = NoRuling
    BY <1>9, GatedForm
  <2>2. Unknown(saved)' = Unknown(saved) /\ Snapshots' = Snapshots /\ (Initialized' <=> Initialized)
    BY <1>9 DEF Unknown, Snapshots, Initialized
  <2>. QED BY <1>9, <2>1, <2>2, EmptyType
<1>. QED BY <1>1, <1>2, <1>3, <1>4, <1>5, <1>6, <1>7, <1>8, <1>9, RecordSteps DEF record

\* Blocks stay with their snapshots, and only what the gate confirmed reads kept.
LEMMA LogStep == ASSUME IInv, [InstrumentNext]_instrumentVars PROVE LogInv'
<1>. LogInv /\ InstrumentTypeOK /\ SavedInv
  BY DEF IInv
<1>. USE DEF LogInv
<1>1. ASSUME UNCHANGED <<versions, saved, decisions>>,
             \A v \in Versions : log'[v].status = log[v].status
      PROVE  LogInv'
  BY <1>1, KindFrame, Constants DEF Declared, Snapshots, Blockless, Torn, Unknown, Initialized
<1>2. ASSUME StatusWriters, UNCHANGED <<versions, saved, decisions, gated, rulings>>
      PROVE  LogInv'
  <2>1. PICK v \in Snapshots, st \in Statuses :
           /\ \A w \in Versions : log'[w].status = IF w = v THEN st ELSE log[w].status
           /\ st # "absent"
           /\ \/ Initialized /\ v \in Unknown(saved) /\ st \in {"torn", "reverted"}
              \/ ~Initialized /\ v = First /\ st \in {"torn", "baseline"}
              \/ Settling /\ v = gated.settling.of /\ st = gated.settling.status
    BY <1>2, StatusForm
  <2>2. v \in Versions /\ Snapshots' = Snapshots /\ Unknown(saved)' = Unknown(saved)
        /\ (Initialized' <=> Initialized)
    BY <1>2 DEF Snapshots, Unknown, Initialized
  <2>3. ASSUME Settling, v = gated.settling.of, st = gated.settling.status
        PROVE  /\ st \in {"kept", "reverted"} /\ (st = "kept" => Confirmed(v)) /\ v # First
               /\ v \notin Unknown(saved)
    <3>1. gated.settling \in Ruling
      BY <2>3, GatedType DEF InstrumentTypeOK, Settling
    <3>. QED BY <2>3, <3>1 DEF IInv, SettlingInv, Agrees, Ruling, Unknown
  <2>4. Initialized => First \notin Unknown(saved)
    BY DEF SavedInv, Initialized, Unknown
  <2>5. \A w \in Versions : Confirmed(w)' = Confirmed(w)
    BY <1>2, KindFrame
  <2>6. Settling => Initialized
    BY SettlingFacts
  <2>7. Declared' = Declared \cup {v} /\ Blockless' \subseteq Blockless
    BY <2>1, <2>2 DEF Declared, Blockless
  <2>8. Torn' \subseteq Torn \cup (IF st = "torn" THEN {v} ELSE {})
    BY <2>1, <2>2 DEF Torn, Snapshots
  <2>. QED BY <2>1, <2>2, <2>3, <2>4, <2>5, <2>6, <2>7, <2>8, Constants
<1>3. CASE (Score \/ Unscored) /\ UNCHANGED <<versions, saved, decisions, gated, rulings>>
  <2>1. \A v \in Versions : log'[v].status = log[v].status
    BY <1>3, AppendLineKeeps DEF Score, Unscored, InstrumentTypeOK
  <2>. QED BY <1>1, <1>3, <2>1
<1>4. ASSUME UNCHANGED <<versions, log, decisions>>, saved'.head # None => log[First].status = "baseline",
             saved'.head = None => saved.head = None,
             saved'.head # None => Blockless \cup Torn \subseteq Unknown(saved)'
      PROVE  LogInv'
  BY <1>4, KindFrame, Constants DEF Declared, Snapshots, Blockless, Torn, Initialized
<1>5. CASE LoadDone /\ UNCHANGED <<versions, log, decisions>>
  BY <1>4, <1>5, LoadSaves DEF Initialized
<1>6. CASE InitSave /\ UNCHANGED <<versions, log, decisions>>
  <2>1. saved'.head = First /\ Snapshots = {First} /\ log[First].status = "baseline"
        /\ saved = Blank
    BY <1>6, InitSaves
  <2>2. Blockless = {} /\ Torn = {}
    BY <2>1, Constants DEF Blockless, Torn, Declared
  <2>. QED BY <1>4, <1>6, <2>1, <2>2 DEF Blank
<1>7. CASE (SaveIntent \/ Restore \/ Walk \/ Decides) /\ UNCHANGED <<versions, log, decisions>>
  <2>1. saved'.digests = saved.digests /\ Initialized
    BY <1>7, IntentSaves, HeadMoves, DecideSaves
  <2>2. Unknown(saved)' = Unknown(saved)
    BY <1>7, <2>1 DEF Unknown, Snapshots
  <2>3. saved'.head # None
    BY <1>7, IntentSaves, HeadMoves, DecideSaves, Constants DEF Initialized
  <2>. QED BY <1>4, <1>7, <2>1, <2>2, <2>3 DEF Initialized
<1>8. CASE SaveCandidate /\ UNCHANGED <<versions, log, decisions>>
  <2>1. Initialized /\ Unknown(saved) = {job.version} /\ saved'.head = saved.head
    BY <1>8, CandidateSaves
  <2>2. log[job.version].status = "reverted"
    BY <1>8 DEF IInv, RegisterInv, SaveCandidate
  <2>3. Blockless = {} /\ Torn = {}
    BY <2>1, <2>2 DEF Blockless, Torn, Declared, Snapshots
  <2>. QED BY <1>4, <1>8, <2>1, <2>3 DEF Initialized
<1>9. CASE CommitSnapshot /\ UNCHANGED decisions
  <2>1. /\ UNCHANGED <<saved, log>>
        /\ Snapshots' = Snapshots \cup {job.version}
        /\ Unknown(saved)' = Unknown(saved) \cup {job.version}
    BY <1>9, CommitEffect
  <2>2. (Initialized' <=> Initialized) /\ Declared' = Declared
        /\ Blockless' \subseteq Blockless \cup {job.version} /\ Torn' \subseteq Torn \cup {job.version}
    BY <2>1 DEF Initialized, Declared, Blockless, Torn
  <2>3. \A v : Confirmed(v)' = Confirmed(v)
    BY <1>9, KindFrame
  <2>. QED BY <2>1, <2>2, <2>3
<1>10. CASE (GateScreens \/ GateConfirms) /\ UNCHANGED <<versions, log, saved>>
  <2>1. PICK w \in Versions : ~Confirmed(w) /\ \A v : v # w => (Confirmed(v)' <=> Confirmed(v))
    BY <1>10, GateEffect
  <2>2. Declared' = Declared /\ Snapshots' = Snapshots /\ Blockless' = Blockless /\ Torn' = Torn
        /\ Unknown(saved)' = Unknown(saved) /\ (Initialized' <=> Initialized)
    BY <1>10 DEF Declared, Snapshots, Blockless, Torn, Unknown, Initialized
  <2>. QED BY <1>10, <2>1, <2>2
<1>. QED
  BY <1>1, <1>2, <1>3, <1>5, <1>6, <1>7, <1>8, <1>9, <1>10, RecordSteps DEF record

\* The gate's log keeps its form: a screening, then perhaps its confirmation.
LEMMA DecisionsStep == ASSUME IInv, [InstrumentNext]_instrumentVars PROVE DecisionsInv'
<1>. DecisionsInv /\ InstrumentTypeOK
  BY DEF IInv
<1>0. \A i \in DOMAIN decisions : decisions[i].version \in Versions
  <2>1. \A i \in DOMAIN decisions : decisions[i] \in DecisionLine
    BY DEF InstrumentTypeOK
  <2>. QED BY <2>1 DEF DecisionLine
<1>1. ASSUME decisions' = decisions,
             \A v \in Versions : saved.digests[v] # Missing => saved'.digests[v] # Missing
      PROVE  DecisionsInv'
  BY <1>0, <1>1 DEF DecisionsInv, AskedOnce, LinesOf
<1>2. CASE UNCHANGED <<saved, decisions>>
  BY <1>1, <1>2
<1>3. CASE (LoadDone \/ InitSave \/ SaveIntent \/ SaveCandidate \/ Restore \/ Walk) /\ UNCHANGED decisions
  <2>1. CASE LoadDone
    <3>1. \A v \in Versions :
            saved'.digests[v] = IF v \in Unknown(saved) THEN versions[v] ELSE saved.digests[v]
      BY <2>1, LoadSaves
    <3>. QED BY <1>1, <1>3, <3>1 DEF Unknown
  <2>2. CASE InitSave
    <3>1. saved = Blank
      BY <2>2, InitSaves
    <3>. QED BY <1>1, <1>3, <3>1 DEF Blank
  <2>3. CASE SaveIntent \/ Restore \/ Walk
    <3>1. saved'.digests = saved.digests
      BY <2>3, IntentSaves, HeadMoves
    <3>. QED BY <1>1, <1>3, <3>1
  <2>4. CASE SaveCandidate
    <3>1. job.tree \in Tree /\ saved'.digests = [saved.digests EXCEPT ![job.version] = job.tree]
      BY <2>4, CandidateSaves
    <3>2. saved.digests \in [Versions -> Tree \cup {Missing}]
      BY StateType DEF InstrumentTypeOK
    <3>. QED BY <1>1, <1>3, <3>1, <3>2, Constants
  <2>. QED BY <1>3, <2>1, <2>2, <2>3, <2>4
<1>4. CASE Decides
  BY <1>1, <1>4, DecideSaves
<1>5. CASE CommitSnapshot /\ UNCHANGED decisions
  BY <1>2, <1>5, CommitEffect
<1>6. CASE GateScreens \/ GateConfirms
  BY <1>6, GateEffect
<1>. QED BY <1>2, <1>3, <1>4, <1>5, <1>6, RecordSteps DEF record

\* The proposal is saved before the gate is asked, and kept with the pending
\* candidate until the settlement clears both.
LEMMA GatedStep == ASSUME IInv, [InstrumentNext]_instrumentVars PROVE GatedInv'
<1>. GatedInv /\ InstrumentTypeOK
  BY DEF IInv
<1>. USE DEF GatedInv
<1>1. ASSUME UNCHANGED <<decisions>>, saved'.pending = saved.pending,
             gated'.blocked = gated.blocked, gated'.proposal = gated.proposal
      PROVE  GatedInv'
  BY <1>1, KindFrame
<1>2. CASE UNCHANGED <<saved, decisions, gated>>
  BY <1>1, <1>2
\* A snapshot that becomes pending is one the gate knows nothing of.
<1>3. ASSUME saved.pending = None, saved'.pending # None => saved.digests[saved'.pending] = Missing,
             UNCHANGED <<decisions, gated>>
      PROVE  GatedInv'
  <2>1. OpenVersions = {}
    BY <1>3, Constants DEF OpenVersions
  <2>2. gated.blocked = None
    BY <1>3
  <2>3. saved'.pending # None => Kind(saved'.pending) = "none"
    BY <1>3, UnknownUndecided DEF IInv
  <2>4. OpenVersions' = {} /\ \A v : Kind(v)' = Kind(v)
    BY <1>3, <2>1, KindFrame
  <2>5. Kind(saved.pending)' = Kind(saved'.pending)
    BY <2>4
  <2>. QED BY <1>3, <2>2, <2>3, <2>4, <2>5
<1>4. CASE (LoadDone \/ InitSave \/ SaveIntent \/ SaveCandidate \/ Restore \/ Walk) /\ UNCHANGED <<decisions, gated>>
  <2>1. CASE LoadDone
    BY <1>1, <1>3, <1>4, <2>1, LoadSaves DEF Unknown
  <2>2. CASE InitSave
    BY <1>3, <1>4, <2>2, InitSaves DEF Blank
  <2>3. CASE SaveIntent \/ Restore \/ Walk
    BY <1>1, <1>4, <2>3, IntentSaves, HeadMoves
  <2>4. CASE SaveCandidate
    BY <1>3, <1>4, <2>4, CandidateSaves DEF Unknown
  <2>. QED BY <1>4, <2>1, <2>2, <2>3, <2>4
<1>5. CASE Decides
  <2>1. /\ saved'.pending = None /\ gated'.blocked = None /\ UNCHANGED decisions
        /\ Kind(saved.pending) # "provisional_open"
    BY <1>5, DecideSaves
  <2>2. OpenVersions = {}
    BY <2>1 DEF OpenVersions
  <2>3. OpenVersions' = {}
    BY <2>1, <2>2, KindFrame
  <2>. QED BY <2>1, <2>3
<1>6. CASE CommitSnapshot /\ UNCHANGED <<decisions, gated>>
  BY <1>2, <1>6, CommitEffect
<1>7. CASE GatedWriters /\ UNCHANGED <<saved, decisions>>
  <2>1. CASE BlockGate
    <3>1. job.version = saved.pending /\ Kind(job.version) = "provisional_open"
      BY <2>1 DEF BlockGate, IInv, DecideInv, Pondering, Resolving
    <3>2. gated'.blocked = job.version /\ gated'.proposal = gated.proposal
      BY <1>7, <2>1, GatedForm DEF SaveProposal, Screenable, BlockGate
    <3>3. OpenVersions' = OpenVersions /\ \A v : Kind(v)' = Kind(v)
      BY <1>7, KindFrame
    <3>. QED BY <1>7, <3>1, <3>2, <3>3
  <2>2. CASE SaveProposal
    <3>1. job.version = saved.pending
      BY <2>2 DEF SaveProposal, Screenable, IInv, DecideInv, Pondering, Proposing
    <3>2. gated'.proposal = job.version /\ gated'.blocked = gated.blocked
      BY <1>7, <2>2, GatedForm DEF SaveProposal, Screenable, BlockGate
    <3>3. OpenVersions' = OpenVersions /\ \A v : Kind(v)' = Kind(v)
      BY <1>7, KindFrame
    <3>. QED BY <1>7, <3>1, <3>2, <3>3
  <2>3. CASE ~BlockGate /\ ~SaveProposal
    BY <1>1, <1>7, <2>3, GatedForm
  <2>. QED BY <2>1, <2>2, <2>3
<1>8. CASE (GateScreens \/ GateConfirms) /\ UNCHANGED <<saved, gated>>
  <2>1. PICK w \in Versions :
           /\ w = job.version /\ w = saved.pending
           /\ \A v : v # w => Kind(v)' = Kind(v)
           /\ GateScreens => Kind(w)' \in {"screening_revert", "provisional_open"}
           /\ GateConfirms => Kind(w)' = "resolved"
    BY <1>8, GateEffect
  <2>2. OpenVersions' \subseteq {saved.pending}
    BY <2>1 DEF OpenVersions
  <2>3. GateScreens => gated.proposal = saved.pending /\ gated.blocked = None
    BY <2>1 DEF IInv, DecideInv, Proposing, GateScreens
  <2>4. GateConfirms => gated.proposal = saved.pending
    BY <2>1, Constants DEF IInv, DecideInv, Resolving, GateConfirms
  <2>5. gated'.blocked # None => gated.blocked = saved.pending /\ Kind(saved.pending)' = "resolved"
    BY <1>8, <2>1, <2>3
  <2>. QED BY <1>8, <2>2, <2>3, <2>4, <2>5
<1>. QED BY <1>2, <1>4, <1>5, <1>6, <1>7, <1>8, RecordSteps DEF record

\* A version the gate kept stays kept.
LEMMA EndorsedGrows ==
  ASSUME IInv, [InstrumentNext]_instrumentVars
  PROVE  \A v : Endorsed(v) => Endorsed(v)'
<1>1. CASE UNCHANGED decisions
  BY <1>1, KindFrame
<1>2. CASE GateScreens \/ GateConfirms
  <2>1. PICK w \in Versions : ~Confirmed(w) /\ \A v : v # w => (Confirmed(v)' <=> Confirmed(v))
    BY <1>2, GateEffect
  <2>. QED BY <2>1 DEF Endorsed
<1>3. CASE Decides
  BY <1>1, <1>3, DecideSaves
<1>. QED BY <1>1, <1>2, <1>3, RecordSteps DEF record

\* The steps within load_state.
LEMMA RepairSteps ==
  ASSUME IInv, [InstrumentNext]_instrumentVars, pc' = "repair"
  PROVE  \/ pc = "repair" /\ UNCHANGED <<mem, versions, saved, gated, decisions, job>>
         \/ Load /\ UNCHANGED <<gated, decisions>>
         \/ RepairBlock /\ UNCHANGED <<gated, decisions>>
         \/ ClearSettlement /\ mem = saved /\ UNCHANGED <<mem, versions, saved, decisions, job>>
<1>. InstrumentTypeOK /\ FrameInv /\ MemInv
  BY DEF IInv
<1>. USE DEF Goto, End, Finish, disk, added
<1>1. CASE Outside
  BY <1>1, StartCases DEF Outside, EditMain, LoseEvidence
<1>2. CASE SharedStep
  <2>1. CASE Load \/ RepairBlock
    BY <1>2, <2>1 DEF SharedStep
  <2>2. CASE RepairStatus \/ RepairHead
    BY <1>2, <2>2 DEF SharedStep, RepairStatus, RepairHead
  <2>3. CASE LoadDone
    BY <2>3 DEF LoadDone, InstrumentTypeOK, Job, Commands
  <2>4. CASE \/ InitFresh \/ InitResume \/ InitLog \/ InitSave \/ PlaceCandidate \/ NothingNew \/ SaveIntent
             \/ StageSnapshot \/ CommitSnapshot \/ AppendBlock \/ SaveCandidate \/ FinalizePending \/ Status
    BY <2>4 DEF InitFresh, InitResume, InitLog, InitSave, PlaceCandidate, NothingNew, SaveIntent,
                StageSnapshot, CommitSnapshot, AppendBlock, SaveCandidate, FinalizePending, Status
  <2>. QED BY <1>2, <2>1, <2>2, <2>3, <2>4 DEF SharedStep
<1>3. CASE \/ InitMeasure \/ Measure \/ Score \/ Unscored \/ MarkUnmeasurable \/ OpenConfirmation \/ ProposeKeep
           \/ SaveProposal \/ GateScreens \/ Play \/ GateConfirms \/ ResumeSettlement \/ SettleStatus
           \/ SettleLines \/ Restore \/ FinalizeSettled \/ Walk \/ PutAside \/ Refuse \/ Kill
  BY <1>3 DEF InitMeasure, Measure, Score, Unscored, MarkUnmeasurable, OpenConfirmation, ProposeKeep,
              SaveProposal, GateScreens, Play, GateConfirms, ResumeSettlement, SettleStatus, SettleLines,
              Restore, FinalizeSettled, Walk, PutAside, Refuse, Kill, Stop, StopInAppend, StopInRun
<1>4. CASE MeasureHead
  BY <1>4 DEF MeasureHead
<1>5. CASE Decides
  BY <1>5, DecideSaves
<1>6. CASE StayBlocked \/ FinishConfirmation \/ BlockGate \/ SettleMain \/ Deliver
  <2>1. PICK v \in VersionOrNone, label \in {"settle_clear", "play", "refused", "finalized", "ok"} :
          Ensure(v, label)
    BY <1>6, StateType DEF StayBlocked, SettleMain, Deliver, FinishConfirmation, BlockGate, Job, InstrumentTypeOK
  <2>. QED BY <2>1, EnsureForm, ReturnForm
<1>7. CASE ClearSettlement
  <2>1. mem = saved
    BY <1>7 DEF ClearSettlement, MemInv, Unread
  <2>. QED BY <1>7, <2>1 DEF ClearSettlement
<1>8. CASE PutInPlace
  <2>1. frame.swapped \in {"settle_clear", "play", "refused", "finalized", "ok"}
    BY <1>8 DEF PutInPlace, FrameInv, Frame, InstrumentTypeOK
  <2>. QED BY <1>8, <2>1, ReturnForm DEF PutInPlace
<1>9. CASE UNCHANGED instrumentVars
  BY <1>9 DEF instrumentVars, vars
<1>. QED
  BY <1>1, <1>2, <1>3, <1>4, <1>5, <1>6, <1>7, <1>8, <1>9
     DEF InstrumentNext, Step, Decides

\* No step makes a version the head, or a parent, that the gate did not confirm.
LEMMA EndorsedStep == ASSUME IInv, [InstrumentNext]_instrumentVars PROVE EndorsedInv'
<1>. InstrumentTypeOK /\ EndorsedInv /\ MemInv
  BY DEF IInv
<1>. USE DEF EndorsedIn
<1>1. EndorsedIn(saved)'
  <2>0. \A v : Endorsed(v) => Endorsed(v)'
    BY EndorsedGrows
  <2>1. ASSUME saved'.head # None => Endorsed(saved'.head),
               saved'.intent.parent # None => Endorsed(saved'.intent.parent),
               \A v \in Versions : saved'.parents[v] # None => Endorsed(saved'.parents[v])
        PROVE  EndorsedIn(saved)'
    <3>1. \A u, v : u = v /\ Endorsed(v)' => Endorsed(u)'
      BY DEF Endorsed
    <3>. QED BY <2>0, <2>1
  <2>2. CASE UNCHANGED saved
    BY <2>1, <2>2 DEF EndorsedInv
  <2>3. CASE LoadDone
    <3>1. pc = "repair"
      BY <2>3 DEF LoadDone
    <3>. QED BY <2>1, <2>3, <3>1, LoadSaves DEF EndorsedInv
  <2>4. CASE InitSave
    BY <2>1, <2>4, InitSaves DEF Endorsed
  <2>5. CASE SaveIntent
    BY <2>1, <2>5, IntentSaves DEF EndorsedInv
  <2>6. CASE SaveCandidate
    <3>1. /\ saved'.head = saved.head /\ saved'.intent.parent = None /\ job.version \in Versions
          /\ saved'.parents = [saved.parents EXCEPT ![job.version] = saved.head]
          /\ saved.parents \in [Versions -> VersionOrNone]
      BY <2>6, CandidateSaves, StateType DEF InstrumentTypeOK
    <3>. QED BY <2>1, <3>1 DEF EndorsedInv
  <2>7. CASE Restore \/ Walk
    BY <2>1, <2>7, HeadMoves DEF EndorsedInv
  <2>8. CASE Decides
    <3>1. /\ saved'.head = IF Confirmed(saved.pending) THEN saved.pending ELSE saved.head
          /\ saved'.intent = saved.intent /\ saved'.parents = saved.parents
      BY <2>8, DecideSaves
    <3>. QED BY <2>1, <3>1 DEF EndorsedInv, Endorsed
  <2>9. CASE CommitSnapshot
    BY <2>2, <2>9, CommitEffect
  <2>. QED BY <2>2, <2>3, <2>4, <2>5, <2>6, <2>7, <2>8, <2>9, RecordSteps DEF record
<1>2. ASSUME pc' = "repair" PROVE EndorsedIn(mem)'
  <2>1. CASE pc = "repair" /\ UNCHANGED <<mem, versions, saved, gated, decisions>>
    BY <2>1, KindFrame DEF EndorsedInv
  <2>2. CASE Load /\ UNCHANGED decisions
    <3>1. mem'.head = saved.head /\ mem'.intent = saved.intent /\ mem'.parents = saved.parents
      BY <2>2 DEF Load, InstrumentTypeOK, State
    <3>. QED BY <2>2, <3>1, KindFrame DEF EndorsedInv
  <2>3. CASE RepairBlock /\ UNCHANGED decisions
    <3>1. PICK v \in Versions :
            mem' = IF mem.parents[v] = None THEN [mem EXCEPT !.parents[v] = RepairParent(v)] ELSE mem
      BY <2>3 DEF RepairBlock, Blockless, Snapshots
    <3>2. mem'.head = mem.head /\ mem'.intent = mem.intent
      BY <3>1 DEF InstrumentTypeOK, State
    <3>3. \A w \in Versions : mem'.parents[w] \in {mem.parents[w], mem.intent.parent, mem.head}
      BY <3>1 DEF InstrumentTypeOK, State, RepairParent
    <3>4. EndorsedIn(mem)
      BY <2>3 DEF EndorsedInv, RepairBlock
    <3>5. \A w : Endorsed(w)' = Endorsed(w)
      BY <2>3, KindFrame
    <3>. QED BY <3>2, <3>3, <3>4, <3>5
  <2>4. CASE ClearSettlement /\ mem = saved /\ UNCHANGED <<mem, decisions>>
    BY <2>4, KindFrame DEF EndorsedInv
  <2>. QED BY <1>2, <2>1, <2>2, <2>3, <2>4, RepairSteps
<1>. QED BY <1>1, <1>2 DEF EndorsedInv

\* No settlement is half done where the command is elsewhere.
LEMMA NotSettling ==
  ASSUME IInv, pc \notin Unread \cup {"repair", "swap", "swap_in", "settle_status", "settle_lines",
                                      "settle_main", "settle_clear"}
  PROVE  ~Settling
BY DEF IInv, FrameInv, InSettlement, Swapping

\* A first element.
LEMMA AppendEmpty == ASSUME NEW r PROVE Append(<<>>, r) = <<r>>
OBVIOUS

\* The block a settlement rules on is the newest one, so the lines appended
\* at the end of the log land in it.
LEMMA LinesEffect ==
  ASSUME IInv, SettleLines
  PROVE  /\ Settling /\ gated.settling.of \in Declared
         /\ rulings[gated.settling.of] \in {<<>>, <<gated.settling>>}
         /\ \A v \in Versions :
              rulings'[v] = IF v = gated.settling.of THEN <<gated.settling>> ELSE rulings[v]
<1>1. Settling
  BY DEF SettleLines, IInv, FrameInv, InSettlement
<1>2. gated.settling \in Ruling /\ gated.settling.of \in Versions /\ Initialized
      /\ saved.digests[gated.settling.of] # Missing /\ gated.settling.of # None
  BY <1>1, SettlingFacts
<1>3. rulings[gated.settling.of] \in {<<>>, <<gated.settling>>}
  BY <1>1 DEF IInv, SettlingInv
<1>4. gated.settling.of \in Declared
  BY <1>2 DEF IInv, SavedInv, LogInv, Blockless, Snapshots, Unknown
<1>5. ASSUME NEW b \in Versions, IsNewestBlock(b) PROVE b = gated.settling.of
  <2>1. b \in Snapshots /\ gated.settling.of <= b
    BY <1>4, <1>5 DEF IsNewestBlock, IInv, LogInv
  <2>2. b <= gated.settling.of
    BY <1>2, <2>1 DEF IInv, UnknownInv
  <2>. QED BY <1>2, <2>1, <2>2, Constants
<1>6. rulings \in [Versions -> Seq(Ruling)]
  BY DEF IInv, InstrumentTypeOK
<1>7. CASE rulings[gated.settling.of] # <<>>
  BY <1>1, <1>3, <1>4, <1>7 DEF SettleLines
<1>8. CASE rulings[gated.settling.of] = <<>>
  <2>1. PICK b \in Versions : IsNewestBlock(b) /\ rulings' = [rulings EXCEPT ![b] = Append(@, gated.settling)]
    BY <1>8 DEF SettleLines
  <2>2. b = gated.settling.of
    BY <1>5, <2>1
  <2>3. PICK r \in Ruling : r = gated.settling
    BY <1>2
  <2>4. Append(rulings[b], r) = <<r>>
    BY <1>8, <2>2, AppendEmpty
  <2>5. \A v \in Versions : rulings'[v] = IF v = b THEN <<r>> ELSE rulings[v]
    BY <1>6, <2>1, <2>3, <2>4
  <2>. QED BY <1>1, <1>3, <1>4, <2>2, <2>3, <2>5
<1>. QED BY <1>7, <1>8

\* The intent of a settlement agrees with the gate from the save that makes it on.
LEMMA SettlingStep == ASSUME IInv, [InstrumentNext]_instrumentVars PROVE SettlingInv'
<1>. InstrumentTypeOK
  BY DEF IInv
<1>1. ASSUME UNCHANGED <<versions, saved, decisions, rulings>>,
             gated'.settling = gated.settling
      PROVE  SettlingInv'
  <2>1. Unknown(saved)' = Unknown(saved)
    BY <1>1 DEF Unknown, Snapshots
  <2>2. \A r : Agrees(r)' = Agrees(r)
    BY <1>1, KindFrame
  <2>3. Agrees(gated.settling)' = Agrees(gated.settling)
    BY <1>1, <2>2 DEF Agrees
  <2>. QED BY <1>1, <2>1, <2>3 DEF IInv, SettlingInv, Settling
<1>2. ASSUME gated'.settling = NoRuling PROVE SettlingInv'
  BY <1>2 DEF SettlingInv, Settling
<1>3. CASE ((LoadDone /\ ~Settling) \/ InitSave \/ SaveIntent \/ SaveCandidate \/ Restore \/ Walk) /\ UNCHANGED gated
  <2>1. ~Settling
    BY <1>3, NotSettling DEF InitSave, SaveIntent, SaveCandidate, Restore, Walk, Unread
  <2>. QED BY <1>2, <1>3, <2>1 DEF Settling
<1>4. CASE Decides
  <2>1. /\ Initialized /\ saved.pending \in Versions /\ ~Settling /\ Unknown(saved) = {}
        /\ saved'.pending = None
        /\ saved'.head = IF Confirmed(saved.pending) THEN saved.pending ELSE saved.head
        /\ saved'.digests = saved.digests
        /\ gated'.settling.of = saved.pending
        /\ gated'.settling.status = "kept" <=> Confirmed(saved.pending)
        /\ gated'.settling.by = "gate" <=> Kind(saved.pending) # "none"
        /\ gated'.settling.by = "gate" => gated'.settling.proposed = "kept"
        /\ UNCHANGED <<versions, decisions, rulings>>
    BY <1>4, DecideSaves
  <2>2. Unknown(saved)' = {}
    BY <2>1 DEF Unknown, Snapshots
  <2>3. saved.pending # First /\ saved.digests[saved.pending] # Missing
    BY <2>1, Constants DEF IInv, SavedInv
  <2>4. rulings[saved.pending] = <<>>
    <3>1. saved.pending \notin Ruled /\ saved.pending # gated.settling.of
      BY <2>1, Constants, EmptyType DEF Ruled, Undecided, Settling
    <3>. QED BY <2>1, <3>1 DEF IInv, RulingsInv
  <2>5. Agrees(gated.settling)'
    <3>1. \A v : (Kind(v)' = Kind(v)) /\ (Confirmed(v)' <=> Confirmed(v))
      BY <2>1, KindFrame
    <3>2. Kind(gated.settling.of)' = Kind(saved.pending) /\ (Confirmed(gated.settling.of)' <=> Confirmed(saved.pending))
      BY <2>1, <3>1
    <3>. QED BY <2>1, <3>2 DEF Agrees
  <2>. QED BY <2>1, <2>2, <2>3, <2>4, <2>5 DEF SettlingInv
<1>5. CASE CommitSnapshot /\ UNCHANGED gated
  BY <1>2, <1>5, CommitEffect DEF Settling
<1>6. CASE (GateScreens \/ GateConfirms) /\ UNCHANGED gated
  <2>1. ~Settling
    BY <1>6, NotSettling DEF GateScreens, GateConfirms, Unread
  <2>. QED BY <1>2, <1>6, <2>1 DEF Settling
<1>7. CASE GatedWriters /\ UNCHANGED <<versions, saved, decisions, rulings>>
  BY <1>1, <1>2, <1>7, GatedForm
<1>8. CASE SettleLines /\ UNCHANGED <<versions, saved, decisions, gated>>
  <2>1. Settling /\ rulings'[gated.settling.of] = <<gated.settling>>
    BY <1>8, LinesEffect, SettlingFacts
  <2>2. Unknown(saved)' = Unknown(saved)
    BY <1>8 DEF Unknown, Snapshots
  <2>3. \A r : Agrees(r)' = Agrees(r)
    BY <1>8, KindFrame
  <2>4. Agrees(gated.settling)' = Agrees(gated.settling)
    BY <1>8, <2>3 DEF Agrees
  <2>. QED BY <1>8, <2>1, <2>2, <2>4 DEF IInv, SettlingInv
<1>. QED BY <1>1, <1>3, <1>4, <1>5, <1>6, <1>7, <1>8, RecordSteps DEF record

\* Each ruled version keeps its one ruling, and no other version gets one.
LEMMA RulingsStep == ASSUME IInv, [InstrumentNext]_instrumentVars PROVE RulingsInv'
<1>. InstrumentTypeOK /\ RulingsInv /\ SavedInv /\ UnknownInv /\ LogInv
  BY DEF IInv
<1>0. Settling \/ gated.settling.of = None
  BY EmptyType DEF Settling
\* A step that leaves the decided versions, their rulings and the gate's word alone.
<1>1. ASSUME Ruled' = Ruled, UNCHANGED <<decisions, rulings>>,
             \A v \in Ruled : log'[v].status = log[v].status,
             gated'.settling.of = gated.settling.of \/ ~Settling
      PROVE  RulingsInv'
  <2>1. \A r : Agrees(r)' = Agrees(r)
    BY <1>1, KindFrame
  <2>2. ASSUME NEW v \in Versions, rulings'[v] # <<>> PROVE v \in Ruled' \/ v = gated'.settling.of
    BY <1>0, <1>1, <2>2, Constants DEF RulingsInv
  <2>3. ASSUME NEW v \in Ruled
        PROVE  \E r \in Ruling : rulings'[v] = <<r>> /\ r.of = v /\ r.status = log'[v].status /\ Agrees(r)'
    <3>1. v \in Versions
      BY DEF Ruled, Declared
    <3>2. PICK r \in Ruling : rulings[v] = <<r>> /\ r.of = v /\ r.status = log[v].status /\ Agrees(r)
      BY <2>3, <3>1 DEF RulingsInv
    <3>. QED BY <1>1, <2>1, <3>2
  <2>. QED BY <1>1, <2>2, <2>3 DEF RulingsInv
<1>2. CASE UNCHANGED record
  <2>1. Ruled' = Ruled
    BY <1>2 DEF record, Ruled, Undecided, Declared, Initialized, Unknown, Snapshots
  <2>. QED BY <1>1, <1>2, <2>1 DEF record
\* What was unknown or pending is pending or being settled.
<1>3. ASSUME UNCHANGED <<versions, log, decisions, rulings>>, Initialized, saved'.head # None,
             \A v \in Versions :
               (v \in Unknown(saved) \cup {saved.pending, gated.settling.of})
                 <=> (v \in Unknown(saved)' \cup {saved'.pending, gated'.settling.of}),
             gated'.settling.of = gated.settling.of \/ ~Settling
      PROVE  RulingsInv'
  <2>1. Ruled' = Ruled
    BY <1>3, Constants DEF Ruled, Undecided, Declared, Initialized
  <2>. QED BY <1>1, <1>3, <2>1
<1>4. CASE LoadDone /\ UNCHANGED <<versions, log, decisions, gated, rulings>>
  <2>1. /\ Initialized /\ saved'.head = saved.head
        /\ saved'.pending \in AdoptedPending(saved)
        /\ \A v \in Versions :
             saved'.digests[v] = IF v \in Unknown(saved) THEN versions[v] ELSE saved.digests[v]
    BY <1>4, LoadSaves
  <2>2. Unknown(saved)' = {}
    BY <1>4, <2>1 DEF Unknown, Snapshots
  <2>3. saved.head \notin Unknown(saved)
    BY <2>1 DEF SavedInv, Initialized, Unknown
  <2>4. CASE Unknown(saved) = {}
    <3>1. saved'.pending = saved.pending
      BY <2>1, <2>4 DEF AdoptedPending
    <3>. QED BY <1>3, <1>4, <2>1, <2>2, <2>4, <3>1 DEF Initialized
  <2>5. CASE Unknown(saved) # {}
    <3>1. saved.pending = None
      BY <2>5 DEF UnknownInv
    <3>2. Unknown(saved) = {saved'.pending}
      BY <2>1, <2>3, <2>5, <3>1 DEF AdoptedPending, UnknownInv
    <3>. QED BY <1>3, <1>4, <2>1, <2>2, <3>1, <3>2, Constants DEF Initialized
  <2>. QED BY <2>4, <2>5
<1>5. CASE InitSave /\ UNCHANGED <<versions, log, decisions, gated, rulings>>
  <2>1. /\ ~Initialized /\ saved'.head = First /\ Snapshots = {First}
    BY <1>5, InitSaves
  <2>2. Ruled = {} /\ Ruled' = {}
    BY <1>5, <2>1 DEF Ruled, Initialized, LogInv, Declared
  <2>. QED BY <1>1, <1>5, <2>2
<1>6. CASE SaveIntent /\ UNCHANGED <<versions, log, decisions, gated, rulings>>
  <2>1. /\ Initialized /\ saved'.head = saved.head /\ saved'.pending = saved.pending
        /\ saved'.digests = saved.digests
    BY <1>6, IntentSaves
  <2>2. Unknown(saved)' = Unknown(saved)
    BY <1>6, <2>1 DEF Unknown, Snapshots
  <2>. QED BY <1>3, <1>6, <2>1, <2>2 DEF Initialized
<1>7. CASE SaveCandidate /\ UNCHANGED <<versions, log, decisions, gated, rulings>>
  <2>1. /\ Initialized /\ job.version \in Versions /\ Unknown(saved) = {job.version} /\ saved.pending = None
        /\ saved'.head = saved.head /\ saved'.pending = job.version /\ job.tree \in Tree
        /\ saved'.digests = [saved.digests EXCEPT ![job.version] = job.tree]
    BY <1>7, CandidateSaves
  <2>2. Unknown(saved)' = {}
    BY <1>7, <2>1, StateType, Constants DEF Unknown, Snapshots, InstrumentTypeOK
  <2>. QED BY <1>3, <1>7, <2>1, <2>2, Constants DEF Initialized
<1>8. CASE (Restore \/ Walk) /\ UNCHANGED <<versions, log, decisions, gated, rulings>>
  <2>1. /\ Initialized /\ saved'.head \in Versions /\ saved.pending = None /\ saved'.pending = None
        /\ saved'.digests = saved.digests
    BY <1>8, HeadMoves
  <2>2. Unknown(saved)' = Unknown(saved)
    BY <1>8, <2>1 DEF Unknown, Snapshots
  <2>. QED BY <1>3, <1>8, <2>1, <2>2, Constants DEF Initialized
<1>9. CASE Decides
  <2>1. /\ Initialized /\ ~Settling /\ Unknown(saved) = {} /\ saved.head \in Versions
        /\ saved.pending \in Versions
        /\ saved'.pending = None
        /\ saved'.head = IF Confirmed(saved.pending) THEN saved.pending ELSE saved.head
        /\ saved'.digests = saved.digests /\ gated'.settling.of = saved.pending
        /\ UNCHANGED <<versions, log, decisions, rulings>>
    BY <1>9, DecideSaves
  <2>2. Unknown(saved)' = {}
    BY <2>1 DEF Unknown, Snapshots
  <2>. QED BY <1>0, <1>3, <2>1, <2>2, Constants
<1>10. CASE CommitSnapshot /\ UNCHANGED <<decisions, gated, rulings>>
  <2>1. /\ versions[job.version] = Missing /\ UNCHANGED <<saved, log>>
        /\ Unknown(saved)' = Unknown(saved) \cup {job.version}
    BY <1>10, CommitEffect
  <2>2. job.version \notin Declared
    BY <2>1 DEF LogInv, Snapshots
  <2>3. Ruled' = Ruled
    BY <1>10, <2>1, <2>2 DEF Ruled, Undecided, Declared, Initialized
  <2>. QED BY <1>1, <1>10, <2>1, <2>3
<1>11. CASE StatusWriters /\ UNCHANGED <<versions, saved, decisions, gated, rulings>>
  <2>1. PICK v \in Snapshots, st \in Statuses :
           /\ \A w \in Versions : log'[w].status = IF w = v THEN st ELSE log[w].status
           /\ \/ Initialized /\ v \in Unknown(saved) /\ st \in {"torn", "reverted"}
              \/ ~Initialized /\ v = First /\ st \in {"torn", "baseline"}
              \/ Settling /\ v = gated.settling.of /\ st = gated.settling.status
    BY <1>11, StatusForm
  <2>2. v \notin Ruled
    BY <2>1 DEF Ruled, Undecided
  <2>3. Ruled' = Ruled
    <3>1. \A w \in Versions \ {v} : w \in Ruled' <=> w \in Ruled
      BY <1>11, <2>1 DEF Ruled, Undecided, Declared, Initialized, Unknown, Snapshots
    <3>2. v \notin Ruled'
      BY <1>11, <2>1 DEF Ruled, Undecided, Initialized, Unknown, Snapshots
    <3>3. Ruled \subseteq Versions /\ Ruled' \subseteq Versions
      BY DEF Ruled, Declared
    <3>. QED BY <2>2, <3>1, <3>2, <3>3
  <2>4. \A w \in Ruled : log'[w].status = log[w].status
    BY <2>1, <2>2 DEF Ruled, Declared
  <2>. QED BY <1>1, <1>11, <2>3, <2>4
<1>12. CASE (Score \/ Unscored) /\ UNCHANGED <<versions, saved, decisions, gated, rulings>>
  <2>1. \A v \in Versions : log'[v].status = log[v].status
    BY <1>12, AppendLineKeeps DEF Score, Unscored, InstrumentTypeOK
  <2>2. Ruled' = Ruled
    BY <1>12, <2>1 DEF Ruled, Undecided, Declared, Initialized, Unknown, Snapshots
  <2>. QED BY <1>1, <1>12, <2>1, <2>2 DEF Ruled, Declared
<1>13. CASE (GateScreens \/ GateConfirms) /\ UNCHANGED <<versions, log, saved, gated, rulings>>
  <2>1. PICK w \in Versions :
          /\ w = saved.pending
          /\ \A v : v # w => Kind(v)' = Kind(v) /\ (Confirmed(v)' <=> Confirmed(v))
    BY <1>13, GateEffect
  <2>2. Ruled' = Ruled
    BY <1>13 DEF Ruled, Undecided, Declared, Initialized, Unknown, Snapshots
  <2>3. ASSUME NEW v \in Ruled
        PROVE  \E r \in Ruling : rulings'[v] = <<r>> /\ r.of = v /\ r.status = log'[v].status /\ Agrees(r)'
    <3>1. v \in Versions /\ v # w
      BY <2>1, Constants DEF Ruled, Declared, Undecided
    <3>2. PICK r \in Ruling : rulings[v] = <<r>> /\ r.of = v /\ r.status = log[v].status /\ Agrees(r)
      BY <2>3, <3>1 DEF RulingsInv
    <3>3. Kind(r.of)' = Kind(r.of) /\ (Confirmed(r.of)' <=> Confirmed(r.of))
      BY <2>1, <3>1, <3>2
    <3>4. Agrees(r)'
      BY <3>2, <3>3 DEF Agrees
    <3>. QED BY <1>13, <3>2, <3>4
  <2>. QED BY <1>13, <2>2, <2>3 DEF RulingsInv
<1>14. CASE GatedWriters /\ UNCHANGED <<versions, log, saved, decisions, rulings>>
  <2>1. CASE ~ClearSettlement
    <3>1. gated'.settling = gated.settling
      BY <1>14, <2>1, GatedForm
    <3>2. Ruled' = Ruled
      BY <1>14, <3>1 DEF Ruled, Undecided, Declared, Initialized, Unknown, Snapshots
    <3>. QED BY <1>1, <1>14, <3>1, <3>2
  <2>2. CASE ClearSettlement
    <3>1. PICK w \in Versions : w = gated.settling.of /\ Settling /\ gated.settling \in Ruling
      BY <2>2, SettlingFacts DEF IInv, FrameInv, InSettlement, ClearSettlement
    <3>2. /\ rulings[w] = <<gated.settling>> /\ log[w].status = gated.settling.status
          /\ Agrees(gated.settling)
      BY <2>2, <3>1 DEF IInv, FrameInv, LinesWritten, StatusWritten, InSettlement, ClearSettlement, SettlingInv
    <3>3. gated'.settling.of = None
      BY <1>14, <2>2, GatedForm, EmptyType
    <3>4. \A v \in Versions \ {w} : v \in Ruled' <=> v \in Ruled
      BY <1>14, <3>1, <3>3, Constants DEF Ruled, Undecided, Declared, Initialized, Unknown, Snapshots
    <3>5. w \in Ruled'
      <4>1. w # First /\ w \notin Unknown(saved) /\ saved.pending = None /\ Initialized
        BY <3>1, SettlingFacts DEF IInv, SettlingInv
      <4>2. w \in Declared
        BY <3>1, <4>1, SettlingFacts DEF SavedInv, LogInv, Blockless, Snapshots
      <4>. QED BY <1>14, <3>1, <3>3, <4>1, <4>2, Constants DEF Ruled, Undecided, Declared, Initialized, Unknown, Snapshots
    <3>6. \A r : Agrees(r)' = Agrees(r)
      BY <1>14, KindFrame
    <3>7. Ruled' \subseteq Versions
      BY DEF Ruled, Declared
    <3>8. ASSUME NEW v \in Versions, v \in Ruled'
          PROVE  \E r \in Ruling : rulings'[v] = <<r>> /\ r.of = v /\ r.status = log'[v].status /\ Agrees(r)'
      <4>1. CASE v = w
        BY <1>14, <3>1, <3>2, <3>6, <4>1
      <4>2. CASE v # w
        <5>1. PICK r \in Ruling : rulings[v] = <<r>> /\ r.of = v /\ r.status = log[v].status /\ Agrees(r)
          BY <3>4, <3>8, <4>2 DEF RulingsInv
        <5>. QED BY <1>14, <3>6, <5>1
      <4>. QED BY <4>1, <4>2
    <3>9. ASSUME NEW v \in Versions, rulings'[v] # <<>> PROVE v \in Ruled'
      BY <1>14, <3>1, <3>4, <3>5, <3>9 DEF RulingsInv
    <3>. QED BY <3>8, <3>9 DEF RulingsInv
  <2>. QED BY <2>1, <2>2
<1>15. CASE SettleLines /\ UNCHANGED <<versions, log, saved, decisions, gated>>
  <2>1. \A v \in Versions :
          rulings'[v] = IF v = gated.settling.of THEN <<gated.settling>> ELSE rulings[v]
    BY <1>15, LinesEffect
  <2>2. Ruled' = Ruled /\ gated.settling.of \notin Ruled
    BY <1>15 DEF Ruled, Undecided, Declared, Initialized, Unknown, Snapshots
  <2>3. \A r : Agrees(r)' = Agrees(r)
    BY <1>15, KindFrame
  <2>4. ASSUME NEW v \in Versions, v \in Ruled
        PROVE  \E r \in Ruling : rulings'[v] = <<r>> /\ r.of = v /\ r.status = log'[v].status /\ Agrees(r)'
    <3>1. PICK r \in Ruling : rulings[v] = <<r>> /\ r.of = v /\ r.status = log[v].status /\ Agrees(r)
      BY <2>4 DEF RulingsInv
    <3>. QED BY <1>15, <2>1, <2>2, <2>3, <2>4, <3>1
  <2>5. ASSUME NEW v \in Versions, rulings'[v] # <<>> PROVE v \in Ruled' \/ v = gated'.settling.of
    BY <1>15, <2>1, <2>2, <2>5 DEF RulingsInv
  <2>. QED BY <2>2, <2>4, <2>5 DEF RulingsInv
<1>. QED
  BY <1>2, <1>4, <1>5, <1>6, <1>7, <1>8, <1>9, <1>10, <1>11, <1>12, <1>13, <1>14, <1>15, RecordSteps

-----------------------------------------------------------------------------
(* The control, step by step.                                              *)

\* A command that ended holds nothing.
LEMMA IdleControl ==
  ASSUME pc' = "idle", job' = NoJob, mem' = Blank
  PROVE  MemInv' /\ ReconciledInv' /\ RegisterInv' /\ DecideInv' /\ FrameInv'
<1>1. ~InSettlement' /\ ~StatusWritten' /\ ~LinesWritten' /\ ~Pondering' /\ ~Proposing' /\ ~Resolving' /\ ~Delivering'
  BY DEF InSettlement, StatusWritten, LinesWritten, Swapping, Pondering, Proposing, Resolving, Delivering
<1>2. job'.cmd = "none" /\ pc' \notin Registering /\ pc' \notin EvaluateCommands /\ pc' \notin FinalizeCommands
  BY DEF NoJob, Registering, EvaluateCommands, FinalizeCommands
<1>3. MemInv' /\ ReconciledInv'
  BY <1>1 DEF MemInv, ReconciledInv, Unread
<1>4. RegisterInv' /\ DecideInv'
  BY <1>1, <1>2 DEF RegisterInv, DecideInv
<1>5. FrameInv'
  BY <1>1 DEF FrameInv, Unread
<1>. QED BY <1>3, <1>4, <1>5

\* What replace_main returns to.
ReturnLabels == {"settle_clear", "play", "refused", "finalized", "ok"}

\* What load_state holds after each of its steps.
LEMMA AdoptingStep == ASSUME IInv, [InstrumentNext]_instrumentVars, pc' = "repair" PROVE Adopting'
<1>. InstrumentTypeOK /\ MemInv
  BY DEF IInv
<1>1. CASE pc = "repair" /\ UNCHANGED <<mem, versions, saved, gated, decisions>>
  <2>1. Adopting
    BY <1>1 DEF MemInv
  <2>. QED BY <1>1, <2>1, AdoptingFrame DEF Adopting, Settling
<1>2. CASE Load /\ UNCHANGED gated
  <2>1. PICK p \in AdoptedPending(saved) :
          mem' = [saved EXCEPT
                    !.pending = p,
                    !.digests = [v \in Versions |-> IF v \in Unknown(saved) \ Broken
                                                    THEN versions[v] ELSE saved.digests[v]]]
    BY <1>2 DEF Load
  <2>2. UNCHANGED <<saved, versions>>
    BY <1>2 DEF Load, disk
  <2>3. /\ mem'.head = saved.head /\ mem'.pending = p /\ mem'.intent = saved.intent
        /\ \A v \in Versions :
             mem'.digests[v] = IF v \in Unknown(saved) \ Broken THEN versions[v] ELSE saved.digests[v]
    BY <2>1 DEF InstrumentTypeOK, State
  <2>4. ASSUME Settling PROVE mem' = saved
    <3>1. Unknown(saved) = {} /\ saved.pending = None
      BY <2>4 DEF IInv, SettlingInv
    <3>2. p = saved.pending
      BY <2>1, <3>1 DEF AdoptedPending
    <3>3. saved.digests = [v \in Versions |-> IF v \in Unknown(saved) \ Broken
                                              THEN versions[v] ELSE saved.digests[v]]
      BY <3>1, StateType DEF InstrumentTypeOK
    <3>. QED BY <2>1, <3>2, <3>3 DEF InstrumentTypeOK, State
  <2>. QED BY SMTT(30), <1>2, <2>1, <2>2, <2>3, <2>4, AdoptingFrame DEF Adopting, Settling
<1>3. CASE RepairBlock /\ UNCHANGED gated
  <2>1. Adopting /\ UNCHANGED <<saved, versions>>
    BY <1>3 DEF RepairBlock, MemInv
  <2>2. mem'.head = mem.head /\ mem'.pending = mem.pending /\ mem'.intent = mem.intent /\ mem'.digests = mem.digests
    BY <1>3 DEF RepairBlock, InstrumentTypeOK, State
  <2>3. ~Settling
    <3>1. Blockless # {} /\ Initialized
      BY <1>3 DEF RepairBlock, MemInv, Unread, Opening
    <3>. QED BY <3>1 DEF IInv, LogInv, SettlingInv
  <2>. QED BY <1>3, <2>1, <2>2, <2>3, AdoptingFrame DEF Adopting, Settling
<1>4. CASE ClearSettlement /\ mem = saved /\ UNCHANGED <<mem, versions, saved>>
  <2>1. Settling
    BY <1>4 DEF ClearSettlement, IInv, FrameInv, InSettlement
  <2>2. Unknown(saved) = {}
    BY <2>1 DEF IInv, SettlingInv
  <2>3. saved.pending \in AdoptedPending(saved)
    BY <2>2 DEF AdoptedPending
  <2>. QED BY <1>4, <2>2, <2>3, AdoptingFrame DEF Adopting
<1>. QED BY <1>1, <1>2, <1>3, <1>4, RepairSteps

\* A command holds what it last saved, or what load_state adopted.
LEMMA MemStep == ASSUME IInv, [InstrumentNext]_instrumentVars PROVE MemInv'
<1>. InstrumentTypeOK /\ MemInv /\ SavedInv
  BY DEF IInv
<1>. USE DEF Goto, End, Finish, disk, added
<1>. DEFINE Held == mem' = saved' /\ (pc' \notin Opening => saved'.head # None)
<1>0. ASSUME pc' \notin Unread \cup {"repair"}, Held PROVE MemInv'
  BY <1>0 DEF MemInv, Initialized
<1>a. ASSUME pc' = "repair" PROVE MemInv'
  <2>1. Initialized'
    <3>1. Initialized
      BY <1>a, RepairSteps DEF MemInv, Load, RepairBlock, ClearSettlement, Unread, Opening
    <3>2. saved' = saved
      BY <1>a, RepairSteps DEF Load, RepairBlock
    <3>. QED BY <3>1, <3>2 DEF Initialized
  <2>. QED BY <1>a, <2>1, AdoptingStep DEF MemInv, Unread
<1>b. ASSUME pc' = "idle", job' = NoJob, mem' = Blank PROVE MemInv'
  BY <1>b, IdleControl
\* The command goes on, with what it holds.
<1>c. ASSUME UNCHANGED <<mem, saved>>, pc \notin Unread \cup {"repair"}, pc' \notin Unread \cup {"repair"},
             pc \notin Opening \/ pc' \in Opening \/ Initialized
      PROVE  MemInv'
  BY <1>0, <1>c DEF MemInv, Initialized
<1>1. CASE StartCommand /\ UNCHANGED <<added, frame>>
  <2>1. pc = "idle" /\ UNCHANGED <<saved, mem>> /\ mem = Blank
    BY <1>1, StartCases DEF MemInv, Unread
  <2>2. CASE pc' = "load"
    BY <2>1, <2>2 DEF MemInv, Unread
  <2>3. CASE pc' = "init" /\ ~Initialized
    BY <2>1, <2>3 DEF MemInv, Unread, Opening, SavedInv, Initialized
  <2>. QED BY <1>1, <2>2, <2>3, StartCases
<1>2. ASSUME UNCHANGED <<pc, mem, saved>> PROVE MemInv'
  BY <1>2, <1>a DEF MemInv, Initialized
<1>3. CASE Outside
  BY <1>1, <1>2, <1>3 DEF Outside, EditMain, LoseEvidence
<1>4. CASE SharedStep
  <2>1. CASE Load \/ RepairBlock \/ RepairStatus \/ RepairHead
    BY <1>2, <1>a, <2>1 DEF Load, RepairBlock, RepairStatus, RepairHead
  <2>2. CASE LoadDone
    <3>1. pc' \in Commands
      BY <2>2 DEF LoadDone, IInv, RegisterInv, InstrumentTypeOK, Job
    <3>2. saved' = mem' /\ saved'.head = saved.head /\ Initialized
      BY <2>2, LoadSaves
    <3>. QED BY <1>0, <3>1, <3>2 DEF Commands, Unread, Initialized
  <2>3. CASE InitSave
    BY <1>0, <2>3, InitSaves, Constants DEF InitSave, Unread
  <2>4. CASE SaveIntent
    BY <1>0, <2>4, IntentSaves DEF SaveIntent, Unread, Initialized
  <2>5. CASE SaveCandidate
    BY <1>0, <2>5, CandidateSaves DEF SaveCandidate, Unread, Initialized
  <2>6. CASE InitFresh \/ InitResume \/ InitLog \/ PlaceCandidate \/ AppendBlock \/ FinalizePending
    BY <1>c, <2>6 DEF InitFresh, InitResume, InitLog, PlaceCandidate, AppendBlock, FinalizePending,
                      Finalizing, Unread, Opening
  <2>7. CASE StageSnapshot
    BY <1>b, <1>c, <2>7 DEF StageSnapshot, Unread, Opening
  <2>8. CASE CommitSnapshot
    BY <1>c, <2>8, CommitEffect DEF CommitSnapshot, Unread, Opening
  <2>9. CASE NothingNew \/ Status
    BY <1>b, <2>9 DEF NothingNew, Status
  <2>. QED BY <1>4, <2>1, <2>2, <2>3, <2>4, <2>5, <2>6, <2>7, <2>8, <2>9 DEF SharedStep
<1>5. CASE InitMeasure
  BY <1>5, <1>b, <1>c DEF InitMeasure, Unread, Opening
<1>6. CASE \/ Measure \/ Unscored \/ ProposeKeep \/ GateScreens \/ Play \/ GateConfirms \/ SettleStatus
           \/ SettleLines \/ FinalizeSettled \/ PutAside
  BY <1>6, <1>c DEF Measure, Unscored, ProposeKeep, GateScreens, Play, GateConfirms, SettleStatus,
                    SettleLines, FinalizeSettled, PutAside, Finalizing, Consult, Deciding, Unread, Opening
<1>7. CASE Score
  BY <1>7, <1>b, <1>c DEF Score, Unread, Opening
<1>8. CASE MarkUnmeasurable \/ Refuse \/ Kill
  BY <1>8, <1>b DEF MarkUnmeasurable, Refuse, Kill, Stop, StopInAppend, StopInRun
<1>9. CASE OpenConfirmation \/ SaveProposal
  <2>1. mem = saved /\ Initialized /\ saved' = mem /\ mem' = mem /\ pc' \in {"confirm", "gate"}
    BY <1>9 DEF OpenConfirmation, SaveProposal, Consult, Deciding, Screenable, MemInv, Unread, Opening
  <2>. QED BY <1>0, <2>1 DEF Unread, Initialized
<1>10. CASE MeasureHead
  BY <1>10, <1>2, <1>b DEF MeasureHead
<1>11. CASE Decides
  <2>1. mem' = saved' /\ pc' = "settle_status" /\ Initialized /\ saved'.head \in Versions
    BY <1>11, DecideSaves
  <2>. QED BY <1>0, <2>1, Constants DEF Unread
<1>12. CASE Restore \/ Walk
  <2>1. mem' = saved' /\ saved'.head \in Versions
    BY <1>12, HeadMoves
  <2>2. pc' \in {"swap", "deliver"}
    BY <1>12 DEF Restore, Walk
  <2>. QED BY <1>0, <2>1, <2>2, Constants DEF Unread
<1>13. CASE StayBlocked \/ FinishConfirmation \/ BlockGate \/ SettleMain \/ Deliver \/ PutInPlace
  <2>1. pc \notin Unread \cup Opening \cup {"repair"}
    BY <1>13 DEF StayBlocked, FinishConfirmation, BlockGate, SettleMain, Deliver, PutInPlace, Deciding, Unread, Opening
  <2>2. mem = saved /\ Initialized /\ saved' = saved
    BY <1>13, <2>1 DEF MemInv, StayBlocked, FinishConfirmation, BlockGate, SettleMain, Deliver, PutInPlace
  <2>3. PICK v \in VersionOrNone, label \in ReturnLabels : Ensure(v, label) \/ Return(label)
    BY SMTT(30), <1>13, StateType DEF StayBlocked, SettleMain, Deliver, FinishConfirmation, BlockGate, PutInPlace, Job,
      InstrumentTypeOK, IInv, FrameInv, Frame, ReturnLabels
  <2>4. \/ pc' \in {"swap", "settle_clear", "play"} /\ mem' = mem
        \/ pc' = "idle" /\ job' = NoJob /\ mem' = Blank
    BY <2>3, EnsureForm, ReturnForm, FinishForm DEF ReturnLabels
  <2>. QED BY <1>b, <1>c, <2>1, <2>2, <2>4 DEF Unread
<1>14. CASE ResumeSettlement
  <2>1. Settling /\ Adopting /\ Initialized
    BY <1>14 DEF ResumeSettlement, MemInv, Unread, Opening
  <2>. QED BY <1>0, <1>14, <2>1 DEF ResumeSettlement, Adopting, Unread, Initialized
<1>15. CASE ClearSettlement
  <2>1. mem = saved /\ Initialized /\ saved' = saved
    BY <1>15 DEF ClearSettlement, MemInv, Unread, Opening
  <2>. QED BY <1>15, <1>a, <1>b, <1>c, <2>1 DEF ClearSettlement, Unread
<1>16. CASE UNCHANGED instrumentVars
  BY SMTT(30), <1>2, <1>16 DEF instrumentVars, vars
<1>. QED
  BY <1>3, <1>4, <1>5, <1>6, <1>7, <1>8, <1>9, <1>10, <1>11, <1>12, <1>13, <1>14, <1>15, <1>16
     DEF InstrumentNext, Step, Decides


-----------------------------------------------------------------------------
(* The control flow.                                                       *)

\* From one label to the next with the same arguments, and into replace_main.
Move(a, b) == pc = a /\ pc' = b /\ UNCHANGED <<job, frame>>
SwapFor(label, v) == pc' = "swap" /\ job' = job /\ frame'.swapped = label /\ frame'.target = v

\* Where each step is taken and where it leads.
LEMMA Moves ==
  ASSUME IInv, [InstrumentNext]_instrumentVars
  PROVE  \/ pc' = "idle" /\ job' = NoJob /\ mem' = Blank
         \/ UNCHANGED <<pc, job, frame, versions, saved, decisions, gated, rulings>>
            /\ (pc = "repair" \/ UNCHANGED <<mem, log>>)
            /\ (pc \in {"idle", "screen"} \/ UNCHANGED visible)
         \/ /\ StartCommand /\ pc = "idle"
            /\ pc' = "load" \/ (pc' = "init" /\ ~Initialized /\ job'.cmd = "init")
            /\ UNCHANGED <<versions, log, saved, decisions, gated, rulings, frame>>
         \/ Load /\ Move("load", "repair")
         \/ LoadDone /\ ~Settling /\ job.cmd \in Commands /\ Move("repair", job.cmd)
         \/ InitFresh /\ pc = "init" /\ pc' = "stage" /\ UNCHANGED frame
         \/ InitResume /\ pc = "init" /\ pc' = "init_log" /\ UNCHANGED frame
         \/ InitLog /\ Move("init_log", "init_save")
         \/ InitSave /\ Move("init_save", "init_measure")
         \/ PlaceCandidate /\ Move("evaluate_from", "evaluate")
         \/ SaveIntent /\ pc = "evaluate" /\ pc' = "stage" /\ UNCHANGED frame
         \/ StageSnapshot /\ pc = "stage" /\ pc' = "commit" /\ UNCHANGED frame
         \/ CommitSnapshot /\ Move("commit", IF job.cmd = "init" THEN "init_log" ELSE "append")
         \/ AppendBlock /\ Move("append", "save")
         \/ SaveCandidate /\ Move("save", "measure")
         \/ FinalizePending /\ pc \in {"finalize", "finalize_keep"} /\ pc' = "decide" /\ UNCHANGED frame
         \/ InitMeasure /\ pc \in {"init", "init_measure"} /\ pc' = "measure" /\ UNCHANGED frame
         \/ Measure /\ (Move("measure", "score") \/ Move("measure", "unscored"))
         \/ Score /\ job.cmd \notin EvaluateCommands \cup {"init"} /\ Move("score", "screen")
         \/ Unscored /\ Move("unscored", "mark")
         \/ OpenConfirmation /\ pc \in {"decide", "screened"} /\ Move(pc, "confirm")
         \/ Decides /\ pc \in {"decide", "screen", "screened", "confirm"} /\ pc' = "settle_status" /\ UNCHANGED job
         \/ ProposeKeep /\ (Move("decide", "measure") \/ Move("decide", "screen"))
         \/ SaveProposal /\ Move("screen", "gate")
         \/ GateScreens /\ Move("gate", "screened")
         \/ FinishConfirmation /\ pc = "confirm" /\ ((pc' = "play" /\ UNCHANGED job) \/ SwapFor("play", job.version))
         \/ Play /\ (Move("play", "gate_confirm") \/ Move("play", "play_failed"))
         \/ StayBlocked /\ pc = "decide" /\ SwapFor("refused", mem.head)
         \/ BlockGate /\ pc = "play_failed" /\ SwapFor("refused", mem.head)
         \/ GateConfirms /\ Move("gate_confirm", "confirm")
         \/ ResumeSettlement /\ pc = "repair" /\ pc' = "settle_status" /\ UNCHANGED job
         \/ SettleStatus /\ Move("settle_status", "settle_lines")
         \/ SettleLines /\ Move("settle_lines", "settle_main")
         \/ SettleMain /\ pc = "settle_main"
            /\ ((pc' = "settle_clear" /\ UNCHANGED job) \/ SwapFor("settle_clear", mem.head))
         \/ ClearSettlement /\ pc = "settle_clear" /\ UNCHANGED job
            /\ (pc' = "repair" \/ (pc' = "walk" /\ job.cmd \in FinalizeCommands))
         \/ Restore /\ pc = "restore" /\ SwapFor("ok", job.version)
         \/ FinalizeSettled /\ pc \in {"finalize", "finalize_keep"} /\ Move(pc, "walk")
         \/ Walk /\ Move("walk", "deliver")
         \/ Deliver /\ pc = "deliver" /\ SwapFor("finalized", mem.head)
         \/ PutAside /\ Move("swap", "swap_in")
         \/ PutInPlace /\ pc = "swap_in" /\ pc' \in {"settle_clear", "play"} /\ pc' = frame.swapped /\ UNCHANGED job
<1>. InstrumentTypeOK /\ FrameInv /\ MemInv
  BY DEF IInv
<1>. USE DEF Goto, End, Finish, disk, added, Move
<1>0. \A v, label : frame' = [frame EXCEPT !.target = v, !.swapped = label]
                      => frame'.swapped = label /\ frame'.target = v
  BY DEF InstrumentTypeOK, Frame
<1>1. CASE Outside
  BY <1>1, StartCases DEF Outside, EditMain, LoseEvidence
<1>2. CASE SharedStep
  <2>. UNCHANGED <<added, frame>>
    BY <1>2 DEF SharedStep
  <2>1. CASE RepairBlock \/ RepairStatus \/ (RepairHead /\ ~Settling)
    BY SMTT(30), <2>1 DEF RepairBlock, RepairStatus, RepairHead
  <2>2. CASE Load
    BY <2>2 DEF Load
  <2>3. CASE LoadDone /\ ~Settling
    BY <2>3 DEF LoadDone, IInv, RegisterInv, InstrumentTypeOK, Job
  <2>4. CASE InitFresh \/ InitResume \/ InitLog \/ InitSave \/ PlaceCandidate
    BY <2>4 DEF InitFresh, InitResume, InitLog, InitSave, PlaceCandidate
  <2>5. CASE NothingNew \/ Status \/ StageSnapshot
    BY <2>5 DEF NothingNew, Status, StageSnapshot
  <2>6. CASE SaveIntent \/ CommitSnapshot \/ AppendBlock \/ SaveCandidate
    BY ZenonT(60), <2>6 DEF SaveIntent, CommitSnapshot, AppendBlock, SaveCandidate
  <2>7. CASE FinalizePending
    BY <2>7 DEF FinalizePending, Finalizing, FinalizeCommands
  <2>. QED BY <1>2, <2>1, <2>2, <2>3, <2>4, <2>5, <2>6, <2>7 DEF SharedStep
<1>3. CASE InitMeasure \/ Measure \/ Score \/ Unscored
  BY <1>3 DEF InitMeasure, Measure, Score, Unscored, EvaluateCommands
<1>4. CASE MarkUnmeasurable \/ Refuse \/ Kill
  BY <1>4 DEF MarkUnmeasurable, Refuse, Kill, Stop, StopInAppend, StopInRun
<1>5. CASE OpenConfirmation \/ ProposeKeep \/ SaveProposal
  BY <1>5 DEF OpenConfirmation, ProposeKeep, SaveProposal, Consult, Deciding, Screenable
<1>6. CASE GateScreens \/ GateConfirms \/ Play
  BY <1>6 DEF GateScreens, GateConfirms, Play
<1>7. CASE ResumeSettlement \/ SettleStatus \/ SettleLines \/ ClearSettlement
  BY <1>7 DEF ResumeSettlement, SettleStatus, SettleLines, ClearSettlement, FinalizeCommands
<1>8. CASE Restore
  BY <1>8, <1>0 DEF Restore, SwapFor
<1>9. CASE FinalizeSettled \/ Walk \/ PutAside
  BY <1>9 DEF FinalizeSettled, Finalizing, FinalizeCommands, Walk, PutAside
<1>10. CASE MeasureHead
  BY <1>10 DEF MeasureHead
<1>11. CASE Decides
  BY SMTT(30), <1>11, DecideSaves
<1>12. ASSUME NEW v, NEW label \in ReturnLabels, Ensure(v, label)
       PROVE  \/ pc' = "idle" /\ job' = NoJob /\ mem' = Blank
              \/ pc' = label /\ label \in {"settle_clear", "play"} /\ UNCHANGED job
              \/ SwapFor(label, v)
  <2>1. CASE Return(label)
    BY <1>12, <2>1, ReturnForm, FinishForm DEF ReturnLabels
  <2>2. CASE /\ pc' = "swap" /\ UNCHANGED <<job, mem, outcome>>
             /\ frame' = [frame EXCEPT !.target = v, !.swapped = label]
    BY <1>0, <2>2 DEF SwapFor
  <2>. QED BY <1>12, <2>1, <2>2, EnsureForm DEF ReturnLabels
<1>13. CASE StayBlocked
  BY <1>12, <1>13 DEF StayBlocked, Deciding, ReturnLabels
<1>14. CASE FinishConfirmation
  BY <1>12, <1>14 DEF FinishConfirmation, ReturnLabels
<1>15. CASE BlockGate
  BY <1>12, <1>15 DEF BlockGate, ReturnLabels
<1>16. CASE SettleMain
  BY <1>12, <1>16 DEF SettleMain, ReturnLabels
<1>17. CASE Deliver
  BY <1>12, <1>17 DEF Deliver, ReturnLabels
<1>18. CASE PutInPlace
  <2>1. frame.swapped \in ReturnLabels /\ Return(frame.swapped) /\ pc = "swap_in"
    BY <1>18 DEF PutInPlace, InstrumentTypeOK, FrameInv, Frame, ReturnLabels
  <2>. QED BY <1>18, <2>1, ReturnForm, FinishForm DEF ReturnLabels
<1>19. CASE UNCHANGED instrumentVars
  BY <1>19 DEF instrumentVars, vars
<1>. QED
  BY ZenonT(60), <1>1, <1>2, <1>3, <1>4, <1>5, <1>6, <1>7, <1>8, <1>9, <1>10, <1>11, <1>13, <1>14, <1>15, <1>16, <1>17,
     <1>18, <1>19
     DEF InstrumentNext, Step, Decides

\* How the unknown and the broken snapshots change.
LEMMA UnknownMoves ==
  ASSUME IInv, [InstrumentNext]_instrumentVars
  PROVE  /\ LoadDone \/ InitSave \/ SaveCandidate => Unknown(saved)' = {}
         /\ LoadDone => Broken' = {}
         /\ CommitSnapshot => Unknown(saved)' = Unknown(saved) \cup {job.version}
         /\ ~(LoadDone \/ InitSave \/ SaveCandidate \/ CommitSnapshot) =>
              /\ Unknown(saved)' = Unknown(saved) /\ Broken' = Broken
              /\ Initialized' <=> Initialized
<1>. InstrumentTypeOK /\ MemInv
  BY DEF IInv
<1>1. LoadDone => Unknown(saved)' = {} /\ Broken' = {}
  <2>. SUFFICES ASSUME LoadDone PROVE Unknown(saved)' = {} /\ Broken' = {}
    OBVIOUS
  <2>1. /\ \A v \in Versions :
             saved'.digests[v] = IF v \in Unknown(saved) THEN versions[v] ELSE saved.digests[v]
        /\ Broken = {} /\ UNCHANGED versions
    BY LoadSaves DEF LoadDone
  <2>. QED BY <2>1 DEF Unknown, Snapshots, Broken
<1>2. InitSave => Unknown(saved)' = {}
  <2>. SUFFICES ASSUME InitSave PROVE Unknown(saved)' = {}
    OBVIOUS
  <2>1. /\ job.tree \in Tree /\ Snapshots = {First} /\ UNCHANGED versions
        /\ \A v \in Versions : saved'.digests[v] = IF v = First THEN job.tree ELSE Missing
    BY InitSaves DEF InitSave
  <2>. QED BY <2>1, Constants DEF Unknown, Snapshots
<1>3. SaveCandidate => Unknown(saved)' = {}
  <2>. SUFFICES ASSUME SaveCandidate PROVE Unknown(saved)' = {}
    OBVIOUS
  <2>1. job.tree \in Tree /\ Unknown(saved) = {job.version} /\ UNCHANGED versions
        /\ saved'.digests = [saved.digests EXCEPT ![job.version] = job.tree]
    BY CandidateSaves DEF SaveCandidate
  <2>. QED BY <2>1, StateType, Constants DEF Unknown, Snapshots, InstrumentTypeOK
<1>4. CommitSnapshot => Unknown(saved)' = Unknown(saved) \cup {job.version}
  BY CommitEffect
<1>5. CASE UNCHANGED <<versions, saved>>
  BY <1>1, <1>2, <1>3, <1>4, <1>5 DEF Unknown, Snapshots, Broken, Initialized
<1>6. CASE (SaveIntent \/ Restore \/ Walk \/ Decides) /\ UNCHANGED versions
  <2>1. saved'.digests = saved.digests /\ Initialized /\ saved'.head # None
    BY <1>6, IntentSaves, HeadMoves, DecideSaves, Constants DEF Initialized
  <2>. QED BY <1>1, <1>2, <1>3, <1>4, <1>6, <2>1 DEF Unknown, Snapshots, Broken, Initialized
<1>. QED BY <1>1, <1>2, <1>3, <1>4, <1>5, <1>6, RecordSteps DEF record

\* A running command keeps its name.
LEMMA CmdKept ==
  ASSUME IInv, [InstrumentNext]_instrumentVars, pc' \notin Unread \cup {"repair"},
         job'.cmd # "init"
  PROVE  job'.cmd = job.cmd
<1>. job \in Job
  BY DEF IInv, InstrumentTypeOK
<1>1. CASE InitFresh \/ InitResume \/ SaveIntent \/ StageSnapshot \/ FinalizePending \/ InitMeasure
  BY <1>1 DEF InitFresh, InitResume, SaveIntent, StageSnapshot, FinalizePending, InitMeasure, Job, Finish, End,
              Goto, Unread
<1>. QED BY <1>1, Moves DEF Move, SwapFor, Unread

\* Past load_state nothing is unknown or broken but what evaluate itself adds.
LEMMA ReconciledStep == ASSUME IInv, [InstrumentNext]_instrumentVars PROVE ReconciledInv'
<1>. InstrumentTypeOK /\ ReconciledInv /\ MemInv /\ RegisterInv
  BY DEF IInv
<1>. USE DEF Move, Unread
<1>1. CommitSnapshot => /\ Unknown(saved) = {} \/ ~Initialized
                        /\ Initialized <=> job.cmd # "init"
                        /\ job.cmd \in EvaluateCommands \cup {"init"}
                        /\ UNCHANGED job
  BY CommitEffect DEF CommitSnapshot, RegisterInv, Registering
<1>2. InitSave \/ SaveCandidate => job.cmd \in EvaluateCommands \cup {"init"}
  BY DEF InitSave, SaveCandidate, RegisterInv, Registering
<1>3. ResumeSettlement => Unknown(saved) = {} /\ Broken = {}
  BY DEF ResumeSettlement, IInv, SettlingInv
<1>4. Decides => Broken = {}
  BY DecideSaves DEF ReconciledInv, DecideCommands, EvaluateCommands
<1>5. pc \in {"append", "save"} => job.cmd # "init" /\ Initialized
  BY DEF RegisterInv, MemInv, Opening
\* The candidate's snapshot is unknown up to the save.
<1>6. ASSUME pc' \in {"append", "save"} PROVE Unknown(saved)' = {job'.version}
  <2>1. \/ CommitSnapshot /\ UNCHANGED job /\ job.cmd # "init"
        \/ pc \in {"append", "save"} /\ UNCHANGED <<job, versions, saved>>
    BY <1>6, Moves DEF SwapFor, Commands, AppendBlock
  <2>2. CASE CommitSnapshot /\ UNCHANGED job /\ job.cmd # "init"
    <3>1. Unknown(saved)' = Unknown(saved) \cup {job.version}
      BY <2>2, CommitEffect
    <3>. QED BY <1>1, <2>2, <3>1
  <2>3. CASE pc \in {"append", "save"} /\ UNCHANGED <<job, versions, saved>>
    BY <2>3 DEF ReconciledInv, Unknown, Snapshots
  <2>. QED BY <2>1, <2>2, <2>3
<1>. DEFINE Saves == LoadDone \/ InitSave \/ SaveCandidate \/ CommitSnapshot
<1>7. ASSUME pc' \notin Unread \cup {"repair", "append", "save"}, Initialized' PROVE Unknown(saved)' = {}
  <2>1. CASE LoadDone \/ InitSave \/ SaveCandidate
    BY <2>1, UnknownMoves
  <2>2. CASE CommitSnapshot
    <3>1. pc' = IF job.cmd = "init" THEN "init_log" ELSE "append"
      BY <2>2 DEF CommitSnapshot, Goto
    <3>2. ~Initialized /\ UNCHANGED saved
      BY <1>1, <1>7, <2>2, <3>1 DEF CommitSnapshot
    <3>. QED BY <1>7, <3>2 DEF Initialized
  <2>3. CASE ~Saves
    <3>1. Unknown(saved)' = Unknown(saved) /\ Initialized
      BY <1>7, <2>3, UnknownMoves
    <3>2. pc \notin Unread \cup {"repair", "append", "save"} \/ ResumeSettlement
      BY <1>7, <2>3, <3>1, Moves DEF SwapFor
    <3>. QED BY <1>3, <3>1, <3>2 DEF ReconciledInv
  <2>. QED BY <2>1, <2>2, <2>3
<1>8. ASSUME pc' \notin Unread \cup {"repair"}, job'.cmd \notin EvaluateCommands \cup {"init"}
      PROVE  Broken' = {}
  <2>1. CASE LoadDone
    BY <2>1, UnknownMoves
  <2>2. CASE ~LoadDone
    <3>1. job'.cmd = job.cmd
      BY <1>8, <2>2, CmdKept
    <3>2. ~Saves
      BY <1>1, <1>2, <1>8, <2>2, <3>1
    <3>3. pc \notin Unread \cup {"repair"} \/ ResumeSettlement
      BY <1>8, <2>2, Moves DEF SwapFor
    <3>. QED BY <1>3, <1>8, <3>1, <3>2, <3>3, UnknownMoves DEF ReconciledInv
  <2>. QED BY <2>1, <2>2
<1>9. ASSUME InSettlement' PROVE Broken' = {}
  <2>1. InSettlement \/ Decides \/ ResumeSettlement
    BY <1>9, Moves DEF SwapFor, InSettlement, Swapping, Commands
  <2>2. pc \in {"decide", "screen", "screened", "confirm", "repair", "settle_status", "settle_lines",
                "settle_main", "settle_clear", "swap", "swap_in"}
    BY <2>1, DecideSaves DEF InSettlement, Swapping, ResumeSettlement
  <2>3. LoadDone => pc' \in Commands
    BY DEF LoadDone, Goto, RegisterInv, InstrumentTypeOK, Job
  <2>4. ~Saves
    BY <1>9, <2>2, <2>3 DEF InitSave, SaveCandidate, CommitSnapshot, InSettlement, Swapping, Commands
  <2>. QED BY <1>3, <1>4, <2>1, <2>4, UnknownMoves DEF ReconciledInv
<1>. QED BY <1>6, <1>7, <1>8, <1>9 DEF ReconciledInv

\* The arguments of init and of evaluate are those their labels rely on.
LEMMA RegisterStep == ASSUME IInv, [InstrumentNext]_instrumentVars PROVE RegisterInv'
<1>. InstrumentTypeOK /\ MemInv /\ RegisterInv
  BY DEF IInv
<1>. USE DEF Move, Registering, EvaluateCommands, DecideCommands
<1>1. CASE pc' = "idle" /\ job' = NoJob /\ mem' = Blank
  BY <1>1, IdleControl
<1>2. CASE UNCHANGED <<pc, job, versions, saved>> /\ (pc = "repair" \/ UNCHANGED log)
  BY <1>2 DEF RegisterInv, Initialized, Snapshots
\* Elsewhere only the command's name matters.
<1>3. ASSUME job'.cmd = job.cmd, pc # "idle",
             pc' \in {"load", "repair", "decide", "screen", "gate", "screened", "confirm", "play", "play_failed",
                      "gate_confirm", "settle_status", "settle_lines", "settle_main", "settle_clear",
                      "walk", "deliver", "swap", "swap_in"}
      PROVE  RegisterInv'
  BY <1>3 DEF RegisterInv
<1>4. CASE StartCommand /\ (pc' = "load" \/ (pc' = "init" /\ ~Initialized /\ job'.cmd = "init"))
  BY <1>4, StartCases DEF RegisterInv
<1>5. CASE LoadDone /\ job.cmd \in Commands /\ Move("repair", job.cmd)
  BY <1>5 DEF RegisterInv, Commands
<1>6. CASE InitFresh
  <2>1. Snapshots = {} /\ UNCHANGED <<saved, versions>> /\ pc = "init" /\ ~Initialized /\ pc' = "stage"
    BY <1>6 DEF InitFresh, InitPossible, Snapshots, disk, Goto
  <2>2. job' = [job EXCEPT !.version = First, !.tree = main] /\ main \in Tree
    BY <1>6 DEF InitFresh
  <2>3. job'.version = First /\ job'.tree \in Tree /\ job'.cmd = "init"
    BY <2>1, <2>2 DEF InstrumentTypeOK, Job, RegisterInv
  <2>. QED BY <2>1, <2>3, Constants DEF RegisterInv, Initialized, Snapshots
<1>7. CASE InitResume
  <2>1. UNCHANGED <<saved, versions>> /\ pc = "init" /\ ~Initialized /\ pc' = "init_log" /\ versions[First] \in Tree
    BY <1>7 DEF InitResume, disk, Goto
  <2>2. job' = [job EXCEPT !.version = First, !.tree = versions[First]]
    BY <1>7 DEF InitResume
  <2>3. job'.version = First /\ job'.tree \in Tree /\ job'.cmd = "init"
    BY <2>1, <2>2 DEF InstrumentTypeOK, Job, RegisterInv
  <2>. QED BY <2>1, <2>3, Constants DEF RegisterInv, Initialized
<1>8. CASE InitLog
  <2>1. log'[First].status = "baseline"
    BY <1>8, Constants DEF InitLog, InstrumentTypeOK, NewBlock, Block, Declared, IInv, LogInv, RegisterInv
  <2>. QED BY <1>8, <2>1 DEF InitLog, Goto, RegisterInv, Initialized
<1>9. CASE InitSave
  BY <1>9 DEF InitSave, Goto, RegisterInv
<1>10. CASE PlaceCandidate
  BY <1>10 DEF PlaceCandidate, Goto, RegisterInv
<1>11. CASE SaveIntent
  <2>1. /\ Initialized /\ saved'.head = saved.head /\ saved'.pending = None
        /\ \E v \in Versions : IsNextId(v) /\ job' = [job EXCEPT !.version = v, !.tree = main]
    BY <1>11, IntentSaves
  <2>2. PICK v \in Versions : IsNextId(v) /\ job' = [job EXCEPT !.version = v, !.tree = main]
    BY <2>1
  <2>3. job'.version = v /\ job'.tree = main /\ job'.cmd = job.cmd
    BY <2>2 DEF InstrumentTypeOK, Job
  <2>4. main \in Tree /\ pc = "evaluate" /\ pc' = "stage" /\ UNCHANGED versions
    BY <1>11 DEF SaveIntent, Goto
  <2>5. \A u \in Snapshots' : u < v
    BY <2>2, <2>4 DEF IsNextId, Snapshots
  <2>. QED BY <2>1, <2>3, <2>4, <2>5 DEF RegisterInv, Initialized
<1>12. CASE StageSnapshot
  BY ZenonT(60), <1>1, <1>12 DEF StageSnapshot, Goto, End, disk, RegisterInv, Initialized, Snapshots, InstrumentTypeOK, Job
<1>13. CASE CommitSnapshot
  <2>1. /\ job.version \in Versions /\ versions'[job.version] # Missing
        /\ UNCHANGED <<saved, job, log>>
        /\ ~Initialized => job.version = First
        /\ Initialized <=> job.cmd # "init"
    BY <1>13, CommitEffect DEF Snapshots
  <2>2. pc = "commit" /\ pc' = IF job.cmd = "init" THEN "init_log" ELSE "append"
    BY <1>13 DEF CommitSnapshot, Goto
  <2>. QED BY <2>1, <2>2 DEF RegisterInv, Initialized
<1>14. CASE AppendBlock
  <2>1. log'[job.version].status = "reverted"
    BY <1>14 DEF AppendBlock, CandidateBlock, NewBlock, InstrumentTypeOK, RegisterInv
  <2>. QED BY <1>14, <2>1 DEF AppendBlock, Goto, RegisterInv, Initialized
<1>15. CASE SaveCandidate
  BY <1>15 DEF SaveCandidate, Goto, RegisterInv
<1>16. CASE InitMeasure /\ pc \in {"init", "init_measure"} /\ pc' = "measure"
  <2>1. job' = [job EXCEPT !.version = First]
    BY <1>16 DEF InitMeasure, Finish, End
  <2>2. job'.cmd = "init" /\ job'.version = First
    BY <1>16, <2>1 DEF InstrumentTypeOK, Job, RegisterInv
  <2>. QED BY <1>16, <2>2, Constants DEF RegisterInv
<1>17. CASE (Measure /\ (Move("measure", "score") \/ Move("measure", "unscored"))) \/ (Unscored /\ Move("unscored", "mark"))
  BY <1>17 DEF RegisterInv
<1>18. CASE ProposeKeep
  BY <1>18 DEF ProposeKeep, Consult, Deciding, Goto, IInv, DecideInv, RegisterInv
<1>19. CASE FinalizePending
  <2>1. job'.cmd = job.cmd
    BY <1>19 DEF FinalizePending, InstrumentTypeOK, Job
  <2>. QED BY <1>3, <1>19, <2>1 DEF FinalizePending, Finalizing, Goto
<1>. QED
  BY <1>1, <1>2, <1>3, <1>4, <1>5, <1>6, <1>7, <1>8, <1>9, <1>10, <1>11, <1>12, <1>13, <1>14, <1>15, <1>16, <1>17,
     <1>18, <1>19, Moves DEF SwapFor

\* A settlement is left only completed, and replace_main returns where it was called.
LEMMA FrameStep == ASSUME IInv, [InstrumentNext]_instrumentVars PROVE FrameInv'
<1>. InstrumentTypeOK /\ MemInv /\ FrameInv
  BY DEF IInv
<1>. USE DEF Move, InSettlement, Swapping, StatusWritten, LinesWritten
<1>1. CASE pc' = "idle" /\ job' = NoJob /\ mem' = Blank
  BY <1>1, IdleControl
<1>2. CASE UNCHANGED <<pc, frame, saved, gated, rulings>> /\ (pc = "repair" \/ UNCHANGED log)
  BY <1>2 DEF FrameInv, Settling
<1>3. ASSUME ~Settling', pc' \notin {"settle_status", "settle_lines", "settle_main", "settle_clear", "swap", "swap_in"}
      PROVE  FrameInv'
  BY <1>3 DEF FrameInv
<1>4. ASSUME pc' \in Unread \cup {"repair"} PROVE FrameInv'
  BY <1>4 DEF FrameInv, Unread
<1>5. ASSUME ~Settling', NEW v \in Versions, NEW label \in {"play", "refused", "ok", "finalized"}, SwapFor(label, v),
             label = "finalized" => v = saved'.head
      PROVE  FrameInv'
  BY <1>5 DEF FrameInv, SwapFor
<1>6. ~Settling /\ UNCHANGED gated => ~Settling'
  BY DEF Settling
\* Where nothing is half settled.
<1>7. pc \notin Unread \cup {"repair", "swap", "swap_in", "settle_status", "settle_lines", "settle_main",
                             "settle_clear"} => ~Settling
  BY NotSettling
<1>8. ~Settling /\ ~Decides => ~Settling'
  <2>1. UNCHANGED gated \/ Decides \/ GatedWriters
    BY RecordSteps, CommitEffect DEF record
  <2>2. GatedWriters => gated'.settling \in {gated.settling, NoRuling}
    BY GatedForm
  <2>. QED BY <1>6, <2>1, <2>2 DEF Settling
<1>9. CASE StartCommand /\ (pc' = "load" \/ (pc' = "init" /\ ~Initialized)) /\ UNCHANGED gated
  <2>1. ~Initialized => ~Settling
    BY SettlingFacts
  <2>. QED BY <1>3, <1>4, <1>6, <1>9, <2>1 DEF Unread
<1>10. CASE LoadDone /\ ~Settling /\ job.cmd \in Commands /\ Move("repair", job.cmd)
  <2>1. ~Decides
    BY <1>10, DecideSaves
  <2>. QED BY <1>3, <1>8, <1>10, <2>1 DEF Commands
<1>11. CASE Decides
  <2>1. gated'.settling # NoRuling /\ pc' = "settle_status"
    BY <1>11, DecideSaves
  <2>. QED BY <2>1 DEF FrameInv, Settling
<1>12. CASE ResumeSettlement
  BY <1>12 DEF ResumeSettlement, FrameInv, Settling, added, Goto
<1>13. CASE SettleStatus
  <2>1. gated.settling.of \in Versions /\ Settling
    BY <1>13, SettlingFacts DEF SettleStatus, FrameInv
  <2>2. log'[gated.settling.of].status = gated.settling.status
    BY <1>13, <2>1 DEF SettleStatus, SetStatus, InstrumentTypeOK, Block
  <2>. QED BY <1>13, <2>1, <2>2 DEF SettleStatus, FrameInv, Settling, Goto, added
<1>14. CASE SettleLines
  <2>1. Settling /\ rulings'[gated.settling.of] = <<gated.settling>>
    BY <1>14, LinesEffect, SettlingFacts
  <2>. QED BY <1>14, <2>1 DEF SettleLines, FrameInv, Settling, Goto, disk
<1>15. CASE SettleMain /\ pc = "settle_main" /\ (pc' = "settle_clear" \/ SwapFor("settle_clear", mem.head))
  <2>1. mem.head = saved.head /\ saved.head \in Versions
    BY <1>15, PastLoad DEF Unread, Opening
  <2>. QED BY <1>15, <2>1 DEF SettleMain, FrameInv, Settling, SwapFor, disk, added
<1>16. CASE ClearSettlement
  <2>1. ~Settling'
    BY <1>16, GatedForm DEF GatedWriters, Settling
  <2>. QED BY <1>1, <1>3, <1>4, <1>16, <2>1 DEF ClearSettlement, Finish, End, Goto
<1>17. CASE PutAside
  <2>1. pc = "swap" /\ pc' = "swap_in" /\ UNCHANGED <<log, saved, gated, rulings, frame>>
    BY <1>17 DEF PutAside, Goto, added
  <2>2. Settling' <=> Settling
    BY <2>1 DEF Settling
  <2>. QED BY <2>1, <2>2 DEF FrameInv, Unread
<1>18. CASE PutInPlace /\ pc = "swap_in" /\ pc' \in {"settle_clear", "play"} /\ pc' = frame.swapped
  BY <1>18 DEF PutInPlace, FrameInv, Settling, Unread, added
<1>19. CASE \/ StayBlocked /\ pc = "decide" /\ SwapFor("refused", mem.head)
            \/ BlockGate /\ pc = "play_failed" /\ SwapFor("refused", mem.head)
            \/ FinishConfirmation /\ pc = "confirm" /\ SwapFor("play", job.version)
            \/ Restore /\ pc = "restore" /\ SwapFor("ok", job.version)
            \/ Deliver /\ pc = "deliver" /\ SwapFor("finalized", mem.head)
  <2>1. mem.head = saved.head /\ saved.head \in Versions
    BY <1>19, PastLoad DEF Unread, Opening
  <2>2. pc \in {"confirm", "restore"} => job.version \in Versions
    BY DEF IInv, DecideInv, Pondering
  <2>3. ~Settling /\ ~Decides
    BY <1>7, <1>19, DecideSaves DEF Unread, SwapFor
  <2>4. Deliver => saved' = saved
    BY DEF Deliver, disk
  <2>. QED BY <1>5, <1>8, <1>19, <2>1, <2>2, <2>3, <2>4
<1>20. ASSUME pc \notin Unread \cup {"repair", "swap", "swap_in", "settle_status", "settle_lines", "settle_main",
                                     "settle_clear"},
              pc' \notin {"settle_status", "settle_lines", "settle_main", "settle_clear", "swap", "swap_in"}
       PROVE  FrameInv'
  BY <1>3, <1>7, <1>8, <1>20, DecideSaves
<1>. QED
  BY <1>1, <1>2, <1>4, <1>9, <1>10, <1>11, <1>12, <1>13, <1>14, <1>15, <1>16, <1>17, <1>18, <1>19, <1>20, Moves
     DEF Unread

\* The arguments of decide and finalize, and the gate's word, fit each label.
LEMMA DecideStep == ASSUME IInv, [InstrumentNext]_instrumentVars PROVE DecideInv'
<1>. InstrumentTypeOK /\ MemInv /\ DecideInv /\ RegisterInv
  BY DEF IInv
<1>. USE DEF Move, DecideCommands, FinalizeCommands
<1>. DEFINE Args == /\ job.cmd = "decide" => job.version \in Versions /\ job.status \in {"kept", "reverted"}
                    /\ job.cmd = "restore" => job.version \in Versions
            Quiet == {"idle", "load", "repair", "init", "init_log", "init_save", "init_measure", "evaluate",
                      "evaluate_from", "stage", "commit", "append", "save", "mark", "status", "settle_status",
                      "settle_lines", "settle_main", "settle_clear"}
            Swaps == {"swap", "swap_in"}
<1>1. CASE pc' = "idle" /\ job' = NoJob /\ mem' = Blank
  BY <1>1, IdleControl
<1>2. decisions' = decisions => Kind(job.version)' = Kind(job'.version)
  BY KindFrame
<1>3. CASE /\ UNCHANGED <<pc, job, frame, saved, decisions, gated>>
           /\ pc \in {"idle", "screen"} \/ UNCHANGED visible
  BY <1>2, <1>3 DEF DecideInv, Pondering, Proposing, Resolving, Delivering, Swapping, Passes, Safe
\* The arguments of a command stay in their ranges.
<1>4. pc' # "idle" => Args'
  <2>1. CASE InitFresh \/ InitResume \/ SaveIntent \/ StageSnapshot \/ InitMeasure
    <3>1. job' = NoJob \/ job'.cmd = job.cmd
      BY <2>1, IntentSaves DEF InitFresh, InitResume, StageSnapshot, InitMeasure, Finish, End, InstrumentTypeOK, Job
    <3>2. job.cmd \in EvaluateCommands \cup {"init"}
      BY <2>1 DEF RegisterInv, Registering, InitFresh, InitResume, SaveIntent, StageSnapshot, InitMeasure, Initialized,
                  EvaluateCommands
    <3>3. NoJob.cmd = "none"
      BY DEF NoJob
    <3>. QED BY <3>1, <3>2, <3>3 DEF EvaluateCommands
  <2>2. CASE FinalizePending
    <3>1. job'.cmd = job.cmd /\ job.cmd \in FinalizeCommands
      BY <2>2 DEF FinalizePending, Finalizing, InstrumentTypeOK, Job, DecideInv
    <3>. QED BY <3>1
  <2>3. CASE job' = job
    BY <2>3 DEF DecideInv
  <2>4. CASE StartCommand
    BY <2>4, StartCases
  <2>. QED BY <2>1, <2>2, <2>3, <2>4, Moves DEF SwapFor
\* Where a command decides nothing.
<1>5. ASSUME pc' \in Quiet \cup Swaps, pc' \in Swaps => frame'.swapped \notin {"play", "finalized"}, pc' # "idle"
      PROVE  DecideInv'
  BY <1>4, <1>5 DEF DecideInv, Pondering, Proposing, Resolving, Delivering, Swapping
<1>6. ASSUME pc' \in {"measure", "score", "unscored"}, job'.cmd \notin DecideCommands
      PROVE  DecideInv'
  BY <1>4, <1>6 DEF DecideInv, Pondering, Proposing, Resolving, Delivering, Swapping
<1>7. CASE StartCommand /\ (pc' = "load" \/ pc' = "init")
  BY <1>5, <1>7
<1>8. CASE LoadDone /\ job.cmd \in Commands /\ Move("repair", job.cmd)
  <2>1. pc' \in Commands /\ pc' = job'.cmd
    BY <1>8
  <2>. QED BY <1>4, <2>1 DEF DecideInv, Pondering, Proposing, Resolving, Delivering, Swapping, Commands
<1>9. CASE \/ Load /\ Move("load", "repair")
           \/ (InitFresh \/ SaveIntent) /\ pc' = "stage"
           \/ InitResume /\ pc' = "init_log"
           \/ InitLog /\ Move("init_log", "init_save")
           \/ InitSave /\ Move("init_save", "init_measure")
           \/ PlaceCandidate /\ Move("evaluate_from", "evaluate")
           \/ StageSnapshot /\ pc' = "commit"
           \/ CommitSnapshot /\ Move("commit", IF job.cmd = "init" THEN "init_log" ELSE "append")
           \/ AppendBlock /\ Move("append", "save")
           \/ Unscored /\ Move("unscored", "mark")
           \/ Decides /\ pc' = "settle_status"
           \/ ResumeSettlement /\ pc' = "settle_status"
           \/ SettleStatus /\ Move("settle_status", "settle_lines")
           \/ SettleLines /\ Move("settle_lines", "settle_main")
           \/ SettleMain /\ (pc' = "settle_clear" \/ SwapFor("settle_clear", mem.head))
           \/ ClearSettlement /\ pc' = "repair"
           \/ StayBlocked /\ SwapFor("refused", mem.head)
           \/ BlockGate /\ SwapFor("refused", mem.head)
           \/ Restore /\ SwapFor("ok", job.version)
  BY <1>5, <1>9 DEF SwapFor
<1>10. CASE SaveCandidate /\ Move("save", "measure")
  <2>1. job.cmd \in EvaluateCommands
    BY <1>10 DEF RegisterInv, Registering
  <2>. QED BY <1>6, <1>10, <2>1 DEF EvaluateCommands
<1>11. CASE InitMeasure /\ pc' = "measure"
  <2>1. job' = [job EXCEPT !.version = First] /\ job.cmd = "init"
    BY <1>11 DEF InitMeasure, RegisterInv, Finish, End
  <2>. QED BY <1>6, <1>11, <2>1 DEF InstrumentTypeOK, Job
<1>12. CASE FinalizePending /\ pc' = "decide"
  <2>1. /\ job'.version = mem.pending /\ mem.pending \in Versions
        /\ job'.cmd = job.cmd /\ job.cmd \in FinalizeCommands /\ job'.status \in {"kept", "reverted"}
    BY <1>12, StateType DEF FinalizePending, Finalizing, InstrumentTypeOK, Job, DecideInv, VersionOrNone
  <2>. QED BY <1>12, <2>1 DEF DecideInv, Pondering, Proposing, Resolving, Delivering, Swapping
\* Before the gate is asked, and with a line of its to be resolved.
<1>. DEFINE Given == /\ job.version \in Versions /\ job.cmd \in DecideCommands
                     /\ job.status \in {"kept", "reverted"} /\ saved.pending = job.version
<1>13. ASSUME Given, job.status = "kept", Kind(job.version) = "none", UNCHANGED <<job, decisions>>,
              saved'.pending = saved.pending,
              pc' \in {"measure", "score", "unscored", "screen", "gate"},
              pc' = "gate" => gated'.proposal = job.version
       PROVE  DecideInv'
  BY <1>2, <1>4, <1>13 DEF DecideInv, Pondering, Proposing, Resolving, Delivering, Swapping
<1>14. ASSUME Given, Kind(job.version) = "provisional_open", UNCHANGED <<job, decisions>>,
              saved'.pending = saved.pending,
              \/ pc' \in {"confirm", "play", "play_failed", "gate_confirm"}
              \/ pc' \in Swaps /\ frame'.swapped = "play"
       PROVE  DecideInv'
  BY <1>2, <1>4, <1>14 DEF DecideInv, Pondering, Proposing, Resolving, Delivering, Swapping
<1>15. Pondering => Given
  BY DEF DecideInv
<1>16. pc = "decide" /\ mem.pending = job.version => Given
  BY DEF DecideInv, MemInv, Unread
<1>17. CASE ProposeKeep /\ pc' \in {"measure", "screen"} /\ UNCHANGED job
  <2>1. Given /\ job.status = "kept" /\ Kind(job.version) = "none" /\ UNCHANGED <<decisions, saved>>
    BY <1>16, <1>17 DEF ProposeKeep, Consult, Deciding, disk, added
  <2>. QED BY <1>13, <1>17, <2>1
<1>18. CASE \/ Measure /\ pc = "measure" /\ pc' \in {"score", "unscored"} /\ UNCHANGED job
            \/ Score /\ pc = "score" /\ job.cmd \notin EvaluateCommands \cup {"init"} /\ pc' = "screen" /\ UNCHANGED job
  <2>0. UNCHANGED <<decisions, saved>>
    BY <1>18 DEF Measure, Score, disk, added
  <2>1. CASE job.cmd \in DecideCommands
    <3>1. Proposing /\ Pondering
      BY <1>18, <2>1 DEF Proposing, Pondering
    <3>. QED BY <1>13, <1>15, <1>18, <2>0, <3>1 DEF DecideInv
  <2>2. CASE job.cmd \notin DecideCommands
    BY <1>6, <1>18, <2>2 DEF RegisterInv
  <2>. QED BY <2>1, <2>2
<1>19. CASE SaveProposal /\ pc = "screen" /\ pc' = "gate" /\ UNCHANGED job
  <2>1. gated'.proposal = job.version /\ saved' = saved /\ UNCHANGED decisions
    BY <1>19, GatedForm DEF GatedWriters, SaveProposal, MemInv, Unread
  <2>2. Proposing /\ Pondering
    BY <1>19 DEF Proposing, Pondering
  <2>. QED BY <1>13, <1>15, <1>19, <2>1, <2>2 DEF DecideInv
<1>20. CASE OpenConfirmation /\ pc \in {"decide", "screened"} /\ pc' = "confirm" /\ UNCHANGED job
  <2>1. Kind(job.version) = "provisional_open" /\ saved' = saved /\ UNCHANGED decisions
    BY <1>20 DEF OpenConfirmation, MemInv, Unread
  <2>2. Given
    BY <1>15, <1>16, <1>20 DEF OpenConfirmation, Consult, Deciding, Pondering
  <2>. QED BY <1>14, <1>20, <2>1, <2>2
<1>21. CASE GateScreens /\ pc = "gate" /\ pc' = "screened" /\ UNCHANGED job
  <2>1. Given /\ UNCHANGED saved
    BY <1>15, <1>21 DEF Pondering, Proposing, GateScreens, disk
  <2>2. PICK w \in Versions : w = job.version /\ Kind(w)' \in {"screening_revert", "provisional_open"}
    BY <1>21, GateEffect
  <2>3. Kind(job.version)' \in {"screening_revert", "provisional_open"}
    BY <1>21, <2>2
  <2>. QED BY <1>4, <1>21, <2>1, <2>3 DEF DecideInv, Pondering, Proposing, Resolving, Delivering, Swapping
<1>22. CASE GateConfirms /\ pc = "gate_confirm" /\ pc' = "confirm" /\ UNCHANGED job
  <2>1. Given /\ UNCHANGED saved
    BY <1>15, <1>22 DEF Pondering, Resolving, GateConfirms, disk
  <2>2. PICK w \in Versions : w = job.version /\ Kind(w)' = "resolved"
    BY <1>22, GateEffect
  <2>3. Kind(job.version)' = "resolved"
    BY <1>22, <2>2
  <2>. QED BY <1>4, <1>22, <2>1, <2>3 DEF DecideInv, Pondering, Proposing, Resolving, Delivering, Swapping
<1>23. CASE FinishConfirmation /\ pc = "confirm" /\ ((pc' = "play" /\ UNCHANGED job) \/ SwapFor("play", job.version))
  <2>1. Given
    BY <1>15, <1>23 DEF Pondering
  <2>. QED BY <1>14, <1>23, <2>1 DEF FinishConfirmation, SwapFor, disk, added
<1>24. CASE Play /\ pc = "play" /\ pc' \in {"gate_confirm", "play_failed"} /\ UNCHANGED job
  <2>1. Resolving /\ Pondering
    BY <1>24 DEF Resolving, Pondering
  <2>. QED BY <1>14, <1>15, <1>24, <2>1 DEF DecideInv, Play, disk
<1>25. CASE PutAside /\ Move("swap", "swap_in")
  <2>1. UNCHANGED <<saved, decisions, visible>>
    BY <1>25 DEF PutAside, added
  <2>2. /\ Delivering' <=> Delivering
        /\ Resolving' <=> Resolving
        /\ ~Proposing' /\ (Pondering' <=> Resolving')
    BY <1>25 DEF Delivering, Resolving, Proposing, Pondering, Swapping
  <2>3. Resolving => Given /\ Kind(job.version) = "provisional_open"
    BY <1>15 DEF DecideInv, Pondering
  <2>4. Kind(job.version)' = Kind(job.version)
    BY <1>2, <1>25, <2>1
  <2>5. Delivering => saved.pending = None /\ Passes(saved.head) /\ job.cmd \in FinalizeCommands
    BY DEF DecideInv
  <2>6. Passes(saved.head)' <=> Passes(saved.head)
    BY <2>1 DEF Passes, Safe
  <2>. QED BY <1>4, <1>25, <2>1, <2>2, <2>3, <2>4, <2>5, <2>6 DEF DecideInv
<1>26. CASE PutInPlace /\ pc = "swap_in" /\ pc' \in {"settle_clear", "play"} /\ pc' = frame.swapped /\ UNCHANGED job
  <2>1. UNCHANGED <<saved, decisions>>
    BY <1>26 DEF PutInPlace, added
  <2>2. CASE pc' = "play"
    <3>1. Resolving /\ Pondering
      BY <1>26, <2>2 DEF Resolving, Pondering, Swapping
    <3>. QED BY <1>14, <1>15, <1>26, <2>1, <2>2, <3>1 DEF DecideInv
  <2>. QED BY <1>5, <1>26, <2>2
\* finalize, once nothing is pending.
<1>27. ASSUME pc' = "walk" \/ pc' = "deliver" \/ (pc' \in Swaps /\ frame'.swapped = "finalized"),
              job' = job, job.cmd \in FinalizeCommands, saved'.pending = None,
              pc' # "walk" => Passes(saved.head)'
       PROVE  DecideInv'
  BY <1>4, <1>27 DEF DecideInv, Pondering, Proposing, Resolving, Delivering, Swapping
<1>28. CASE FinalizeSettled /\ pc \in FinalizeCommands /\ pc' = "walk" /\ UNCHANGED job
  BY <1>27, <1>28 DEF FinalizeSettled, DecideInv, MemInv, Unread, disk
<1>29. CASE ClearSettlement /\ pc' = "walk" /\ job.cmd \in FinalizeCommands /\ UNCHANGED job
  <2>1. saved' = saved /\ saved.pending = None
    BY <1>29 DEF ClearSettlement, MemInv, Unread, IInv, FrameInv, InSettlement, SettlingInv
  <2>. QED BY <1>27, <1>29, <2>1
<1>30. CASE Walk /\ pc = "walk" /\ pc' = "deliver" /\ UNCHANGED job
  <2>1. saved'.pending = None /\ job.cmd \in FinalizeCommands
    BY <1>30, HeadMoves DEF DecideInv
  <2>2. Passes(saved.head)'
    <3>1. PICK v \in Visited : Passes(v) /\ mem' = [mem EXCEPT !.head = v]
      BY <1>30 DEF Walk
    <3>2. saved'.head = v /\ UNCHANGED visible
      BY <1>30, <3>1 DEF Walk, InstrumentTypeOK, State, added
    <3>. QED BY <3>1, <3>2 DEF Passes, Safe
  <2>. QED BY <1>27, <1>30, <2>1, <2>2
<1>31. CASE Deliver /\ pc = "deliver" /\ SwapFor("finalized", mem.head)
  <2>1. Delivering /\ UNCHANGED <<saved, visible>>
    BY <1>31 DEF Deliver, Delivering, disk, added
  <2>2. Passes(saved.head)' <=> Passes(saved.head)
    BY <2>1 DEF Passes, Safe
  <2>. QED BY <1>27, <1>31, <2>1, <2>2 DEF DecideInv, SwapFor
<1>. QED
  BY <1>1, <1>3, <1>7, <1>8, <1>9, <1>10, <1>11, <1>12, <1>17, <1>18, <1>19, <1>20, <1>21, <1>22, <1>23, <1>24, <1>25,
     <1>26, <1>28, <1>29, <1>30, <1>31, Moves

\* A finalize that hands over ends where main/ holds the head, or is given it.
LEMMA FinalizeEnds ==
  ASSUME IInv, [InstrumentNext]_instrumentVars, outcome' = "finalized"
  PROVE  \/ UNCHANGED instrumentVars
         \/ Deliver /\ MainIs(mem.head) /\ UNCHANGED <<disk, added>>
         \/ PutInPlace /\ frame.swapped = "finalized"
<1>. InstrumentTypeOK /\ FrameInv
  BY DEF IInv
<1>. USE DEF Goto, End, Finish
<1>1. pc # "idle" => outcome # "finalized"
  BY DEF IInv, FinalizedInv
<1>2. CASE Outside
  BY <1>1, <1>2, StartCases DEF Outside, EditMain, LoseEvidence, IInv, FinalizedInv
<1>3. ~SharedStep
  BY <1>1 DEF SharedStep, Load, RepairBlock, RepairStatus, RepairHead, LoadDone, InitFresh, InitResume, InitLog,
              InitSave, PlaceCandidate, NothingNew, SaveIntent, StageSnapshot, CommitSnapshot, AppendBlock,
              SaveCandidate, FinalizePending, Finalizing, Status
<1>4. ~(InitMeasure \/ Measure \/ Score \/ Unscored \/ MarkUnmeasurable \/ MeasureHead)
  BY <1>1 DEF InitMeasure, Measure, Score, Unscored, MarkUnmeasurable, MeasureHead
<1>5. ~(OpenConfirmation \/ ProposeKeep \/ SaveProposal \/ GateScreens \/ Play \/ GateConfirms)
  BY <1>1 DEF OpenConfirmation, ProposeKeep, SaveProposal, Consult, Deciding, Screenable, GateScreens, Play, GateConfirms
<1>6. ~(ResumeSettlement \/ SettleStatus \/ SettleLines \/ ClearSettlement \/ Restore \/ FinalizeSettled \/ Walk
        \/ PutAside)
  BY <1>1 DEF ResumeSettlement, SettleStatus, SettleLines, ClearSettlement, Restore, FinalizeSettled, Finalizing, Walk,
              PutAside
<1>7. ~Refuse /\ ~Kill
  BY DEF Refuse, Kill, Stop, StopInAppend, StopInRun
<1>8. ~Decides
  BY SMTT(30), <1>1, DecideSaves
<1>9. ASSUME NEW v, NEW label \in ReturnLabels, label # "finalized", pc # "idle", Ensure(v, label) PROVE FALSE
  BY <1>1, <1>9, EnsureForm, ReturnForm DEF ReturnLabels
<1>10. ~(StayBlocked \/ FinishConfirmation \/ BlockGate \/ SettleMain)
  BY SMTT(30), <1>9 DEF StayBlocked, Deciding, FinishConfirmation, BlockGate, SettleMain, ReturnLabels
<1>11. CASE Deliver
  <2>1. Ensure(mem.head, "finalized") /\ pc = "deliver" /\ UNCHANGED <<disk, added>>
    BY <1>11 DEF Deliver
  <2>2. outcome' # outcome
    BY <1>1, <2>1
  <2>. QED BY <1>11, <2>1, <2>2, EnsureForm
<1>12. CASE PutInPlace
  <2>1. frame.swapped \in ReturnLabels /\ Return(frame.swapped) /\ pc = "swap_in"
    BY <1>12 DEF PutInPlace, FrameInv, Frame, InstrumentTypeOK, ReturnLabels
  <2>. QED BY <1>1, <1>12, <2>1, ReturnForm DEF ReturnLabels
<1>. QED
  BY <1>2, <1>3, <1>4, <1>5, <1>6, <1>7, <1>8, <1>10, <1>11, <1>12 DEF InstrumentNext, Step, Decides

\* Once nothing is pending or half settled, only main/ can keep a finalize
\* from handing over.
LEMMA Deliverable ==
  ASSUME IInv, Delivering
  PROVE  /\ saved.head \in Versions /\ mem = saved
         /\ saved.digests[saved.head] = versions[saved.head]
         /\ Passes(saved.head)
         /\ Initialized /\ saved.pending = None /\ ~Settling /\ OpenVersions = {}
         /\ Snapshots = Declared /\ Torn = {} /\ HeadReads(saved.head)
<1>. USE DEF IInv, InstrumentTypeOK
<1>1. pc \in {"deliver", "swap", "swap_in"} /\ (pc # "deliver" => frame.swapped = "finalized")
  BY DEF Delivering, Swapping
<1>2. mem = saved /\ Initialized /\ saved.head \in Versions
  BY <1>1, StateType DEF MemInv, Unread, Opening, Initialized, VersionOrNone
<1>3. saved.pending = None /\ Passes(saved.head) /\ job.cmd \in FinalizeCommands
  BY DEF DecideInv
<1>4. ~Settling
  BY <1>1 DEF FrameInv, InSettlement, Swapping, Unread
<1>5. Unknown(saved) = {} /\ Broken = {}
  BY <1>1, <1>2, <1>3 DEF ReconciledInv, Unread, FinalizeCommands, EvaluateCommands
<1>6. saved.digests[saved.head] = versions[saved.head]
  BY <1>2, <1>5 DEF SavedInv, Initialized, Broken, Snapshots
<1>7. OpenVersions = {}
  BY <1>3, Constants DEF GatedInv, OpenVersions
<1>8. Snapshots = Declared /\ Torn = {}
  BY <1>2, <1>5 DEF LogInv, Blockless
<1>9. gated.settling.of = None
  BY <1>4, EmptyType DEF Settling
<1>10. HeadReads(saved.head)
  BY <1>2, <1>9, HeadReadsKept, Constants DEF HeadReads
<1>. QED BY <1>2, <1>3, <1>4, <1>6, <1>7, <1>8, <1>10

\* What a finalize handed over stays so until somebody acts.
LEMMA FinalizedStep == ASSUME IInv, [InstrumentNext]_instrumentVars PROVE FinalizedInv'
<1>. SUFFICES ASSUME outcome' = "finalized" PROVE FinalizedInv'
  BY DEF FinalizedInv
<1>1. CASE UNCHANGED instrumentVars
  <2>1. Delivered' <=> Delivered
    BY <1>1, KindFrame DEF instrumentVars, vars, added, Delivered, Initialized, Settling, Snapshots, Declared, Torn,
                           HeadReads, HeadStatus
  <2>2. Passes(saved.head)' <=> Passes(saved.head)
    BY <1>1 DEF instrumentVars, vars, added, Passes, Safe
  <2>. QED BY <1>1, <2>1, <2>2 DEF IInv, FinalizedInv, instrumentVars, vars
<1>2. CASE \/ Deliver /\ MainIs(mem.head) /\ UNCHANGED <<disk, added>>
           \/ PutInPlace /\ frame.swapped = "finalized"
  <2>1. Delivering
    BY <1>2 DEF Delivering, Swapping, Deliver, PutInPlace
  <2>2. UNCHANGED <<versions, log, saved, added>>
    BY <1>2 DEF PutInPlace, disk
  <2>3. main' = versions[saved.head]
    <3>1. CASE PutInPlace
      BY <1>2, <2>1, <3>1 DEF PutInPlace, IInv, FrameInv, Swapping, Deliver
    <3>2. CASE Deliver /\ MainIs(mem.head) /\ UNCHANGED <<disk, added>>
      BY <2>1, <3>2, Deliverable DEF MainIs, disk
    <3>. QED BY <1>2, <3>1, <3>2
  <2>4. pc' = "idle"
    <3>1. PutInPlace => Return("finalized")
      BY <1>2 DEF PutInPlace, Deliver
    <3>2. CASE PutInPlace
      BY SMTT(30), <3>1, <3>2, ReturnForm, FinishForm
    <3>3. CASE Deliver /\ pc = "deliver"
      <4>1. outcome # "finalized"
        BY <3>3 DEF IInv, FinalizedInv
      <4>. QED BY <3>3, <4>1, EnsureForm, ReturnForm, FinishForm DEF Deliver
    <3>. QED BY <1>2, <3>2, <3>3 DEF Deliver
  <2>5. OpenVersions' = {}
    BY <2>1, <2>2, KindFrame, Deliverable DEF added
  <2>6. Passes(saved.head)'
    BY <2>1, <2>2, Deliverable DEF added, Passes, Safe
  <2>7. /\ Initialized' /\ saved'.pending = None /\ ~Settling' /\ Snapshots' = Declared' /\ Torn' = {}
        /\ HeadReads(saved.head)'
    BY <2>1, <2>2, Deliverable
       DEF added, Initialized, Settling, Snapshots, Declared, Torn, HeadReads, HeadStatus
  <2>. QED BY <2>2, <2>3, <2>4, <2>5, <2>6, <2>7 DEF FinalizedInv, Delivered
<1>. QED BY <1>1, <1>2, FinalizeEnds

-----------------------------------------------------------------------------
(* The invariant, and the safety properties that follow from it.           *)

\* It holds of an empty results directory with the inherited main/.
LEMMA InitInv == InstrumentInit => IInv
<1>. SUFFICES ASSUME InstrumentInit PROVE IInv
  OBVIOUS
<1>. USE Constants, BlankType, EmptyType DEF InstrumentInit, RolloutInit
<1>1. /\ saved = Blank /\ mem = Blank /\ job = NoJob /\ pc = "idle" /\ outcome = "none" /\ gated = NoGated
      /\ frame = NoFrame /\ decisions = <<>> /\ Snapshots = {} /\ Declared = {} /\ ~Initialized
      /\ \A v \in Versions : rulings[v] = <<>> /\ log[v] = NoBlock /\ versions[v] = Missing
  BY DEF Snapshots, Declared, Initialized, Blank, NoBlock
<1>2. /\ saved.head = None /\ saved.pending = None /\ saved.intent.parent = None
      /\ \A v \in Versions : saved.digests[v] = Missing /\ saved.parents[v] = None
  BY <1>1 DEF Blank, NoIntent
<1>3. gated.settling = NoRuling /\ gated.blocked = None /\ gated.proposal = None /\ ~Settling
  BY <1>1 DEF NoGated, Settling
<1>4. Unknown(saved) = {} /\ Broken = {} /\ Blockless = {} /\ Torn = {} /\ Ruled = {}
  BY <1>1 DEF Unknown, Broken, Blockless, Torn, Ruled, Snapshots
<1>5. DOMAIN decisions = {}
  BY <1>1
<1>6. \A v : LinesOf(v) = {} /\ Kind(v) = "none" /\ ~Confirmed(v)
  BY <1>5 DEF LinesOf, Kind, Confirmed, LastScreening
<1>7. InstrumentTypeOK
  <2>1. decisions \in Seq(DecisionLine)
    BY <1>1
  <2>2. rulings \in [Versions -> Seq(Ruling)]
    BY DEF InstrumentInit
  <2>. QED BY <1>1, <2>1, <2>2 DEF InstrumentTypeOK, Labels, Outcomes, Units, Content
<1>8. SavedInv /\ UnknownInv
  BY <1>1, <1>2, <1>3, <1>4 DEF SavedInv, UnknownInv
<1>9. LogInv
  BY <1>1, <1>4 DEF LogInv, NoBlock, Declared
<1>10. DecisionsInv
  BY <1>5 DEF DecisionsInv, AskedOnce
<1>11. GatedInv
  BY <1>2, <1>3, <1>6 DEF GatedInv, OpenVersions
<1>12. EndorsedInv
  BY <1>1, <1>2 DEF EndorsedInv, EndorsedIn
<1>13. SettlingInv /\ RulingsInv
  BY <1>1, <1>3, <1>4 DEF SettlingInv, RulingsInv
<1>14. ~InSettlement /\ ~StatusWritten /\ ~LinesWritten /\ ~Pondering /\ ~Proposing /\ ~Resolving /\ ~Delivering
  BY <1>1 DEF InSettlement, StatusWritten, LinesWritten, Swapping, Pondering, Proposing, Resolving, Delivering
<1>15. job.cmd = "none"
  BY <1>1 DEF NoJob
<1>16. MemInv /\ ReconciledInv
  BY <1>1, <1>4, <1>14 DEF MemInv, ReconciledInv, Unread
<1>17. RegisterInv /\ DecideInv /\ FrameInv /\ FinalizedInv
  BY <1>1, <1>3, <1>14, <1>15 DEF RegisterInv, Registering, EvaluateCommands, DecideInv, FinalizeCommands, FrameInv,
                                   FinalizedInv, Unread
<1>. QED BY <1>7, <1>8, <1>9, <1>10, <1>11, <1>12, <1>13, <1>16, <1>17 DEF IInv

\* The state file, the helper's log, the gate's log and the running command agree
\* as IInv says, whatever is killed, repaired, edited, lost or refused.
THEOREM Invariance == Spec => []IInv
<1>1. InstrumentInit => IInv
  BY InitInv
<1>2. IInv /\ [InstrumentNext]_instrumentVars => IInv'
  BY TypeStep, SavedStep, UnknownStep, LogStep, DecisionsStep, GatedStep, EndorsedStep, SettlingStep, RulingsStep,
     MemStep, ReconciledStep, RegisterStep, DecideStep, FrameStep, FinalizedStep DEF IInv
<1>. QED BY <1>1, <1>2, PTL DEF Spec

\* Every variable keeps to its range.
THEOREM Typed == Spec => []InstrumentTypeOK
BY Invariance, PTL DEF IInv

\* The head is the inherited version or one the gate confirmed, at every moment,
\* through restores, the safety walk and resumed settlements; no other reads kept.
THEOREM ConfirmedStand == Spec => []OnlyConfirmedStand
<1>1. IInv => OnlyConfirmedStand
  BY DEF IInv, OnlyConfirmedStand, EndorsedInv, EndorsedIn, LogInv, Initialized
<1>. QED BY <1>1, Invariance, PTL

\* Every ruled version has one ruling, in its own block, which agrees with its
\* status and with the gate's log; an open line is the pending candidate's.
THEOREM RulingsFollowTheGate == Spec => []RulingsAreTheGates
<1>1. ASSUME IInv PROVE RulingsAreTheGates
  <2>1. /\ OpenVersions \subseteq {saved.pending}
        /\ gated.blocked # None => gated.blocked = saved.pending /\ Kind(gated.blocked) # "none"
    BY <1>1 DEF IInv, GatedInv
  <2>2. ASSUME NEW v \in Versions, v \in Ruled
        PROVE  /\ Len(rulings[v]) = 1
               /\ rulings[v][1].of = v
               /\ rulings[v][1].by = "gate" => rulings[v][1].proposed = "kept"
               /\ DOMAIN rulings[v] = {1}
               /\ log[v].status = rulings[v][1].status
               /\ Kind(v) = "none" <=> rulings[v][1].by # "gate"
               /\ Confirmed(v) <=> rulings[v][1].status = "kept"
    <3>1. PICK r \in Ruling : rulings[v] = <<r>> /\ r.of = v /\ r.status = log[v].status /\ Agrees(r)
      BY <1>1, <2>2 DEF IInv, RulingsInv
    <3>2. Len(rulings[v]) = 1 /\ DOMAIN rulings[v] = {1} /\ rulings[v][1] = r
      BY <3>1
    <3>. QED BY <3>1, <3>2 DEF Agrees
  <2>3. ASSUME NEW v \in Versions, v \notin Ruled, NEW i \in DOMAIN rulings[v]
        PROVE  rulings[v][i].of = v /\ (rulings[v][i].by = "gate" => rulings[v][i].proposed = "kept")
    <3>1. rulings[v] # <<>>
      BY <2>3
    <3>2. v = gated.settling.of
      BY <1>1, <2>3, <3>1 DEF IInv, RulingsInv
    <3>3. Settling
      BY <3>2, EmptyType, Constants DEF Settling
    <3>4. rulings[v] = <<gated.settling>> /\ Agrees(gated.settling)
      BY <1>1, <3>1, <3>2, <3>3 DEF IInv, SettlingInv
    <3>5. rulings[v][i] = gated.settling
      BY <2>3, <3>4
    <3>. QED BY <3>2, <3>4, <3>5 DEF Agrees
  <2>. QED BY <2>1, <2>2, <2>3 DEF RulingsAreTheGates
<1>. QED BY <1>1, Invariance, PTL

\* The gate is asked once about a candidate, and once to confirm it: no stop or
\* retry of decide makes it draw a second answer.
THEOREM GateAskedOnce == Spec => []AskedOnce
<1>1. IInv => AskedOnce
  BY DEF IInv, DecisionsInv
<1>. QED BY <1>1, Invariance, PTL

\* A finalize that reports success hands over a rollout with nothing pending, open
\* or half settled, and main/ equal to a head that passes the safety margins.
THEOREM FinalizeHandsOver == Spec => []FinalizedIsDelivered
<1>1. IInv => FinalizedIsDelivered
  BY DEF IInv, FinalizedInv, FinalizedIsDelivered, Passes
<1>. QED BY <1>1, Invariance, PTL

-----------------------------------------------------------------------------
(* Action properties.                                                      *)

\* Which steps touch the intent of a settlement, and what blocks the gate.
LEMMA GatedMoves ==
  ASSUME IInv, [InstrumentNext]_instrumentVars
  PROVE  /\ gated'.settling # gated.settling => ClearSettlement \/ (Decides /\ ~Settling)
         /\ gated'.blocked # gated.blocked => Decides \/ BlockGate
<1>1. CASE GatedWriters
  BY <1>1, GatedForm DEF IInv
<1>2. CASE Decides
  BY <1>2, DecideSaves
<1>3. CASE UNCHANGED gated
  BY <1>3
<1>. QED BY <1>1, <1>2, <1>3, RecordSteps, CommitEffect DEF record

\* A gate blocked by a failed confirmation stays so, whatever command comes, until
\* the line that resolves it is in its log.
THEOREM BlockedStays == Spec => BlockedUntilResolved
<1>. DEFINE Stays == gated.blocked # None /\ gated'.blocked # gated.blocked => Kind(gated.blocked) = "resolved"
<1>1. ASSUME IInv, [InstrumentNext]_instrumentVars PROVE Stays
  <2>. SUFFICES ASSUME gated.blocked # None, gated'.blocked # gated.blocked PROVE Kind(gated.blocked) = "resolved"
    OBVIOUS
  <2>1. gated.blocked = saved.pending /\ Kind(gated.blocked) \in {"provisional_open", "resolved"}
    BY <1>1 DEF IInv, GatedInv
  <2>2. CASE Decides
    BY <1>1, <2>1, <2>2, DecideSaves
  <2>3. CASE BlockGate
    <3>1. gated'.blocked = job.version
      BY <1>1, <2>3, GatedForm DEF GatedWriters, IInv
    <3>2. saved.pending = job.version
      BY <1>1, <2>3 DEF BlockGate, IInv, DecideInv, Pondering, Resolving
    <3>. QED BY <2>1, <3>1, <3>2
  <2>. QED BY <1>1, <2>2, <2>3, GatedMoves
<1>2. IInv /\ [InstrumentNext]_instrumentVars => [Stays]_instrumentVars
  BY <1>1
<1>. HIDE DEF Stays
<1>3. Spec => [][Stays]_instrumentVars
  BY <1>2, Invariance, PTL DEF Spec
<1>. QED BY <1>3 DEF Stays, BlockedUntilResolved

\* The steps that write main/.
LEMMA MainWriters ==
  ASSUME IInv, [InstrumentNext]_instrumentVars
  PROVE  UNCHANGED main \/ EditMain \/ PlaceCandidate \/ PutAside \/ PutInPlace
<1>. USE DEF disk, added
<1>1. CASE Outside
  BY <1>1, StartCases DEF Outside, LoseEvidence
<1>2. CASE SharedStep
  BY <1>2 DEF SharedStep, Load, RepairBlock, RepairStatus, RepairHead, LoadDone, InitFresh, InitResume, InitLog,
              InitSave, NothingNew, SaveIntent, StageSnapshot, CommitSnapshot, AppendBlock, SaveCandidate,
              FinalizePending, Status
<1>3. CASE InitMeasure \/ Measure \/ Score \/ Unscored \/ MarkUnmeasurable \/ MeasureHead
  BY <1>3 DEF InitMeasure, Measure, Score, Unscored, MarkUnmeasurable, MeasureHead
<1>4. CASE StayBlocked \/ OpenConfirmation \/ ProposeKeep \/ SaveProposal \/ GateScreens \/ FinishConfirmation
           \/ Play \/ BlockGate \/ GateConfirms
  BY <1>4 DEF StayBlocked, OpenConfirmation, ProposeKeep, SaveProposal, GateScreens, FinishConfirmation, Play,
              BlockGate, GateConfirms
<1>5. CASE ResumeSettlement \/ SettleStatus \/ SettleLines \/ SettleMain \/ ClearSettlement \/ Restore
           \/ FinalizeSettled \/ Walk \/ Deliver
  BY <1>5 DEF ResumeSettlement, SettleStatus, SettleLines, SettleMain, ClearSettlement, Restore, FinalizeSettled,
              Walk, Deliver
<1>6. CASE Refuse \/ Kill
  BY <1>6 DEF Refuse, Kill, Stop, StopInAppend, StopInRun
<1>7. CASE Decides
  BY <1>7, SettleForm DEF Settle
<1>8. CASE UNCHANGED instrumentVars
  BY <1>8 DEF instrumentVars, vars
<1>. QED BY <1>1, <1>2, <1>3, <1>4, <1>5, <1>6, <1>7, <1>8 DEF InstrumentNext, Step, Decides

\* Where a settlement is about to be cleared, main/ holds the head, unless
\* somebody edits it right there.
MainRestored == pc = "settle_clear" => main = versions[saved.head]

\* Only an edit at that very place could undo it.
LEMMA RestoredStep ==
  ASSUME "settle_clear" \notin EditsAt, IInv, MainRestored, [InstrumentNext]_instrumentVars
  PROVE  MainRestored'
<1>. SUFFICES ASSUME pc' = "settle_clear" PROVE main' = versions'[saved'.head]
  BY DEF MainRestored
<1>. USE DEF Move
<1>1. CASE UNCHANGED <<pc, versions, saved>>
  <2>1. UNCHANGED main
    BY <1>1, MainWriters DEF EditMain, PlaceCandidate, PutAside, PutInPlace
  <2>. QED BY <1>1, <2>1 DEF MainRestored
<1>2. CASE SettleMain /\ pc = "settle_main"
  <2>1. mem = saved /\ saved.head \in Versions /\ Initialized
    BY <1>2, PastLoad DEF IInv, MemInv, Unread, Opening
  <2>2. MainIs(mem.head) /\ UNCHANGED <<main, versions, saved>>
    BY <1>2, EnsureForm DEF SettleMain, disk
  <2>3. Broken = {}
    BY <1>2 DEF IInv, ReconciledInv, InSettlement
  <2>4. saved.digests[saved.head] = versions[saved.head]
    BY <2>1, <2>3 DEF IInv, SavedInv, Initialized, Broken, Unknown, Snapshots
  <2>. QED BY <2>1, <2>2, <2>4 DEF MainIs
<1>3. CASE PutInPlace /\ pc = "swap_in" /\ pc' = frame.swapped
  BY <1>3 DEF PutInPlace, IInv, FrameInv
<1>4. \/ UNCHANGED <<pc, versions, saved>>
      \/ SettleMain /\ pc = "settle_main"
      \/ PutInPlace /\ pc = "swap_in" /\ pc' = frame.swapped
  BY Moves DEF SwapFor, Commands
<1>. QED BY <1>1, <1>2, <1>3, <1>4

\* What a settlement has done by the time its intent is cleared.
LEMMA ClearedFacts ==
  ASSUME IInv, [InstrumentNext]_instrumentVars, Settling, gated'.settling # gated.settling
  PROVE  /\ gated'.settling = NoRuling
         /\ log[gated.settling.of].status = gated.settling.status
         /\ rulings[gated.settling.of] = <<gated.settling>>
         /\ pc = "settle_clear"
<1>1. ClearSettlement
  BY GatedMoves
<1>2. gated'.settling = NoRuling /\ pc = "settle_clear"
  BY <1>1, GatedForm DEF IInv, GatedWriters, ClearSettlement
<1>. QED BY <1>2 DEF IInv, FrameInv, StatusWritten, LinesWritten, InSettlement

\* A settlement that was begun is only ever completed, with its own answer: the
\* intent goes only once the block reads so and has exactly that ruling.
THEOREM SettlementCompletes ==
  Spec => [][Settling /\ gated'.settling # gated.settling =>
               /\ gated'.settling = NoRuling
               /\ log[gated.settling.of].status = gated.settling.status
               /\ rulings[gated.settling.of] = <<gated.settling>>]_instrumentVars
<1>1. IInv /\ [InstrumentNext]_instrumentVars =>
        [Settling /\ gated'.settling # gated.settling =>
           /\ gated'.settling = NoRuling
           /\ log[gated.settling.of].status = gated.settling.status
           /\ rulings[gated.settling.of] = <<gated.settling>>]_instrumentVars
  BY ClearedFacts
<1>. QED BY <1>1, Invariance, PTL DEF Spec

\* And with main/ holding the head, where the agent does not edit main/ in between
\* finish_settlement's last swap and the save that clears the intent.
THEOREM SettlementHolds ==
  ASSUME "settle_clear" \notin EditsAt
  PROVE  Spec => SettlementStands
<1>. DEFINE Stands == Settling /\ gated'.settling # gated.settling =>
                        /\ gated'.settling = NoRuling
                        /\ log[gated.settling.of].status = gated.settling.status
                        /\ rulings[gated.settling.of] = <<gated.settling>>
                        /\ main = versions[saved.head]
<1>1. InstrumentInit => MainRestored
  BY DEF InstrumentInit, RolloutInit, MainRestored
<1>2. IInv /\ MainRestored /\ [InstrumentNext]_instrumentVars => MainRestored'
  BY RestoredStep
<1>3. IInv /\ MainRestored /\ [InstrumentNext]_instrumentVars => [Stands]_instrumentVars
  BY ClearedFacts DEF MainRestored
<1>. HIDE DEF Stands
<1>4. Spec => [][Stands]_instrumentVars
  BY <1>1, <1>2, <1>3, Invariance, PTL DEF Spec
<1>. QED BY <1>4 DEF Stands, SettlementStands

-----------------------------------------------------------------------------
(* Under the gate the helper still implements Ledger.                      *)

\* The ledger is empty before the first command.
LEMMA LedgerInit == InstrumentInit => L!Init
BY Constants DEF InstrumentInit, RolloutInit, L!Init, ledgerUndecided, ledgerEndorsed, Snapshots, Undecided,
                 Initialized, Blank, L!None, None

\* The ledger's one undecided version.
LEMMA SoleUndecided == ASSUME NEW v, Undecided = {v} PROVE ledgerUndecided = v
BY DEF ledgerUndecided

\* A step that leaves the four parts of the ledger alone.
LEMMA LedgerStutter ==
  ASSUME Snapshots' = Snapshots, Undecided' = Undecided, saved'.head = saved.head,
         ledgerEndorsed' = ledgerEndorsed
  PROVE  UNCHANGED L!ledger
<1>1. ledgerUndecided' = ledgerUndecided
  BY DEF ledgerUndecided
<1>. QED BY <1>1 DEF L!ledger

\* What the log shows as baseline or kept.
Reading == {v \in Versions : log[v].status \in {"baseline", "kept"}}

\* Where nothing is half settled the log shows the head as such.
LEMMA HeadShown == ASSUME IInv, Initialized, ~Settling PROVE saved.head \in Reading
<1>1. gated.settling.of = None
  BY EmptyType DEF Settling
<1>2. saved.head # gated.settling.of
  BY <1>1 DEF Initialized
<1>3. saved.head \in Declared /\ log[saved.head].status = HeadStatus(saved.head)
  BY <1>2, HeadReadsKept
<1>. QED BY <1>3 DEF Reading, Declared, HeadStatus

\* A status that is written shows no version the ledger does not endorse, and
\* hides none it does.
LEMMA ShownStays ==
  ASSUME IInv, StatusWriters, UNCHANGED <<versions, saved>>
  PROVE  ledgerEndorsed' = ledgerEndorsed
<1>1. CASE ~Initialized
  BY <1>1 DEF ledgerEndorsed, Initialized
<1>2. CASE Initialized
  <2>1. PICK v \in Snapshots, st \in Statuses :
           /\ \A w \in Versions : log'[w].status = IF w = v THEN st ELSE log[w].status
           /\ \/ v \in Unknown(saved) /\ st \in {"torn", "reverted"}
              \/ Settling /\ v = gated.settling.of /\ st = gated.settling.status
    BY <1>2, StatusForm
  <2>2. v \in Versions /\ Reading' = IF st \in {"baseline", "kept"} THEN Reading \cup {v} ELSE Reading \ {v}
    BY <2>1 DEF Reading, Snapshots
  <2>3. \A w \in Reading : w = First \/ Confirmed(w)
    BY DEF IInv, LogInv, Reading
  <2>4. CASE v \in Unknown(saved) /\ st \in {"torn", "reverted"}
    <3>1. saved.digests[v] = Missing /\ v # First
      BY <1>2, <2>4 DEF Unknown, IInv, SavedInv, Initialized
    <3>2. v \notin Reading
      BY <2>3, <3>1, UnknownUndecided DEF IInv
    <3>. QED BY <2>2, <2>4, <3>2 DEF ledgerEndorsed, Initialized, Reading
  <2>5. CASE Settling /\ v = gated.settling.of /\ st = gated.settling.status
    <3>1. /\ v # First /\ (st = "kept" => saved.head = v) /\ (st = "kept" <=> Confirmed(v))
          /\ st \in {"kept", "reverted"}
      BY <2>5, SettlingFacts DEF IInv, SettlingInv, Agrees
    <3>2. st = "reverted" => v \notin Reading
      BY <2>3, <3>1
    <3>3. Reading' \cup {saved.head} = Reading \cup {saved.head}
      BY <2>2, <3>1, <3>2
    <3>. QED BY <3>3 DEF ledgerEndorsed, Initialized, Reading
  <2>. QED BY <2>1, <2>4, <2>5
<1>. QED BY <1>1, <1>2

\* Every step of the helper is a step of the ledger or leaves it alone.
LEMMA LedgerStep == ASSUME IInv, [InstrumentNext]_instrumentVars PROVE [L!Next]_(L!ledger)
<1>. InstrumentTypeOK /\ SavedInv /\ UnknownInv /\ LogInv
  BY DEF IInv
<1>. USE Constants, StateType DEF InstrumentTypeOK, L!Next, L!None
<1>1. ASSUME UNCHANGED <<versions, saved>>, Initialized => \A v \in Versions : log'[v].status = log[v].status
      PROVE  UNCHANGED L!ledger
  BY <1>1, LedgerStutter DEF ledgerEndorsed, Undecided, Unknown, Snapshots, Initialized
<1>2. ASSUME UNCHANGED <<versions, log>>, Undecided' = Undecided, saved'.head = saved.head
      PROVE  UNCHANGED L!ledger
  BY <1>2, LedgerStutter DEF ledgerEndorsed, Snapshots, Initialized
<1>3. CASE LoadDone /\ UNCHANGED <<versions, log>>
  <2>1. /\ Initialized /\ saved'.head = saved.head /\ saved'.pending \in AdoptedPending(saved)
        /\ Unknown(saved)' = {}
    BY <1>3, LoadSaves, UnknownMoves
  <2>2. Undecided' = Undecided
    <3>1. CASE Unknown(saved) = {}
      BY <2>1, <3>1 DEF AdoptedPending, Undecided, Initialized
    <3>2. CASE Unknown(saved) # {}
      <4>1. PICK u \in Versions : Unknown(saved) = {u}
        <5>1. PICK u \in Versions : u \in Unknown(saved)
          BY <3>2 DEF Unknown, Snapshots
        <5>2. \A w \in Unknown(saved) : w = u
          BY <5>1 DEF UnknownInv
        <5>3. Unknown(saved) = {u}
          <6>. HIDE DEF InstrumentTypeOK
          <6>. QED BY <5>1, <5>2
        <5>. QED BY <5>3
      <4>2. u # saved.head /\ saved.pending = None
        BY <2>1, <4>1 DEF UnknownInv, SavedInv, Initialized, Unknown
      <4>3. saved'.pending = u
        BY <2>1, <4>1, <4>2 DEF AdoptedPending
      <4>. QED BY <2>1, <4>1, <4>2, <4>3 DEF Undecided, Initialized
    <3>. QED BY <3>1, <3>2
  <2>. QED BY <1>2, <1>3, <2>1, <2>2
<1>4. CASE InitSave /\ UNCHANGED <<versions, log>>
  <2>1. /\ ~Initialized /\ saved'.head = First /\ saved'.pending = None /\ Unknown(saved)' = {}
        /\ Snapshots = {First} /\ log[First].status = "baseline"
    BY <1>4, InitSaves, UnknownMoves
  <2>2. Undecided = {} /\ Undecided' = {}
    BY <2>1 DEF Undecided, Initialized
  <2>3. ledgerUndecided' = ledgerUndecided
    BY <2>2 DEF ledgerUndecided
  <2>4. \A v \in Versions \ {First} : log[v].status \notin {"baseline", "kept"}
    BY <2>1 DEF LogInv, Declared
  <2>5. ledgerEndorsed' = {First}
    BY <1>4, <2>1, <2>4 DEF ledgerEndorsed, Initialized
  <2>6. L!Open
    BY <1>4, <2>1, <2>3, <2>5 DEF L!Open, First, None, Initialized, Snapshots
  <2>. QED BY <2>6
<1>5. CASE SaveIntent /\ UNCHANGED <<versions, log>>
  BY <1>2, <1>5, IntentSaves DEF Undecided, Unknown, Snapshots, Initialized
<1>6. CASE SaveCandidate /\ UNCHANGED <<versions, log>>
  <2>1. /\ Initialized /\ Unknown(saved) = {job.version} /\ saved.pending = None /\ job.version \in Versions
        /\ saved'.head = saved.head /\ saved'.pending = job.version /\ Unknown(saved)' = {}
    BY <1>6, CandidateSaves, UnknownMoves
  <2>2. Undecided' = Undecided
    BY <2>1 DEF Undecided, Initialized
  <2>. QED BY <1>2, <1>6, <2>1, <2>2
<1>7. CASE (Restore \/ Walk) /\ UNCHANGED <<versions, log>>
  <2>1. PICK v \in Versions :
           /\ saved'.head = v /\ saved.digests[v] # Missing
           /\ Initialized /\ saved.pending = None /\ saved'.pending = None /\ ~Settling
           /\ Unknown(saved) = {} /\ saved'.digests = saved.digests
    BY <1>7, HeadMoves
  <2>2. ledgerUndecided = None /\ ledgerUndecided' = None
    BY <1>7, <2>1 DEF ledgerUndecided, Undecided, Unknown, Snapshots
  <2>3. saved.head \in Reading /\ Reading' = Reading
    BY <1>7, <2>1, HeadShown DEF Reading
  <2>4. ledgerEndorsed' = ledgerEndorsed \cup {v}
    BY <2>1, <2>3 DEF ledgerEndorsed, Initialized, Reading
  <2>5. v \in Snapshots /\ Snapshots' = Snapshots
    BY <1>7, <2>1 DEF SavedInv, Snapshots
  <2>6. L!Restore(v)
    BY <2>1, <2>2, <2>4, <2>5 DEF L!Restore, None, Initialized
  <2>. QED BY <2>1, <2>6
<1>8. CASE Decides /\ UNCHANGED <<versions, log>>
  <2>1. PICK v \in Versions :
           /\ saved.pending = v /\ saved'.pending = None
           /\ Initialized /\ ~Settling /\ Unknown(saved) = {} /\ saved'.digests = saved.digests
           /\ saved'.head = IF Confirmed(v) THEN v ELSE saved.head
    BY <1>8, DecideSaves
  <2>2. ledgerUndecided = v /\ ledgerUndecided' = None
    <3>1. Undecided = {v}
      BY <2>1 DEF Undecided
    <3>2. Undecided' = {}
      BY <1>8, <2>1 DEF Undecided, Unknown, Snapshots
    <3>. QED BY <3>1, <3>2, SoleUndecided DEF ledgerUndecided
  <2>3. saved.head \in Reading /\ Reading' = Reading
    BY <1>8, <2>1, HeadShown DEF Reading
  <2>4. Snapshots' = Snapshots /\ saved'.head # None
    BY <1>8, <2>1 DEF Snapshots, Initialized
  <2>5. CASE Confirmed(v)
    <3>1. ledgerEndorsed' = ledgerEndorsed \cup {v}
      BY <2>1, <2>3, <2>5 DEF ledgerEndorsed, Initialized, Reading
    <3>. QED BY <2>1, <2>2, <2>4, <2>5, <3>1 DEF L!Keep, None
  <2>6. CASE ~Confirmed(v)
    <3>1. ledgerEndorsed' = ledgerEndorsed
      BY <2>1, <2>3, <2>6 DEF ledgerEndorsed, Initialized, Reading
    <3>. QED BY <2>1, <2>2, <2>4, <2>6, <3>1 DEF L!Revert, None
  <2>. QED BY <2>5, <2>6
<1>9. CASE CommitSnapshot /\ UNCHANGED <<log, saved>>
  <2>1. PICK v \in Versions :
           /\ v = job.version /\ versions[v] = Missing
           /\ Snapshots' = Snapshots \cup {v} /\ Unknown(saved)' = Unknown(saved) \cup {v}
           /\ \A u \in Snapshots : u < v
           /\ Unknown(saved) = {} \/ ~Initialized
           /\ saved.pending = None
           /\ ~Initialized => v = First
    BY <1>9, CommitEffect
  <2>2. ledgerEndorsed' = ledgerEndorsed /\ v \notin Snapshots
    BY <1>9, <2>1 DEF ledgerEndorsed, Initialized, Snapshots
  <2>3. CASE Initialized
    <3>1. Undecided = {} /\ Undecided' = {v}
      BY <1>9, <2>1, <2>3 DEF Undecided, Initialized
    <3>2. ledgerUndecided = None /\ ledgerUndecided' = v
      BY <3>1 DEF ledgerUndecided
    <3>3. L!Register(v)
      BY <1>9, <2>1, <2>2, <2>3, <3>2 DEF L!Register, None, Initialized
    <3>. QED BY <2>1, <3>3
  <2>4. CASE ~Initialized
    <3>1. ledgerUndecided' = ledgerUndecided
      BY <1>9, <2>4 DEF ledgerUndecided, Undecided, Initialized
    <3>2. Snapshots = {} /\ v = 0
      BY <2>1, <2>2, <2>4 DEF UnknownInv, First
    <3>3. L!Inherit
      BY <1>9, <2>1, <2>2, <3>1, <3>2 DEF L!Inherit
    <3>. QED BY <3>3
  <2>. QED BY <2>3, <2>4
<1>10. CASE StatusWriters /\ UNCHANGED <<versions, saved>>
  <2>1. ledgerEndorsed' = ledgerEndorsed
    BY <1>10, ShownStays
  <2>. QED BY <1>10, <2>1, LedgerStutter DEF Undecided, Unknown, Snapshots, Initialized
<1>11. CASE (Score \/ Unscored) /\ UNCHANGED <<versions, saved>>
  <2>1. \A v \in Versions : log'[v].status = log[v].status
    BY <1>11, AppendLineKeeps DEF Score, Unscored
  <2>. QED BY <1>1, <1>11, <2>1
<1>. QED BY <1>1, <1>3, <1>4, <1>5, <1>6, <1>7, <1>8, <1>9, <1>10, <1>11, RecordSteps DEF record

\* With the gate making its decisions, crashes and all, the helper is the
\* atomic ledger.
THEOREM Refinement == Spec => ImplementsLedger
<1>1. InstrumentInit => L!Init
  BY LedgerInit
<1>2. IInv /\ [InstrumentNext]_instrumentVars => [L!Next]_(L!ledger)
  BY LedgerStep
<1>. QED BY <1>1, <1>2, Invariance, PTL DEF Spec, ImplementsLedger, L!Spec
=============================================================================
