----------------------------- MODULE Instrument -----------------------------
(***************************************************************************)
(* The rollout helper under the gate: src/runbook/provenance.py with the   *)
(* gate and the task profile mounted.  Rollout has the disk, load_state,   *)
(* init, evaluate and what the commands share; here are the measurement by *)
(* the gate's runner, decide_with_gate, finish_confirmation, settle and    *)
(* finish_settlement, restore, and finalize with its safety walk.          *)
(*                                                                         *)
(* The gate and the runner are processes of their own with modules of      *)
(* their own.  Here a call of the gate appends its line in one step (Gate  *)
(* is shown to implement an atomic register), and a run publishes a whole  *)
(* unit of evidence or leaves less (Runner is shown to implement           *)
(* Evidence).  Every field the instrument adds to state.json is saved with *)
(* the next write, so the one in memory and the one on disk never differ.  *)
(***************************************************************************)
EXTENDS Rollout, Sequences, FiniteSets

CONSTANTS
  RunnerMayFail,      \* can a run of the runner fail, or be killed half-way?
  GateMayRefuse,      \* can the gate refuse a call its log would allow?
  TimeMayRunOut,      \* can a confirmation be too long for the window?
  EvidenceMayBeLost,  \* can a published result be damaged between commands?
  KillsAt             \* bound: where in a command it may be killed

ASSUME InstrumentAssumption ==
  /\ KillsAt \subseteq STRING
  /\ {RunnerMayFail, GateMayRefuse, TimeMayRunOut, EvidenceMayBeLost} \subseteq BOOLEAN

VARIABLES
  gated,              \* what the instrument adds to state.json
  decisions,          \* methods/decisions.jsonl, the gate's log
  visible,            \* results/v<N>/: result, receipt and safety report
  fresh,              \* results/v<N>/replication/: the roles whose unit is whole
  rulings,            \* the "- gate:" lines of each block of the log
  frame               \* locals: what replace_main and settle return to

added == <<gated, decisions, visible, fresh, rulings>>
instrumentVars == <<vars, added, frame>>

Roles == {"parent", "candidate"}
\* A whole unit (result, receipt, safety report) whose report is within the
\* margins is "safe"; less than a whole unit is "none", and is discarded before
\* the next run (discard_orphans).
Whole == {"safe", "unsafe"}
Units == {"none"} \cup Whole

\* by: who ruled; proposed: the agent's proposal as the block records it.
Ruling == [of : Versions, status : {"kept", "reverted"},
           by : {"gate", "agent", "helper"}, proposed : {"kept", "reverted"}]
NoRuling == [of |-> None]

\* proposal names the version whose saved proposal is to keep it.
Gated == [unmeasurable : SUBSET Versions, confirming : VersionOrNone, blocked : VersionOrNone,
          settling : Ruling \cup {NoRuling}, proposal : VersionOrNone]
NoGated == [unmeasurable |-> {}, confirming |-> None, blocked |-> None,
            settling |-> NoRuling, proposal |-> None]

DecisionLine == [version : Versions, parent : Versions, replicates : BOOLEAN,
                 disposition : {"keep", "revert", "provisional"}]

Frame == [target : VersionOrNone,
          swapped : {"none", "settle_clear", "play", "refused", "finalized", "ok"},
          settled : {"none", "decided", "repair"}]
NoFrame == [target |-> None, swapped |-> "none", settled |-> "none"]

InstrumentInit ==
  /\ RolloutInit
  /\ gated = NoGated
  /\ decisions = <<>>
  /\ visible = [v \in Versions |-> "none"]
  /\ fresh = [v \in Versions |-> {}]
  /\ rulings = [v \in Versions |-> <<>>]
  /\ frame = NoFrame

Settling == gated.settling # NoRuling
HasEvidence(v) == visible[v] \in Whole
\* safety_failure finds nothing.
Safe(v) == visible[v] = "safe"

-----------------------------------------------------------------------------
(* What the gate's log says (gate_state).                                  *)

LinesOf(v) == {i \in DOMAIN decisions : decisions[i].version = v}
LastScreening(v) ==
  {i \in LinesOf(v) : /\ ~decisions[i].replicates
                      /\ \A j \in LinesOf(v) : j > i => decisions[j].replicates}

Kind(v) ==
  LET later == {j \in LinesOf(v) : \E i \in LastScreening(v) : j > i}
  IN  CASE LastScreening(v) = {} -> "none"
        [] later # {} -> "resolved"
        [] OTHER -> IF \E i \in LastScreening(v) : decisions[i].disposition = "provisional"
                    THEN "provisional_open" ELSE "screening_revert"

Confirmed(v) ==
  /\ Kind(v) = "resolved"
  /\ \A i \in LinesOf(v) : (\A j \in LinesOf(v) : j <= i) => decisions[i].disposition = "keep"

OpenVersions == {v \in Versions : Kind(v) = "provisional_open"}

-----------------------------------------------------------------------------
(* replace_main, for any version, and what it returns to.                  *)

Finish(result) == End(result) /\ frame' = NoFrame

Return(label) ==
  IF label \in {"ok", "refused", "finalized"} THEN Finish(label)
  ELSE Goto(label) /\ frame' = [frame EXCEPT !.target = None, !.swapped = "none"]
                   /\ UNCHANGED <<job, mem>>

Call(target, label) ==
  /\ Goto("swap")
  /\ frame' = [frame EXCEPT !.target = target, !.swapped = label]
  /\ UNCHANGED <<job, mem>>

MainIs(v) == main = mem.digests[v] /\ main # Missing

\* The version is put into main/ unless main/ holds it.
Ensure(v, label) == IF MainIs(v) THEN Return(label) ELSE Call(v, label)

PutAside ==
  /\ pc = "swap"
  /\ versions[frame.target] # Missing
  /\ main' = Missing
  /\ Goto("swap_in")
  /\ UNCHANGED <<versions, log, evidence, saved, job, mem, added, frame>>

PutInPlace ==
  /\ pc = "swap_in"
  /\ main = Missing
  /\ main' = versions[frame.target]
  /\ Return(frame.swapped)
  /\ UNCHANGED <<versions, log, evidence, saved, added>>

-----------------------------------------------------------------------------
(* measure, measure_if_needed and ensure_parent_measured: the runner plays *)
(* the snapshot, not main/.                                                *)

NeedsMeasure(v) == ~HasEvidence(v) /\ IsNewestBlock(v) /\ v \notin gated.unmeasurable

\* How a run may end: with a whole unit, or failed or killed with less.
\* The incomplete unit a stop left is discarded before.
Failed == IF RunnerMayFail THEN {"none"} ELSE {}

InitMeasure ==
  /\ \/ pc = "init_measure"
     \/ pc = "init" /\ Initialized
  /\ IF NeedsMeasure(First)
     THEN /\ job' = [job EXCEPT !.version = First]
          /\ Goto("measure")
          /\ UNCHANGED <<mem, frame>>
     ELSE Finish("ok")
  /\ UNCHANGED <<disk, added>>

Measure ==
  /\ pc = "measure"
  /\ \E unit \in Whole \cup Failed :
       /\ visible' = [visible EXCEPT ![job.version] = unit]
       /\ Goto(IF unit \in Whole THEN "score" ELSE "unscored")
  /\ UNCHANGED <<disk, job, mem, gated, decisions, fresh, rulings, frame>>

Score ==
  /\ pc = "score"
  /\ AppendLine("score", job.version)
  /\ IF job.cmd \in {"init", "evaluate", "evaluate_from"} THEN Finish("ok")
     ELSE Goto("screen") /\ UNCHANGED <<job, mem, frame>>
  /\ UNCHANGED <<main, versions, evidence, saved, added>>

Unscored ==
  /\ pc = "unscored"
  /\ AppendLine("unmeasured", job.version)
  /\ Goto("mark")
  /\ UNCHANGED <<main, versions, evidence, saved, job, mem, added, frame>>

\* Unmeasurable from now on; init and decide refuse, evaluate is done.
MarkUnmeasurable ==
  /\ pc = "mark"
  /\ gated' = [gated EXCEPT !.unmeasurable = @ \cup {job.version}]
  /\ saved' = mem
  /\ Finish(IF job.cmd \in {"evaluate", "evaluate_from"} THEN "ok" ELSE "refused")
  /\ UNCHANGED <<main, versions, log, evidence, decisions, visible, fresh, rulings>>

-----------------------------------------------------------------------------
(* settle and finish_settlement.                                           *)

\* Mutant: the save leaves the version pending.
Settle_StillPending(status, by, proposed) ==
  /\ mem' = [mem EXCEPT !.head = IF status = "kept" THEN job.version ELSE @]
  /\ saved' = mem'
  /\ gated' = [NoGated EXCEPT
       !.unmeasurable = gated.unmeasurable,
       !.settling = [of |-> job.version, status |-> status, by |-> by, proposed |-> proposed]]
  /\ frame' = [frame EXCEPT !.settled = "decided"]
  /\ Goto("settle_status")
  /\ UNCHANGED <<main, versions, log, evidence, job, decisions, visible, fresh, rulings>>

\* The save that decides: pending and all that belonged to it is cleared, a
\* kept version is the head, and the intent says what remains to be done.
Settle(status, by, proposed) ==
  /\ mem' = [mem EXCEPT !.pending = None,
                        !.head = IF status = "kept" THEN job.version ELSE @]
  /\ saved' = mem'
  /\ gated' = [NoGated EXCEPT
       !.unmeasurable = gated.unmeasurable,
       !.settling = [of |-> job.version, status |-> status, by |-> by, proposed |-> proposed]]
  /\ frame' = [frame EXCEPT !.settled = "decided"]
  /\ Goto("settle_status")
  /\ UNCHANGED <<main, versions, log, evidence, job, decisions, visible, fresh, rulings>>

SettleStatus ==
  /\ pc = "settle_status"
  /\ gated.settling.of \in Declared
  /\ SetStatus(gated.settling.of, gated.settling.status)
  /\ Goto("settle_lines")
  /\ UNCHANGED <<main, versions, evidence, saved, job, mem, added, frame>>

\* Mutant: the lines are appended whatever the block holds.
SettleLines_Again ==
  /\ pc = "settle_lines"
  /\ \E b \in Versions :
       IsNewestBlock(b) /\ rulings' = [rulings EXCEPT ![b] = Append(@, gated.settling)]
  /\ Goto("settle_main")
  /\ UNCHANGED <<disk, job, mem, gated, decisions, visible, fresh, frame>>

\* The lines go to the end of the log, unless the block has them.
SettleLines ==
  /\ pc = "settle_lines"
  /\ IF rulings[gated.settling.of] # <<>> THEN UNCHANGED rulings
     ELSE \E b \in Versions :
            IsNewestBlock(b) /\ rulings' = [rulings EXCEPT ![b] = Append(@, gated.settling)]
  /\ Goto("settle_main")
  /\ UNCHANGED <<disk, job, mem, gated, decisions, visible, fresh, frame>>

\* Mutant: main/ is left to the next command.
SettleMain_Later ==
  /\ pc = "settle_main"
  /\ Goto("settle_clear")
  /\ UNCHANGED <<disk, job, mem, added, frame>>

SettleMain ==
  /\ pc = "settle_main"
  /\ Ensure(mem.head, "settle_clear")
  /\ UNCHANGED <<disk, added>>

ClearSettlement ==
  /\ pc = "settle_clear"
  /\ gated' = [gated EXCEPT !.settling = NoRuling]
  /\ saved' = mem
  /\ IF frame.settled = "repair"
     THEN Goto("repair") /\ frame' = NoFrame /\ UNCHANGED <<job, mem>>
     ELSE IF job.cmd \in {"finalize", "finalize_keep"}
     THEN Goto("walk") /\ frame' = NoFrame /\ UNCHANGED <<job, mem>>
     ELSE Finish("ok")
  /\ UNCHANGED <<main, versions, log, evidence, decisions, visible, fresh, rulings>>

\* load_state finds an intent: a stop inside a settlement is completed before
\* anything else the command does, the repair of the head's status included.
ResumeSettlement ==
  /\ pc = "repair"
  /\ Broken \cup Blockless \cup Torn = {}
  /\ Settling
  /\ frame' = [frame EXCEPT !.settled = "repair"]
  /\ Goto("settle_status")
  /\ UNCHANGED <<disk, job, mem, added>>

-----------------------------------------------------------------------------
(* decide_with_gate.                                                       *)

FinalizeCommand == job.cmd \in {"finalize", "finalize_keep"}
Deciding == pc = "decide" /\ mem.pending = job.version

\* finalize does not retry a blocked confirmation: the head goes back.
StayBlocked ==
  /\ Deciding
  /\ FinalizeCommand
  /\ gated.blocked # None
  /\ Ensure(mem.head, "refused")
  /\ UNCHANGED <<disk, added>>

Consult == Deciding /\ ~(FinalizeCommand /\ gated.blocked # None)

\* What the gate was asked, not what came after a stop.
Proposed(v) == IF gated.proposal = v THEN "kept" ELSE job.status

\* Mutant: the gate's word is written where the log has its own.
ApplyConfirmation_Raw ==
  /\ Consult \/ pc = "confirm"
  /\ Kind(job.version) = "resolved"
  /\ Settle(IF Confirmed(job.version) THEN "keep" ELSE "revert", "gate", Proposed(job.version))

ApplyConfirmation ==
  /\ Consult \/ pc = "confirm"
  /\ Kind(job.version) = "resolved"
  /\ Settle(IF Confirmed(job.version) THEN "kept" ELSE "reverted", "gate", Proposed(job.version))

ApplyScreening ==
  /\ Consult \/ pc = "screened"
  /\ Kind(job.version) = "screening_revert"
  /\ Settle("reverted", "gate", Proposed(job.version))

OpenConfirmation ==
  /\ Consult \/ pc = "screened"
  /\ Kind(job.version) = "provisional_open"
  /\ gated' = [gated EXCEPT !.confirming = job.version]
  /\ saved' = mem
  /\ Goto("confirm")
  /\ UNCHANGED <<main, versions, log, evidence, job, mem, decisions, visible, fresh, rulings, frame>>

\* Mutant: the agent's revert is taken before the gate's log is read.
AgentReverts_First ==
  /\ Consult
  /\ job.status = "reverted"
  /\ Settle("reverted", "agent", "reverted")

AgentReverts ==
  /\ Consult
  /\ Kind(job.version) = "none"
  /\ job.status = "reverted"
  /\ Settle("reverted", "agent", "reverted")

MayPropose == gated.blocked = None /\ job.version \notin gated.unmeasurable

\* Mutant: the gate's log is not consulted.
ProposeKeep_Unconsulted ==
  /\ Consult
  /\ job.status = "kept"
  /\ MayPropose
  /\ Goto(IF NeedsMeasure(job.version) THEN "measure" ELSE "screen")
  /\ UNCHANGED <<disk, job, mem, added, frame>>

ProposeKeep ==
  /\ Consult
  /\ Kind(job.version) = "none"
  /\ job.status = "kept"
  /\ MayPropose
  /\ Goto(IF NeedsMeasure(job.version) THEN "measure" ELSE "screen")
  /\ UNCHANGED <<disk, job, mem, added, frame>>

ProposeRefused ==
  /\ Consult
  /\ Kind(job.version) = "none"
  /\ job.status = "kept"
  /\ ~MayPropose

\* The gate rules only on what it measured.
EditedRefused == pc = "screen" /\ ~MainIs(job.version)

\* The head's measurement was lost or never made; no score line is appended.
MeasureHead ==
  /\ pc = "screen"
  /\ MainIs(job.version)
  /\ ~HasEvidence(mem.head)
  /\ \E unit \in Whole \cup Failed :
       /\ visible' = [visible EXCEPT ![mem.head] = unit]
       /\ IF unit \in Whole THEN UNCHANGED <<pc, job, mem, outcome, frame>> ELSE Finish("refused")
  /\ UNCHANGED <<disk, gated, decisions, fresh, rulings>>

Screenable == pc = "screen" /\ MainIs(job.version) /\ HasEvidence(mem.head)

\* The safety report is missing or beyond a margin; or there is no time.
RefuseKeep ==
  /\ Screenable
  /\ ~Safe(job.version) \/ TimeMayRunOut
  /\ Settle("reverted", "helper", "kept")

SaveProposal ==
  /\ Screenable
  /\ Safe(job.version)
  /\ gated' = [gated EXCEPT !.proposal = job.version]
  /\ saved' = mem
  /\ Goto("gate")
  /\ UNCHANGED <<main, versions, log, evidence, job, mem, decisions, visible, fresh, rulings, frame>>

\* The gate's own conditions: both results are there, main/ holds the
\* candidate, and at most one decision is ever open.
Evidenced == {job.version, mem.head} \subseteq {v \in Versions : HasEvidence(v)} /\ MainIs(job.version)
TakesScreening == Evidenced /\ mem.head \notin OpenVersions

GateAppends(replicates, disposition) ==
  decisions' = Append(decisions, [version |-> job.version, parent |-> mem.head,
                                  replicates |-> replicates, disposition |-> disposition])

GateScreens ==
  /\ pc = "gate"
  /\ TakesScreening
  /\ \E disposition \in {"revert"} \cup (IF OpenVersions = {} THEN {"provisional"} ELSE {}) :
       GateAppends(FALSE, disposition)
  /\ Goto("screened")
  /\ UNCHANGED <<disk, job, mem, gated, visible, fresh, rulings, frame>>

-----------------------------------------------------------------------------
(* finish_confirmation.                                                    *)

\* An edit made to main/ meanwhile is put aside.
FinishConfirmation ==
  /\ pc = "confirm"
  /\ Kind(job.version) = "provisional_open"
  /\ Ensure(job.version, "play")
  /\ UNCHANGED <<disk, added>>

Played(v) == fresh[v] = Roles

\* Each run not yet made is started and publishes a whole unit or fails; a
\* complete one is kept.
Play ==
  /\ pc = "play"
  /\ \E roles \in SUBSET Roles :
       /\ fresh[job.version] \subseteq roles
       /\ roles = Roles \/ RunnerMayFail
       /\ fresh' = [fresh EXCEPT ![job.version] = roles]
       /\ Goto(IF roles = Roles THEN "gate_confirm" ELSE "play_failed")
  /\ UNCHANGED <<disk, job, mem, gated, decisions, visible, rulings, frame>>

\* Nothing is settled that the gate did not decide.
BlockGate ==
  /\ pc = "play_failed"
  /\ gated' = [gated EXCEPT !.blocked = job.version, !.confirming = job.version]
  /\ saved' = mem
  /\ Ensure(mem.head, "refused")
  /\ UNCHANGED <<main, versions, log, evidence, decisions, visible, fresh, rulings>>

TakesConfirmation ==
  /\ Evidenced
  /\ Played(job.version)
  /\ \E i \in LastScreening(job.version) : decisions[i].parent = mem.head

GateConfirms ==
  /\ pc = "gate_confirm"
  /\ TakesConfirmation
  /\ \E disposition \in {"keep", "revert"} : GateAppends(TRUE, disposition)
  /\ Goto("confirm")
  /\ UNCHANGED <<disk, job, mem, gated, visible, fresh, rulings, frame>>

GateRefused ==
  \/ pc = "gate" /\ (GateMayRefuse \/ ~TakesScreening)
  \/ pc = "gate_confirm" /\ (GateMayRefuse \/ ~TakesConfirmation)

-----------------------------------------------------------------------------
(* restore and finalize.                                                   *)

\* Mutant: a version that was screened will do.
Endorsed_Screened(v) == v = First \/ Kind(v) # "none"
\* Only the inherited version, or one the gate kept, can be the head.
Endorsed(v) == v = First \/ Confirmed(v)

\* Mutant: a pending candidate does not stop a restore.
Restore_WhilePending ==
  /\ pc = "restore"
  /\ job.version \in Snapshots
  /\ Endorsed(job.version)
  /\ mem' = [mem EXCEPT !.head = job.version]
  /\ saved' = mem'
  /\ Goto("swap")
  /\ frame' = [frame EXCEPT !.target = job.version, !.swapped = "ok"]
  /\ UNCHANGED <<main, versions, log, evidence, job, added>>

Restore ==
  /\ pc = "restore"
  /\ mem.pending = None
  /\ job.version \in Snapshots
  /\ Endorsed(job.version)
  /\ mem' = [mem EXCEPT !.head = job.version]
  /\ saved' = mem'
  /\ Goto("swap")
  /\ frame' = [frame EXCEPT !.target = job.version, !.swapped = "ok"]
  /\ UNCHANGED <<main, versions, log, evidence, job, added>>

RestoreUnconfirmed == pc = "restore" /\ ~Endorsed(job.version)

FinalizeSettled ==
  /\ Finalizing
  /\ mem.pending = None
  /\ job.cmd = "finalize_keep" => job.version = mem.head
  /\ Goto("walk")
  /\ UNCHANGED <<disk, job, mem, added, frame>>

\* The walk looks at the head, then at the recorded ancestors of what does not
\* pass; without a recorded parent it goes on at the first version.
Passes(v) == v = First \/ Safe(v)
Ancestor(v) == IF mem.parents[v] = None THEN First ELSE mem.parents[v]
Visited ==
  {v \in Versions : \A S \in SUBSET Versions :
     mem.head \in S /\ (\A w \in S : Passes(w) \/ Ancestor(w) \in S) => v \in S}

\* Mutant: the head stays, whatever its safety report says.
Walk_Not == pc = "walk" /\ Goto("deliver") /\ UNCHANGED <<disk, job, mem, added, frame>>

Walk ==
  /\ pc = "walk"
  /\ \E v \in Visited : Passes(v) /\ mem' = [mem EXCEPT !.head = v]
  /\ saved' = mem'
  /\ Goto("deliver")
  /\ UNCHANGED <<main, versions, log, evidence, job, added, frame>>

Deliver ==
  /\ pc = "deliver"
  /\ Ensure(mem.head, "finalized")
  /\ UNCHANGED <<disk, added>>

-----------------------------------------------------------------------------
(* The world outside, and the specification.                               *)

\* A stop during a run leaves what the runs had published.
StopInRun ==
  /\ \/ /\ pc = "measure" \/ (pc = "screen" /\ MainIs(job.version))
        /\ \E unit \in Whole :
             visible' = LET v == IF pc = "measure" THEN job.version ELSE mem.head
                        IN  [visible EXCEPT ![v] = IF HasEvidence(v) THEN @ ELSE unit]
        /\ UNCHANGED fresh
     \/ /\ pc = "play"
        /\ \E roles \in SUBSET Roles :
             fresh' = [fresh EXCEPT ![job.version] = @ \cup roles]
        /\ UNCHANGED visible
  /\ Finish("stopped")
  /\ UNCHANGED <<disk, gated, decisions, rulings>>

\* A published unit is damaged: a file of it goes, or its report fails.
LoseEvidence ==
  /\ EvidenceMayBeLost
  /\ pc = "idle"
  /\ \E v \in Versions, unit \in {"none", "unsafe"} :
       visible[v] = "safe" /\ visible' = [visible EXCEPT ![v] = unit]
  /\ outcome' = "none"
  /\ UNCHANGED <<disk, pc, job, mem, gated, decisions, fresh, rulings, frame>>

\* The steps Rollout has, which touch nothing of the instrument.
SharedStep ==
  /\ \/ Load \/ RepairBlock \/ RepairStatus
     \/ ~Settling /\ (RepairHead \/ LoadDone)
     \/ InitFresh \/ InitResume \/ InitLog \/ InitSave
     \/ PlaceCandidate \/ NothingNew \/ SaveIntent
     \/ StageSnapshot \/ CommitSnapshot \/ AppendBlock \/ SaveCandidate
     \/ FinalizePending \/ Status
  /\ UNCHANGED <<added, frame>>

Refuse ==
  /\ \/ LoadRefused \/ EvaluateRefused \/ CommitRefused \/ InitRefused
     \/ DecideRefused \/ ProposeRefused \/ EditedRefused \/ GateRefused
     \/ RestoreRefused \/ RestoreUnconfirmed \/ FinalizeRefused
  /\ Finish("refused")
  /\ UNCHANGED <<disk, added>>

\* The steps of the instrument's own.
Step ==
  \/ SharedStep
  \/ InitMeasure \/ Measure \/ Score \/ Unscored \/ MarkUnmeasurable
  \/ StayBlocked \/ ApplyConfirmation \/ ApplyScreening \/ OpenConfirmation
  \/ AgentReverts \/ ProposeKeep \/ MeasureHead \/ RefuseKeep \/ SaveProposal
  \/ GateScreens \/ FinishConfirmation \/ Play \/ BlockGate \/ GateConfirms
  \/ ResumeSettlement \/ SettleStatus \/ SettleLines \/ SettleMain \/ ClearSettlement
  \/ Restore \/ FinalizeSettled \/ Walk \/ Deliver
  \/ PutAside \/ PutInPlace
  \/ Refuse

Outside ==
  \/ (StartCommand \/ EditMain) /\ UNCHANGED <<added, frame>>
  \/ LoseEvidence

Kill ==
  /\ pc \in KillsAt
  /\ \/ (Stop \/ StopInAppend) /\ frame' = NoFrame /\ UNCHANGED added
     \/ StopInRun

InstrumentNext == Outside \/ Step \/ Kill

Spec == InstrumentInit /\ [][InstrumentNext]_instrumentVars
FairSpec == Spec /\ WF_instrumentVars(Step)

-----------------------------------------------------------------------------
(* Correctness.                                                            *)

Labels == {"idle", "load", "repair", "init", "init_log", "init_save", "init_measure",
           "evaluate", "evaluate_from", "stage", "commit", "append", "save",
           "measure", "score", "unscored", "mark", "decide", "screen", "gate", "screened",
           "confirm", "play", "play_failed", "gate_confirm",
           "settle_status", "settle_lines", "settle_main", "settle_clear",
           "restore", "finalize", "finalize_keep", "walk", "deliver", "swap", "swap_in", "status"}

\* Every variable stays in its range.
InstrumentTypeOK ==
  /\ main \in Content
  /\ versions \in [Versions -> Content]
  /\ log \in [Versions -> Block]
  /\ evidence = [v \in Versions |-> Missing]
  /\ saved \in State
  /\ pc \in Labels
  /\ job \in Job
  /\ mem \in State
  /\ outcome \in Outcomes
  /\ gated \in Gated
  /\ decisions \in Seq(DecisionLine)
  /\ visible \in [Versions -> Units]
  /\ fresh \in [Versions -> SUBSET Roles]
  /\ rulings \in [Versions -> Seq(Ruling)]
  /\ frame \in Frame

Undecided ==
  IF Initialized THEN Unknown(saved) \cup ({saved.pending} \ {None}) ELSE {}
Ruled == {v \in Declared \ {First} : Initialized /\ v \notin Undecided /\ v # gated.settling.of}

\* The head, through stops, restores and the safety walk, is only ever the
\* inherited version or one the gate kept on fresh seeds; and no other block
\* reads kept.
OnlyConfirmedStand ==
  /\ Initialized => Endorsed(saved.head)
  /\ \A v \in Versions : log[v].status = "kept" => Confirmed(v)

\* The helper's record is the gate's log.  What the gate holds open, and what
\* blocks it, is the pending candidate, so that a later command can resolve it.
\* A stop between the gate's line and the settlement, or anywhere in it, is
\* repaired: a version that is no longer pending or being settled has exactly
\* one ruling, in its own block, the ruling, the status and the log agree, and
\* it records the proposal the gate was asked about, not that of the command
\* that came to apply its line.
RulingsAreTheGates ==
  /\ OpenVersions \subseteq {saved.pending}
  /\ gated.blocked # None => gated.blocked = saved.pending /\ Kind(gated.blocked) # "none"
  /\ \A v \in Versions :
       /\ \A i \in DOMAIN rulings[v] :
            /\ rulings[v][i].of = v
            /\ rulings[v][i].by = "gate" => rulings[v][i].proposed = "kept"
       /\ v \in Ruled =>
            /\ Len(rulings[v]) = 1
            /\ log[v].status = rulings[v][1].status
            /\ Kind(v) = "none" <=> rulings[v][1].by # "gate"
            /\ Confirmed(v) <=> rulings[v][1].status = "kept"

\* The gate is asked once about a candidate, and once to confirm it; its line
\* is applied, never asked for again.
AskedOnce ==
  \A i, j \in DOMAIN decisions :
    i < j /\ decisions[i].version = decisions[j].version =>
      /\ ~decisions[i].replicates /\ decisions[j].replicates
      /\ decisions[i].disposition = "provisional"

\* What a finalized rollout hands over: nothing pending, open or half settled,
\* main/ equal to the head, the head's block saying so, and the head within
\* the safety margins unless it is the inherited version.
Delivered ==
  /\ Initialized
  /\ saved.pending = None
  /\ ~Settling
  /\ OpenVersions = {}
  /\ main = versions[saved.head]
  /\ Snapshots = Declared
  /\ Torn = {}
  /\ HeadReads(saved.head)
FinalizedIsDelivered ==
  outcome = "finalized" => Delivered /\ (saved.head = First \/ Safe(saved.head))

\* A settlement that was begun is only ever completed, with the answer it was
\* begun with, and with main/ holding the head.
SettlementStands ==
  [][Settling /\ gated'.settling # gated.settling =>
       /\ gated'.settling = NoRuling
       /\ log[gated.settling.of].status = gated.settling.status
       /\ rulings[gated.settling.of] = <<gated.settling>>
       /\ main = versions[saved.head]]_instrumentVars

\* A blocked gate stays blocked, and its candidate pending, until the gate
\* has written the line that resolves it.
BlockedUntilResolved ==
  [][gated.blocked # None /\ gated'.blocked # gated.blocked => Kind(gated.blocked) = "resolved"]_instrumentVars

\* With its decisions made by the gate the helper still implements the ledger.
ledgerUndecided == IF Undecided = {} THEN None ELSE CHOOSE v \in Undecided : TRUE
ledgerEndorsed ==
  IF Initialized
  THEN {v \in Versions : log[v].status \in {"baseline", "kept"}} \cup {saved.head}
  ELSE {}

L == INSTANCE Ledger WITH
       known <- Snapshots, undecided <- ledgerUndecided,
       head <- saved.head, endorsed <- ledgerEndorsed

ImplementsLedger == L!Spec

\* The gate can confirm only what both visible results still stand behind.
Unresolvable == \E v \in OpenVersions : ~HasEvidence(v) \/ ~HasEvidence(saved.head)

\* If stops, edits, losses and refusals of the gate come to an end while
\* finalize is run again and again, the rollout ends up deliverable for good,
\* or with the gate blocked, or with a confirmation whose evidence was lost.
StartFinalize == Start("finalize", None, "none", FALSE) /\ UNCHANGED <<added, frame>>
EventuallyDelivered ==
  (<>[][Step \/ StartFinalize]_instrumentVars /\ []<><<StartFinalize>>_instrumentVars)
    => <>[](Initialized => Delivered \/ gated.blocked # None \/ Unresolvable)
=============================================================================
