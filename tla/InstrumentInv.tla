---------------------------- MODULE InstrumentInv ----------------------------
(***************************************************************************)
(* The inductive invariant of Instrument: what the state file, the helper's *)
(* log, the gate's log and the program counter have to do with each other.  *)
(* Instrument_proofs proves it; here it can be model-checked.               *)
(***************************************************************************)
EXTENDS Instrument

\* Where the command has not read the state yet.
Unread == {"idle", "load"}

\* An init that found no state, up to the save of the first one.
Opening == {"stage", "commit", "init", "init_log", "init_save"}

\* Where evaluate is between its intent and the save of its candidate.
Registering == {"stage", "commit", "append", "save"}

EvaluateCommands == {"evaluate", "evaluate_from"}
DecideCommands == {"decide", "finalize", "finalize_keep"}
FinalizeCommands == {"finalize", "finalize_keep"}

Swapping(label) == pc \in {"swap", "swap_in"} /\ frame.swapped = label

\* The command is inside finish_settlement.
InSettlement ==
  \/ pc \in {"settle_status", "settle_lines", "settle_main", "settle_clear"}
  \/ Swapping("settle_clear")

\* The status is written, and the lines are.
StatusWritten == InSettlement /\ pc # "settle_status"
LinesWritten == StatusWritten /\ pc # "settle_lines"

\* The command is inside decide_with_gate, with a keep to propose; inside
\* finish_confirmation, with a line to resolve.
Proposing ==
  \/ pc \in {"screen", "gate"}
  \/ pc \in {"measure", "score", "unscored"} /\ job.cmd \in DecideCommands
Resolving == pc \in {"play", "play_failed", "gate_confirm"} \/ Swapping("play")
Pondering == Proposing \/ Resolving \/ pc \in {"screened", "confirm"}

\* finalize has walked to a head it can deliver.
Delivering == pc = "deliver" \/ Swapping("finalized")

\* The saved state: no head means no state at all; the head and the pending
\* candidate are different recorded versions; what is recorded exists.
SavedInv ==
  /\ saved.head = None => saved = Blank
  /\ saved.head # None => /\ saved.digests[saved.head] # Missing
                          /\ saved.digests[First] # Missing
                          /\ saved.head # saved.pending
  /\ saved.pending # None => saved.digests[saved.pending] # Missing
  /\ saved.pending # First
  /\ \A v \in Versions : saved.digests[v] # Missing => versions[v] # Missing

\* At most one snapshot is unknown to the state, and then nothing is pending;
\* a version that is unknown, pending or being settled is the latest one.
UnknownInv ==
  /\ \A v, w \in Unknown(saved) : v = w
  /\ saved.pending # None => Unknown(saved) = {}
  /\ ~Initialized => Snapshots \subseteq {First}
  /\ Initialized =>
       \A v \in Unknown(saved) \cup {saved.pending, gated.settling.of}, u \in Snapshots :
         v # None => u <= v

\* The log: a block has a snapshot; only the first version is the baseline;
\* what the state knows has a whole block; what reads kept the gate kept.
LogInv ==
  /\ Declared \subseteq Snapshots
  /\ \A v \in Versions : log[v].status = "baseline" => v = First
  /\ Initialized => log[First].status = "baseline"
  /\ ~Initialized => log[First].status \in {"absent", "torn", "baseline"}
  /\ Initialized => Blockless \cup Torn \subseteq Unknown(saved)
  /\ \A v \in Versions : log[v].status = "kept" => Confirmed(v)

\* The gate's log: a version has at most a screening and, when that was
\* provisional, its confirmation; only a confirmation keeps.
DecisionsInv ==
  /\ AskedOnce
  /\ \A i \in DOMAIN decisions :
       /\ decisions[i].replicates =>
            /\ decisions[i].disposition # "provisional"
            /\ \E j \in LinesOf(decisions[i].version) : j < i
       /\ ~decisions[i].replicates => decisions[i].disposition # "keep"
       /\ saved.digests[decisions[i].version] # Missing

\* What the state file has of the gate: an open or a blocking line is the
\* pending candidate's, whose proposal was saved before the gate was asked.
GatedInv ==
  /\ OpenVersions \subseteq {saved.pending}
  /\ gated.blocked # None =>
       gated.blocked = saved.pending /\ Kind(gated.blocked) \in {"provisional_open", "resolved"}
  /\ saved.pending # None /\ Kind(saved.pending) # "none" => gated.proposal = saved.pending

\* The head, and every version recorded as a parent, is one that may be it.
EndorsedIn(s) ==
  /\ s.head # None => Endorsed(s.head)
  /\ s.intent.parent # None => Endorsed(s.intent.parent)
  /\ \A v \in Versions : s.parents[v] # None => Endorsed(s.parents[v])
EndorsedInv == EndorsedIn(saved) /\ (pc = "repair" => EndorsedIn(mem))

\* A ruling agrees with the gate's log.
Agrees(r) ==
  /\ r.by = "gate" <=> Kind(r.of) # "none"
  /\ r.status = "kept" <=> Confirmed(r.of)
  /\ r.by = "gate" => r.proposed = "kept"

\* A settlement that was begun and is not completed.
SettlingInv ==
  Settling =>
    /\ saved.pending = None
    /\ Unknown(saved) = {}
    /\ gated.settling.of # First
    /\ saved.digests[gated.settling.of] # Missing
    /\ gated.settling.status = "kept" => saved.head = gated.settling.of
    /\ Agrees(gated.settling)
    /\ rulings[gated.settling.of] \in {<<>>, <<gated.settling>>}

\* Every ruled version has its one ruling, and no other version has any.
RulingsInv ==
  \A v \in Versions :
    /\ rulings[v] # <<>> => v \in Ruled \/ v = gated.settling.of
    /\ v \in Ruled => \E r \in Ruling :
         rulings[v] = <<r>> /\ r.of = v /\ r.status = log[v].status /\ Agrees(r)

\* While it repairs, the command knows every snapshot and has adopted one.
Adopting ==
  /\ mem.head = saved.head
  /\ mem.pending \in AdoptedPending(saved)
  /\ mem.intent = saved.intent
  /\ \A v \in Versions :
       mem.digests[v] = IF v \in Unknown(saved) \ Broken THEN versions[v] ELSE saved.digests[v]
  /\ Settling => mem = saved

\* What the command holds in memory is what it last saved, except while
\* load_state has adopted a snapshot it has not saved yet.
MemInv ==
  /\ pc \in Unread => mem = Blank
  /\ pc \notin Unread \cup {"repair"} => mem = saved
  /\ pc = "repair" => Adopting
  /\ pc \notin Unread \cup Opening => Initialized

\* Past load_state nothing is unknown but the snapshot evaluate just made, and
\* no snapshot differs from its digest until evaluate makes one.
ReconciledInv ==
  /\ pc \notin Unread \cup {"repair", "append", "save"} /\ Initialized => Unknown(saved) = {}
  /\ pc \in {"append", "save"} => Unknown(saved) = {job.version}
  /\ pc \notin Unread \cup {"repair"} /\ job.cmd \notin EvaluateCommands \cup {"init"} => Broken = {}
  /\ InSettlement => Broken = {}

\* Each label's own facts about the job of init and of evaluate.
RegisterInv ==
  /\ pc # "idle" => job.cmd # "none"
  /\ pc \in Registering => job.cmd \in EvaluateCommands \cup {"init"}
  /\ pc \in {"append", "save"} => job.cmd # "init"
  /\ pc \in {"init", "init_log", "init_save", "init_measure"} => job.cmd = "init"
  /\ pc \in EvaluateCommands => job.cmd \in EvaluateCommands
  /\ pc \in {"init_log", "init_save"} => ~Initialized
  /\ pc \in {"stage", "commit"} => (Initialized <=> job.cmd # "init")
  /\ pc \in Registering \cup {"init_log", "init_save"} =>
       job.version \in Versions /\ job.tree \in Tree
  /\ pc \in {"stage", "commit"} => \A u \in Snapshots : u < job.version
  /\ pc = "commit" => job.staged # Missing
  /\ pc \in Registering /\ Initialized => saved.pending = None
  /\ pc \in Registering /\ ~Initialized => job.version = First
  /\ pc \in {"init_log", "init_save"} => versions[First] # Missing
  /\ pc = "init_save" => log[First].status = "baseline"
  /\ pc = "save" => log[job.version].status = "reverted"
  /\ pc \in {"measure", "score", "unscored", "mark"} =>
       job.version \in Versions /\ job.cmd \in EvaluateCommands \cup DecideCommands \cup {"init"}

\* The same of decide, restore and finalize.
DecideInv ==
  /\ job.cmd = "decide" => job.version \in Versions /\ job.status \in {"kept", "reverted"}
  /\ job.cmd = "restore" => job.version \in Versions
  /\ pc = "restore" => job.cmd = "restore"
  /\ pc \in FinalizeCommands \cup {"walk"} \/ Delivering => job.cmd \in FinalizeCommands
  /\ pc = "decide" \/ Pondering =>
       /\ job.version \in Versions
       /\ job.cmd \in DecideCommands
       /\ job.status \in {"kept", "reverted"}
  /\ Pondering => saved.pending = job.version
  /\ Proposing => Kind(job.version) = "none" /\ job.status = "kept"
  /\ pc = "gate" => gated.proposal = job.version
  /\ pc = "screened" => Kind(job.version) \in {"screening_revert", "provisional_open"}
  /\ pc = "confirm" => Kind(job.version) \in {"provisional_open", "resolved"}
  /\ Resolving => Kind(job.version) = "provisional_open"
  /\ pc = "walk" \/ Delivering => saved.pending = None
  /\ Delivering => Passes(saved.head)

\* A settlement is completed before anything else is done; what replace_main
\* puts in place, and what it returns to.
FrameInv ==
  /\ Settling => InSettlement \/ pc \in Unread \cup {"repair"}
  /\ InSettlement => Settling
  /\ StatusWritten => log[gated.settling.of].status = gated.settling.status
  /\ LinesWritten => rulings[gated.settling.of] = <<gated.settling>>
  /\ pc \in {"swap", "swap_in"} =>
       /\ frame.target \in Versions
       /\ frame.swapped # "none"
       /\ frame.swapped \in {"settle_clear", "finalized"} => frame.target = saved.head

\* What a finalize hands over stays so until the next command.
FinalizedInv == outcome = "finalized" => pc = "idle" /\ Delivered /\ Passes(saved.head)

IInv ==
  /\ InstrumentTypeOK
  /\ SavedInv /\ UnknownInv /\ LogInv /\ DecisionsInv /\ GatedInv /\ EndorsedInv
  /\ SettlingInv /\ RulingsInv
  /\ MemInv /\ ReconciledInv /\ RegisterInv /\ DecideInv /\ FrameInv /\ FinalizedInv
=============================================================================
