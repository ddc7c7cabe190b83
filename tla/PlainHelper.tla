----------------------------- MODULE PlainHelper -----------------------------
(***************************************************************************)
(* The rollout helper without the gate: the commands of                    *)
(* src/runbook/provenance.py on a rollout that is measured by the task's   *)
(* self-check.  Rollout has the disk, load_state, init, evaluate and the   *)
(* swap; here are the measurement, decide, restore and finalize.           *)
(***************************************************************************)
EXTENDS Rollout, FiniteSets

Labels == {"idle", "load", "repair", "init", "init_log", "init_save", "init_measure",
           "evaluate", "evaluate_from", "stage", "commit", "append", "save",
           "measure", "score", "decide", "settle", "settle_log", "note", "restore",
           "finalize", "finalize_keep", "deliver", "swap", "swap_in", "status"}

-----------------------------------------------------------------------------
(* measure: the self-check runs on main/, whatever main/ holds by then.    *)

\* Mutant: main/ is not compared with the version.
NeedsMeasure_AnyMain(v) == ~Measured(v) /\ IsNewestBlock(v)
\* Mutant: the version's block need not be the newest.
NeedsMeasure_AnyBlock(v) == ~Measured(v) /\ main = mem.digests[v]
NeedsMeasure(v) ==
  /\ ~Measured(v)
  /\ IsNewestBlock(v)
  /\ main = mem.digests[v]

Measure ==
  /\ pc = "measure"
  /\ \E e \in (IF SelfCheckMayFail \/ main \notin Tree THEN {NoScore} ELSE {})
              \cup (Tree \cap {main}) :
       evidence' = [evidence EXCEPT ![job.version] = e]
  /\ Goto("score")
  /\ UNCHANGED <<main, versions, log, saved, job, mem>>

Score ==
  /\ pc = "score"
  /\ AppendLine(IF evidence[job.version] = NoScore THEN "unmeasured" ELSE "score",
                job.version)
  /\ IF job.cmd \in {"init", "evaluate", "evaluate_from"}
     THEN End("ok")
     ELSE Goto("settle") /\ UNCHANGED <<job, mem>>
  /\ UNCHANGED <<main, versions, evidence, saved>>

-----------------------------------------------------------------------------
(* The end of cmd_init: the inherited version is measured.                 *)

\* opt is --no-evaluate.
InitMeasure ==
  /\ \/ pc = "init_measure"
     \/ pc = "init" /\ Initialized
  /\ IF ~job.opt /\ NeedsMeasure(First)
     THEN /\ job' = [job EXCEPT !.version = First]
          /\ Goto("measure")
          /\ UNCHANGED mem
     ELSE End("ok")
  /\ UNCHANGED disk

-----------------------------------------------------------------------------
(* cmd_decide: the state is saved before the log is rewritten.             *)

\* Mutant: the log is rewritten before the state is saved.
DecideKept_LogFirst ==
  /\ pc = "decide"
  /\ mem.pending = job.version
  /\ job.status = "kept"
  /\ SetStatus(job.version, "kept")
  /\ Goto(IF NeedsMeasure(job.version) THEN "measure" ELSE "settle")
  /\ UNCHANGED <<main, versions, evidence, saved, job, mem>>

DecideKept ==
  /\ pc = "decide"
  /\ mem.pending = job.version
  /\ job.status = "kept"
  /\ Goto(IF NeedsMeasure(job.version) THEN "measure" ELSE "settle")
  /\ UNCHANGED <<disk, job, mem>>

DecideReverted ==
  /\ pc = "decide"
  /\ mem.pending = job.version
  /\ job.status = "reverted"
  /\ IF ~Measured(job.version) /\ IsNewestBlock(job.version)
     THEN AppendLine("unmeasured", job.version) ELSE UNCHANGED log
  /\ Goto("settle")
  /\ UNCHANGED <<main, versions, evidence, saved, job, mem>>

\* Mutant: a revert leaves the candidate pending.
SaveDecision_StillPending ==
  /\ pc = "settle"
  /\ mem' = IF job.status = "kept"
            THEN [mem EXCEPT !.pending = None, !.head = job.version] ELSE mem
  /\ saved' = mem'
  /\ Goto("settle_log")
  /\ UNCHANGED <<main, versions, log, evidence, job>>

SaveDecision ==
  /\ pc = "settle"
  /\ mem' = [mem EXCEPT !.pending = None,
                        !.head = IF job.status = "kept" THEN job.version ELSE @]
  /\ saved' = mem'
  /\ Goto("settle_log")
  /\ UNCHANGED <<main, versions, log, evidence, job>>

\* opt is --note; a revert goes on to restore the head.
AfterStatus ==
  IF job.status = "reverted" THEN Goto("swap") /\ UNCHANGED <<job, mem>>
  ELSE IF job.cmd = "finalize_keep" THEN Goto("deliver") /\ UNCHANGED <<job, mem>>
  ELSE End("ok")

SetDecidedStatus ==
  /\ pc = "settle_log"
  /\ job.version \in Declared
  /\ SetStatus(job.version, job.status)
  /\ IF job.opt THEN Goto("note") /\ UNCHANGED <<job, mem>> ELSE AfterStatus
  /\ UNCHANGED <<main, versions, evidence, saved>>

StatusRefused == pc = "settle_log" /\ job.version \notin Declared

AppendNote ==
  /\ pc = "note"
  /\ AppendLine("note", job.version)
  /\ AfterStatus
  /\ UNCHANGED <<main, versions, evidence, saved>>

-----------------------------------------------------------------------------
(* cmd_restore and cmd_finalize.                                           *)

\* Mutant: a pending candidate does not stop a restore.
Restore_WhilePending ==
  /\ pc = "restore"
  /\ job.version \in Snapshots
  /\ mem' = [mem EXCEPT !.head = job.version]
  /\ saved' = mem'
  /\ Goto("swap")
  /\ UNCHANGED <<main, versions, log, evidence, job>>

Restore ==
  /\ pc = "restore"
  /\ mem.pending = None
  /\ job.version \in Snapshots
  /\ mem' = [mem EXCEPT !.head = job.version]
  /\ saved' = mem'
  /\ Goto("swap")
  /\ UNCHANGED <<main, versions, log, evidence, job>>

FinalizeSettled ==
  /\ Finalizing
  /\ mem.pending = None
  /\ job.cmd = "finalize_keep" => job.version = mem.head
  /\ Goto("deliver")
  /\ UNCHANGED <<disk, job, mem>>

\* main/ is left equal to the head, even when it cannot be hashed.
Deliver ==
  /\ pc = "deliver"
  /\ IF main = mem.digests[mem.head] /\ main # Missing
     THEN End("finalized")
     ELSE /\ job' = [job EXCEPT !.status = "delivered"]
          /\ Goto("swap")
          /\ UNCHANGED mem
  /\ UNCHANGED disk

-----------------------------------------------------------------------------

Refuse ==
  /\ \/ LoadRefused \/ EvaluateRefused \/ CommitRefused \/ SwapRefused
     \/ InitRefused \/ DecideRefused \/ StatusRefused
     \/ RestoreRefused \/ FinalizeRefused
  /\ End("refused")
  /\ UNCHANGED disk

\* A step of the running command.
Step ==
  \/ Load \/ RepairBlock \/ RepairStatus \/ RepairHead \/ LoadDone
  \/ InitFresh \/ InitResume \/ InitLog \/ InitSave \/ InitMeasure
  \/ PlaceCandidate \/ NothingNew \/ SaveIntent
  \/ StageSnapshot \/ CommitSnapshot \/ AppendBlock \/ SaveCandidate
  \/ Measure \/ Score
  \/ DecideKept \/ DecideReverted \/ SaveDecision \/ SetDecidedStatus \/ AppendNote
  \/ Restore \/ FinalizePending \/ FinalizeSettled \/ Deliver
  \/ SwapOut \/ SwapIn \/ SwapBlocked
  \/ Status \/ Refuse

Next == StartCommand \/ Step \/ EditMain \/ Stop \/ StopInAppend

Spec == RolloutInit /\ [][Next]_vars

\* A command that was started is scheduled until it ends or is killed.
FairSpec == Spec /\ WF_vars(Step)

-----------------------------------------------------------------------------
(* Correctness.                                                            *)

\* Every variable stays in its range.
TypeOK ==
  /\ main \in Content
  /\ versions \in [Versions -> Content]
  /\ log \in [Versions -> Block]
  /\ evidence \in [Versions -> Tree \cup {Missing, NoScore}]
  /\ saved \in State
  /\ pc \in Labels
  /\ job \in Job
  /\ mem \in State
  /\ outcome \in Outcomes

\* The versions no decision has settled: the pending one, and a snapshot an
\* interrupted evaluate left behind that the state does not know yet.
Undecided ==
  IF Initialized THEN Unknown(saved) \cup ({saved.pending} \ {None}) ELSE {}

\* "A candidate reads as reverted until its decision is durable, so an
\* undecided candidate never reads as kept" - at any moment, through any
\* sequence of stops, repairs, decisions and restores.
UndecidedNeverReadsKept ==
  \A v \in Versions :
    log[v].status = "kept" =>
      Initialized /\ v \in Snapshots /\ v \notin Undecided

\* At most one version awaits a decision, so the snapshot that load_state
\* adopts is never one of several and never displaces a pending candidate.
OneUndecided == Cardinality(Undecided) <= 1

\* Score lines and notes are appended at the end of the log, in whatever block
\* is last there; they always land in the block of the version they are about.
LinesLandInTheirBlock ==
  \A v \in Versions : \A l \in log[v].lines : l.of = v

\* The self-check runs on main/, not on the snapshot it is filed under: the
\* tree it measured is the snapshot's tree all the same.
EvidenceIsOfItsSnapshot ==
  \A v \in Versions : evidence[v] \in Tree => evidence[v] = versions[v]

\* No tree is snapshotted under two numbers, so "the version main/ equals" is
\* one version, for restore's advice, for status and for the record producer.
SnapshotsAreDistinct ==
  \A v, w \in Snapshots : versions[v] = versions[w] => v = w

\* What a finalized rollout hands to the record producer: nothing pending,
\* main/ equal to the head, a block with a status for every snapshot and no
\* other, the head reading baseline or kept.
Delivered ==
  /\ Initialized
  /\ saved.pending = None
  /\ main = versions[saved.head]
  /\ Snapshots = Declared
  /\ Torn = {}
  /\ HeadReads(saved.head)

\* finalize never refuses an initialized rollout, for there is no state an
\* abrupt stop can leave on disk that the helper does not repair; and when it
\* reports success the rollout is deliverable, whatever stops and edits came
\* before it.
FinalizeDelivers ==
  /\ outcome = "finalize_refused" => ~Initialized
  /\ outcome = "finalized" => Delivered

\* The two places that record a version's parent, the state and the block,
\* never contradict each other, and a parent is an earlier version.
ParentsAgree ==
  \A v \in Versions :
    /\ {saved.parents[v], log[v].parent} \ {None} \subseteq 0 .. (v - 1)
    /\ saved.parents[v] # None /\ log[v].parent # None => saved.parents[v] = log[v].parent

\* The helper implements the atomic ledger: state.json and the log, read
\* together at any moment, are a ledger on which each command took effect at
\* one instant (the rename of a snapshot, the save of a decision).
ledgerKnown == Snapshots
ledgerUndecided == IF Undecided = {} THEN None ELSE CHOOSE v \in Undecided : TRUE
ledgerHead == saved.head
ledgerEndorsed ==
  IF Initialized
  THEN {v \in Versions : log[v].status \in {"baseline", "kept"}} \cup {saved.head}
  ELSE {}

L == INSTANCE Ledger WITH
       known <- ledgerKnown, undecided <- ledgerUndecided,
       head <- ledgerHead, endorsed <- ledgerEndorsed

ImplementsLedger == L!Spec

\* If the stops and the agent's edits and other commands come to an end while
\* finalize is run again and again, the rollout ends up deliverable for good.
StartFinalize == Start("finalize", None, "none", FALSE)
EventuallyDelivered ==
  (<>[][Step \/ StartFinalize]_vars /\ []<><<StartFinalize>>_vars)
    => <>[](Initialized => Delivered)
=============================================================================
