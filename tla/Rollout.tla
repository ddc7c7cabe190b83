------------------------------- MODULE Rollout -------------------------------
(***************************************************************************)
(* The disk of one rollout and the part of the helper                      *)
(* (src/runbook/provenance.py, class Rollout) both of its modes share: the *)
(* start of a command, the reconciliation every command begins with        *)
(* (load_state), init and evaluate up to their state saves, the swap of    *)
(* main/ (replace_main), the agent's edits and the abrupt stop of a        *)
(* command.                                                                *)
(*                                                                         *)
(* One action makes one durable change, so a Stop between two actions is   *)
(* the process being killed between the two writes.  A tree is known by    *)
(* its method-tree digest.  The rollout lock (lock) admits one command at  *)
(* a time: pc is the program counter of that command, "idle" when there is *)
(* none; a second command is refused without a change and is not modelled. *)
(***************************************************************************)
EXTENDS Integers

CONSTANTS
  Tree,               \* the method trees main/ can hold, by digest
  Missing,            \* no directory (or, in a digest table, no entry)
  Unhashable,         \* a directory the digest refuses (foreign files, mid-edit)
  NoScore,            \* a self-check that returned no mean score
  MaxVersion,         \* bound: the highest version number a rollout reaches
  Used,               \* bound: the commands the agent runs
  Options,            \* bound: the values --note and --no-evaluate may take
  SelfCheckMayFail,   \* bound: may a self-check return no score?
  EditsAt             \* bound: where ("idle": between commands) the agent edits main/

Versions == 0 .. MaxVersion
None == -1
First == 0                                   \* state["first"] is always v0

ASSUME RolloutAssumption ==
  /\ MaxVersion \in Nat
  /\ Missing \notin Tree
  /\ Unhashable \notin Tree \cup {Missing}
  /\ NoScore \notin Tree \cup {Missing, Unhashable}
  /\ Used \subseteq {"init", "evaluate", "evaluate_from", "decide", "restore",
                    "finalize", "finalize_keep", "status"}
  /\ Options \subseteq BOOLEAN
  /\ SelfCheckMayFail \in BOOLEAN
  /\ EditsAt \subseteq STRING

VARIABLES
  main,               \* methods/main
  versions,           \* methods/versions: the snapshots
  log,                \* methods/experiment_log.md: one block per version
  evidence,           \* results/v<N>/: the tree the measurement was made on
  saved,              \* .provenance/state.json
  pc,                 \* where the running command is
  job,                \* its arguments and locals
  mem,                \* the state dictionary it holds in memory
  outcome             \* how the last command ended

disk == <<main, versions, log, evidence, saved>>
vars == <<main, versions, log, evidence, saved, pc, job, mem, outcome>>

Content == Tree \cup {Missing, Unhashable}
VersionOrNone == Versions \cup {None}

\* A block reads "torn" when its status line never reached the disk.
Statuses == {"absent", "torn", "baseline", "kept", "reverted"}
LineKinds == {"score", "unmeasured", "note"}
Line == [kind : LineKinds, of : Versions]
Block == [status : Statuses, parent : VersionOrNone, lines : SUBSET Line]
NoBlock == [status |-> "absent", parent |-> None, lines |-> {}]

\* state.json; a head of None stands for the file not existing yet.
Intent == [version : VersionOrNone, parent : VersionOrNone]
State == [head : VersionOrNone, pending : VersionOrNone, intent : Intent,
          digests : [Versions -> Tree \cup {Missing}],
          parents : [Versions -> VersionOrNone]]
NoIntent == [version |-> None, parent |-> None]
Blank == [head |-> None, pending |-> None, intent |-> NoIntent,
          digests |-> [v \in Versions |-> Missing],
          parents |-> [v \in Versions |-> None]]

Commands == {"init", "evaluate", "evaluate_from", "decide", "restore",
             "finalize", "finalize_keep", "status"}
\* opt is --no-evaluate of init and --note of decide; tree is the digest an
\* evaluate computed; staged is its copy of main/ in the staging area.
Job == [cmd : Commands \cup {"none"}, version : VersionOrNone,
        status : {"none", "kept", "reverted", "delivered"},
        opt : BOOLEAN, tree : Content, staged : Content]
NoJob == [cmd |-> "none", version |-> None, status |-> "none",
          opt |-> FALSE, tree |-> Missing, staged |-> Missing]

\* What is remembered of the last command: only how a finalize ended.
Outcomes == {"none", "finalized", "finalize_refused"}

RolloutInit ==
  /\ main \in Tree                           \* the inherited starter
  /\ versions = [v \in Versions |-> Missing]
  /\ log = [v \in Versions |-> NoBlock]
  /\ evidence = [v \in Versions |-> Missing]
  /\ saved = Blank
  /\ pc = "idle"
  /\ job = NoJob
  /\ mem = Blank
  /\ outcome = "none"

Initialized == saved.head # None
Snapshots == {v \in Versions : versions[v] # Missing}
Declared == {v \in Versions : log[v].status # "absent"}
Measured(v) == evidence[v] # Missing

\* Blocks are appended in the order of their numbers (see next_id), so the
\* last block of the file, where an append lands, is the highest one.
IsNewestBlock(v) == v \in Declared /\ \A w \in Declared : w <= v

\* 1 + the highest number a snapshot or a block uses.
IsNextId(v) ==
  /\ \A u \in Snapshots \cup Declared : u < v
  /\ v = 0 \/ v - 1 \in Snapshots \cup Declared

NewBlock(status, parent) == [status |-> status, parent |-> parent, lines |-> {}]
SetStatus(v, status) == log' = [log EXCEPT ![v].status = status]
AppendLine(kind, of) ==
  \E b \in Versions :
    /\ IsNewestBlock(b)
    /\ log' = [log EXCEPT ![b].lines = @ \cup {[kind |-> kind, of |-> of]}]

-----------------------------------------------------------------------------
(* How a command ends, and how it begins.                                  *)

End(result) ==
  /\ pc' = "idle"
  /\ job' = NoJob
  /\ mem' = Blank
  /\ outcome' = IF result = "finalized" THEN "finalized"
                ELSE IF result = "refused" /\ job.cmd = "finalize" THEN "finalize_refused"
                ELSE "none"

Goto(label) ==
  /\ pc' = label
  /\ UNCHANGED outcome

\* main() takes the lock and the command reads the state.  Only init runs
\* on a rollout that has none (read_state refuses the others).
Start(cmd, version, status, opt) ==
  /\ pc = "idle"
  /\ cmd \in Used
  /\ cmd \in {"evaluate", "evaluate_from"} => \E v \in Versions : IsNextId(v)
  /\ job' = [NoJob EXCEPT !.cmd = cmd, !.version = version,
                          !.status = status, !.opt = opt]
  /\ pc' = IF Initialized \/ cmd # "init" THEN "load" ELSE "init"
  /\ outcome' = "none"
  /\ UNCHANGED <<disk, mem>>

-----------------------------------------------------------------------------
(* load_state: the saved state reconciled with the disk.                   *)

Unknown(s) == {v \in Snapshots : s.digests[v] = Missing}

\* The snapshots load_state stops at: the digest is not the recorded one, or
\* the tree cannot be hashed.
Broken ==
  {v \in Snapshots : versions[v] = Unhashable
                     \/ (v \notin Unknown(saved) /\ saved.digests[v] # versions[v])}

\* A snapshot the state never learned of is the pending candidate.
AdoptedPending(s) ==
  LET adoptable == Unknown(s) \ {s.head}
  IN  IF s.pending # None \/ adoptable = {}
      THEN {s.pending}
      ELSE {v \in adoptable : \A w \in adoptable : v <= w}

Load ==
  /\ pc = "load"
  /\ Initialized
  /\ \E p \in AdoptedPending(saved) :
       mem' = [saved EXCEPT
                 !.pending = p,
                 !.digests = [v \in Versions |-> IF v \in Unknown(saved) \ Broken
                                                 THEN versions[v] ELSE saved.digests[v]]]
  /\ Goto("repair")
  /\ UNCHANGED <<disk, job>>

\* Mutant: only the snapshots the saved state knows are looked at.
Blockless_Known == (Snapshots \ Declared) \ Unknown(saved)
Blockless == Snapshots \ Declared
Torn == {v \in Snapshots : log[v].status = "torn"}

\* The snapshots are visited in their order, up to the first broken one.
NextRepair(v) ==
  /\ \A w \in Blockless \cup Torn : v <= w
  /\ \A w \in Broken : v < w

RepairParent(v) == IF mem.intent.version = v THEN mem.intent.parent ELSE mem.head
RepairedBlock(v) ==
  [status |-> "reverted", parent |-> RepairParent(v),
   lines |-> {[kind |-> "unmeasured", of |-> v]}]

\* A snapshot without a block gets one, with a "not measured" score line.
RepairBlock ==
  /\ pc = "repair"
  /\ \E v \in Blockless :
       /\ NextRepair(v)
       /\ log' = [log EXCEPT ![v] = RepairedBlock(v)]
       /\ mem' = IF mem.parents[v] = None
                 THEN [mem EXCEPT !.parents[v] = RepairParent(v)] ELSE mem
  /\ UNCHANGED <<main, versions, evidence, saved, pc, job, outcome>>

\* A block without its status line gets one.
RepairStatus ==
  /\ pc = "repair"
  /\ \E v \in Torn : NextRepair(v) /\ SetStatus(v, "reverted")
  /\ UNCHANGED <<main, versions, evidence, saved, pc, job, mem, outcome>>

HeadStatus(v) == IF v = First THEN "baseline" ELSE "kept"
\* Mutant: any status will do.
HeadReads_Any(v) == v \in Declared => log[v].status # "torn"
HeadReads(v) == v \in Declared => log[v].status = HeadStatus(v)

\* The head's block reads kept, or baseline for the first version.
RepairHead ==
  /\ pc = "repair"
  /\ Broken \cup Blockless \cup Torn = {}
  /\ ~HeadReads(mem.head)
  /\ SetStatus(mem.head, HeadStatus(mem.head))
  /\ UNCHANGED <<main, versions, evidence, saved, pc, job, mem, outcome>>

\* An intent whose snapshot is known is spent; the state is saved if changed.
LoadDone ==
  /\ pc = "repair"
  /\ Broken \cup Blockless \cup Torn = {}
  /\ HeadReads(mem.head)
  /\ mem' = IF /\ mem.intent.version # None
               /\ mem.digests[mem.intent.version] # Missing
            THEN [mem EXCEPT !.intent = NoIntent] ELSE mem
  /\ saved' = mem'
  /\ Goto(job.cmd)
  /\ UNCHANGED <<main, versions, log, evidence, job>>

LoadRefused ==
  \/ pc = "load" /\ ~Initialized
  \/ /\ pc = "repair"
     /\ Broken # {}
     /\ ~\E v \in Blockless \cup Torn : NextRepair(v)

-----------------------------------------------------------------------------
(* cmd_init on a rollout that has no state yet, or an interrupted init.    *)

InitPossible == Snapshots \cup Declared \subseteq {First}

InitRefused ==
  /\ pc = "init"
  /\ ~Initialized
  /\ \/ main = Missing
     \/ ~InitPossible
     \/ versions[First] = Missing /\ main = Unhashable
     \/ versions[First] = Unhashable

InitFresh ==
  /\ pc = "init"
  /\ ~Initialized
  /\ InitPossible
  /\ versions[First] = Missing
  /\ main \in Tree
  /\ job' = [job EXCEPT !.version = First, !.tree = main]
  /\ Goto("stage")
  /\ UNCHANGED <<disk, mem>>

\* An interrupted init is finished from the v0 it left.
InitResume ==
  /\ pc = "init"
  /\ ~Initialized
  /\ InitPossible
  /\ versions[First] \in Tree
  /\ main # Missing
  /\ job' = [job EXCEPT !.version = First, !.tree = versions[First]]
  /\ Goto("init_log")
  /\ UNCHANGED <<disk, mem>>

InitLog ==
  /\ pc = "init_log"
  /\ log' = IF First \notin Declared
            THEN [log EXCEPT ![First] = NewBlock("baseline", None)]
            ELSE IF log[First].status = "torn"
            THEN [log EXCEPT ![First].status = "baseline"]
            ELSE log
  /\ Goto("init_save")
  /\ UNCHANGED <<main, versions, evidence, saved, job, mem>>

InitSave ==
  /\ pc = "init_save"
  /\ mem' = [Blank EXCEPT !.head = First, !.digests[First] = job.tree]
  /\ saved' = mem'
  /\ Goto("init_measure")
  /\ UNCHANGED <<main, versions, log, evidence, job>>

-----------------------------------------------------------------------------
(* cmd_evaluate, up to the save that makes the candidate pending.          *)

\* Mutant: a second candidate is not refused.
EvaluateOpen_Again == main # Missing
EvaluateOpen == mem.pending = None /\ main # Missing

\* No recorded version has this tree.
\* Mutant: only the head is compared.
IsNew_Head(tree) == mem.digests[mem.head] # tree
IsNew(tree) == \A v \in Versions : mem.digests[v] # tree

\* --from PATH: one file of main/ is replaced.
PlaceCandidate ==
  /\ pc = "evaluate_from"
  /\ EvaluateOpen
  /\ main' \in IF main = Unhashable THEN {Unhashable} ELSE Tree
  /\ Goto("evaluate")
  /\ UNCHANGED <<versions, log, evidence, saved, job, mem>>

NothingNew ==
  /\ pc = "evaluate"
  /\ EvaluateOpen
  /\ main \in Tree
  /\ main = mem.digests[mem.head]
  /\ End("ok")
  /\ UNCHANGED disk

EvaluateRefused ==
  \/ pc \in {"evaluate", "evaluate_from"} /\ ~EvaluateOpen
  \/ /\ pc = "evaluate"
     /\ \/ main = Unhashable
        \/ ~IsNew(main) /\ mem.digests[mem.head] # main

SaveIntent ==
  /\ pc = "evaluate"
  /\ EvaluateOpen
  /\ main \in Tree
  /\ IsNew(main)
  /\ \E v \in Versions :
       /\ IsNextId(v)
       /\ mem' = [mem EXCEPT !.intent = [version |-> v, parent |-> mem.head]]
       /\ job' = [job EXCEPT !.version = v, !.tree = main]
  /\ saved' = mem'
  /\ Goto("stage")
  /\ UNCHANGED <<main, versions, log, evidence>>

\* Copies main/ into the staging area (a main/ that vanished is a traceback).
StageSnapshot ==
  /\ pc = "stage"
  /\ IF main = Missing
     THEN End("stopped")
     ELSE /\ job' = [job EXCEPT !.staged = main]
          /\ Goto("commit")
          /\ UNCHANGED mem
  /\ UNCHANGED disk

CommitSnapshot ==
  /\ pc = "commit"
  /\ versions[job.version] = Missing
  /\ versions' = [versions EXCEPT ![job.version] = job.staged]
  /\ Goto(IF job.cmd = "init" THEN "init_log" ELSE "append")
  /\ UNCHANGED <<main, log, evidence, saved, job, mem>>

CommitRefused == pc = "commit" /\ versions[job.version] # Missing

\* Mutant: the parent is taken to be the version before.
CandidateBlock_Previous == NewBlock("reverted", job.version - 1)
CandidateBlock == NewBlock("reverted", mem.head)

AppendBlock ==
  /\ pc = "append"
  /\ log' = [log EXCEPT ![job.version] = CandidateBlock]
  /\ Goto("save")
  /\ UNCHANGED <<main, versions, evidence, saved, job, mem>>

SaveCandidate ==
  /\ pc = "save"
  /\ mem' = [mem EXCEPT !.pending = job.version,
                        !.intent = NoIntent,
                        !.digests[job.version] = job.tree,
                        !.parents[job.version] = mem.head]
  /\ saved' = mem'
  /\ Goto("measure")
  /\ UNCHANGED <<main, versions, log, evidence, job>>

-----------------------------------------------------------------------------
(* decide, restore, finalize and status, as far as the modes agree.        *)

DecideRefused == pc = "decide" /\ mem.pending # job.version

RestoreRefused ==
  /\ pc = "restore"
  /\ mem.pending # None \/ job.version \notin Snapshots

Finalizing == pc \in {"finalize", "finalize_keep"}

\* A pending candidate is decided first: kept only when --keep names it.
FinalizePending ==
  /\ Finalizing
  /\ mem.pending # None
  /\ job' = [job EXCEPT
       !.version = mem.pending,
       !.status = IF job.cmd = "finalize_keep" /\ job.version = mem.pending
                  THEN "kept" ELSE "reverted"]
  /\ Goto("decide")
  /\ UNCHANGED <<disk, mem>>

FinalizeRefused ==
  /\ pc = "finalize_keep"
  /\ mem.pending = None
  /\ job.version # mem.head

Status == pc = "status" /\ End("ok") /\ UNCHANGED disk

StartCommand ==
  \/ \E opt \in Options : Start("init", None, "none", opt)
  \/ \E cmd \in {"evaluate", "evaluate_from", "status", "finalize"} :
       Start(cmd, None, "none", FALSE)
  \/ \E v \in Versions :
       \/ \E status \in {"kept", "reverted"}, opt \in Options :
            Start("decide", v, status, opt)
       \/ Start("restore", v, "none", FALSE)
       \/ Start("finalize_keep", v, "none", FALSE)

-----------------------------------------------------------------------------
(* replace_main: main/ is swapped for a copy of the head's snapshot.       *)

SwapOut ==
  /\ pc = "swap"
  /\ versions[mem.head] # Missing
  /\ main' = Missing
  /\ Goto("swap_in")
  /\ UNCHANGED <<versions, log, evidence, saved, job, mem>>

SwapRefused == pc = "swap" /\ versions[mem.head] = Missing

\* A finalize goes on to look at main/ after its decision; every other
\* command, and a finalize that has put the head back, is done.
SwapIn ==
  /\ pc = "swap_in"
  /\ main = Missing
  /\ main' = versions[mem.head]
  /\ IF job.cmd \notin {"finalize", "finalize_keep"} THEN End("ok")
     ELSE IF job.status = "delivered" THEN End("finalized")
     ELSE Goto("deliver") /\ UNCHANGED <<job, mem>>
  /\ UNCHANGED <<versions, log, evidence, saved>>

\* A main/ that came back between the two renames stops the second one.
SwapBlocked ==
  /\ pc = "swap_in"
  /\ main # Missing
  /\ End("stopped")
  /\ UNCHANGED disk

-----------------------------------------------------------------------------
(* The world outside the command.                                          *)

\* The agent writes to main/.
EditMain ==
  /\ pc \in EditsAt
  /\ main' \in Content \ {main}
  /\ outcome' = "none"
  /\ UNCHANGED <<versions, log, evidence, saved, pc, job, mem>>

\* The command is killed between two writes.
Stop ==
  /\ pc # "idle"
  /\ End("stopped")
  /\ UNCHANGED disk

\* The blocks a killed append can leave: it stopped before the status line
\* (with or without the parent line), or before the score line.
TornBlocks(whole) ==
  {[status |-> "torn", parent |-> None, lines |-> {}],
   [status |-> "torn", parent |-> whole.parent, lines |-> {}],
   [whole EXCEPT !.lines = {}]}

\* The command is killed inside the append of a block.
StopInAppend ==
  /\ \/ /\ pc = "append"
        /\ \E b \in TornBlocks(CandidateBlock) :
             log' = [log EXCEPT ![job.version] = b]
     \/ /\ pc = "repair"
        /\ \E v \in Blockless : \E b \in TornBlocks(RepairedBlock(v)) :
             /\ NextRepair(v)
             /\ log' = [log EXCEPT ![v] = b]
     \/ /\ pc = "init_log"
        /\ log[First].status = "absent"
        /\ \E b \in TornBlocks(NewBlock("baseline", None)) :
             log' = [log EXCEPT ![First] = b]
  /\ End("stopped")
  /\ UNCHANGED <<main, versions, evidence, saved>>
=============================================================================
