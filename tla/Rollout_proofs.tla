---------------------------- MODULE Rollout_proofs ----------------------------
(***************************************************************************)
(* Lemmas about the operators of Rollout that the proofs about both modes  *)
(* of the helper rest on: the types of what is written, how a command      *)
(* starts, and what its appends and its adoptions leave alone.             *)
(***************************************************************************)
EXTENDS Rollout, TLAPS

\* What the proofs use of the version numbers and of the tree constants.
LEMMA Constants ==
  /\ None \notin Versions
  /\ First \in Versions
  /\ Versions \subseteq Int
  /\ \A v \in Versions : 0 <= v
  /\ Missing \notin Tree /\ Unhashable \notin Tree /\ NoScore \notin Tree
  /\ Missing # Unhashable /\ NoScore # Missing /\ NoScore # Unhashable
BY RolloutAssumption DEF Versions, None, First

\* The empty records are well typed.
LEMMA BlankType == Blank \in State /\ NoJob \in Job /\ NoBlock \in Block
<1>1. Blank \in State
  <2>1. [v \in Versions |-> Missing] \in [Versions -> Tree \cup {Missing}]
    OBVIOUS
  <2>2. [v \in Versions |-> None] \in [Versions -> VersionOrNone]
    BY DEF VersionOrNone
  <2>3. NoIntent \in Intent
    BY DEF NoIntent, Intent, VersionOrNone
  <2>. QED BY <2>1, <2>2, <2>3 DEF Blank, State, VersionOrNone
<1>2. NoJob \in Job
  BY DEF NoJob, Job, Commands, Content, VersionOrNone
<1>3. NoBlock \in Block
  BY DEF NoBlock, Block, Statuses, VersionOrNone
<1>. QED BY <1>1, <1>2, <1>3

\* Updates of one block keep the log well typed.
LEMMA LogType ==
  ASSUME NEW l \in [Versions -> Block], NEW v
  PROVE  /\ \A b \in Block : [l EXCEPT ![v] = b] \in [Versions -> Block]
         /\ \A st \in Statuses : [l EXCEPT ![v].status = st] \in [Versions -> Block]
         /\ \A x \in SUBSET Line : [l EXCEPT ![v].lines = @ \cup x] \in [Versions -> Block]
BY DEF Block

\* A line of a known kind, appended wherever the log ends.
LEMMA AppendLineType ==
  ASSUME log \in [Versions -> Block], NEW k \in LineKinds, NEW v \in Versions, AppendLine(k, v)
  PROVE  log' \in [Versions -> Block]
<1>1. [kind |-> k, of |-> v] \in Line
  BY DEF Line
<1>2. {[kind |-> k, of |-> v]} \in SUBSET Line
  BY <1>1
<1>3. PICK b \in Versions : log' = [log EXCEPT ![b].lines = @ \cup {[kind |-> k, of |-> v]}]
  BY DEF AppendLine
<1>. QED BY <1>2, <1>3, LogType

\* What the fields of a well-typed state are, and that a change of one keeps it.
LEMMA StateType ==
  ASSUME NEW s \in State
  PROVE  /\ s.head \in VersionOrNone /\ s.pending \in VersionOrNone
         /\ s.intent.version \in VersionOrNone /\ s.intent.parent \in VersionOrNone
         /\ s.digests \in [Versions -> Tree \cup {Missing}]
         /\ s.parents \in [Versions -> VersionOrNone]
BY DEF State, Intent

\* The parent a repaired block is given.
LEMMA RepairParentType == ASSUME mem \in State, NEW v PROVE RepairParent(v) \in VersionOrNone
BY StateType DEF RepairParent

\* The blocks load_state writes, and the ones a killed append leaves.
LEMMA BlockType ==
  ASSUME mem \in State, NEW v \in Versions
  PROVE  /\ CandidateBlock \in Block
         /\ NewBlock("baseline", None) \in Block
         /\ RepairedBlock(v) \in Block
<1>1. [kind |-> "unmeasured", of |-> v] \in Line
  BY DEF Line, LineKinds
<1>. QED BY <1>1, StateType, RepairParentType
         DEF CandidateBlock, NewBlock, RepairedBlock, Block, Statuses, VersionOrNone

\* The blocks a killed append leaves.
LEMMA TornType ==
  ASSUME NEW w \in Block
  PROVE  \A b \in TornBlocks(w) : b \in Block /\ b.status \in {"torn", w.status}
BY DEF TornBlocks, Block, Statuses, VersionOrNone

\* The job of a command that starts.
LEMMA StartType ==
  ASSUME NEW cmd \in Commands, NEW v \in VersionOrNone,
         NEW st \in {"none", "kept", "reverted"}, NEW opt \in Options \cup {FALSE},
         Start(cmd, v, st, opt)
  PROVE  job' \in Job
BY BlankType, RolloutAssumption DEF Start, Job

\* The commands an agent can start, and the arguments each is given.
LEMMA StartForm ==
  ASSUME StartCommand
  PROVE  \E cmd \in Commands, v \in VersionOrNone, st \in {"none", "kept", "reverted"},
            opt \in Options \cup {FALSE} :
            /\ Start(cmd, v, st, opt)
            /\ cmd \in {"decide", "restore"} => v \in Versions
            /\ cmd = "decide" => st \in {"kept", "reverted"}
<1>. DEFINE Form == \E cmd \in Commands, v \in VersionOrNone, st \in {"none", "kept", "reverted"},
                       opt \in Options \cup {FALSE} :
                       /\ Start(cmd, v, st, opt)
                       /\ cmd \in {"decide", "restore"} => v \in Versions
                       /\ cmd = "decide" => st \in {"kept", "reverted"}
<1>1. CASE \E opt \in Options : Start("init", None, "none", opt)
  BY <1>1 DEF Commands, VersionOrNone
<1>2. ASSUME NEW cmd \in {"evaluate", "evaluate_from", "status", "finalize"},
             Start(cmd, None, "none", FALSE)
      PROVE  Form
  BY <1>2 DEF Commands, VersionOrNone
<1>3. ASSUME NEW v \in Versions, NEW st \in {"kept", "reverted"}, NEW opt \in Options,
             Start("decide", v, st, opt)
      PROVE  Form
  BY <1>3 DEF Commands, VersionOrNone
<1>4. ASSUME NEW v \in Versions, Start("restore", v, "none", FALSE)
      PROVE  Form
  BY <1>4 DEF Commands, VersionOrNone
<1>5. ASSUME NEW v \in Versions, Start("finalize_keep", v, "none", FALSE)
      PROVE  Form
  BY <1>5 DEF Commands, VersionOrNone
<1>. HIDE DEF Form
<1>6. Form
  BY <1>1, <1>2, <1>3, <1>4, <1>5 DEF StartCommand, Form
<1>. QED BY <1>6 DEF Form

\* A command starts by reading the state, or, for the first init, without one.
LEMMA StartCases ==
  ASSUME StartCommand
  PROVE  /\ pc = "idle" /\ UNCHANGED <<main, versions, log, evidence, saved, mem>>
         /\ outcome' = "none" /\ job' \in Job
         /\ job'.cmd # "none"
         /\ job'.cmd \in {"decide", "restore"} => job'.version \in Versions
         /\ job'.cmd = "decide" => job'.status \in {"kept", "reverted"}
         /\ \/ pc' = "load"
            \/ pc' = "init" /\ ~Initialized /\ job'.cmd = "init"
<1>. PICK cmd \in Commands, v \in VersionOrNone, st \in {"none", "kept", "reverted"},
          opt \in Options \cup {FALSE} :
          /\ Start(cmd, v, st, opt)
          /\ cmd \in {"decide", "restore"} => v \in Versions
          /\ cmd = "decide" => st \in {"kept", "reverted"}
  BY StartForm
<1>1. job' = [NoJob EXCEPT !.cmd = cmd, !.version = v, !.status = st, !.opt = opt]
  BY DEF Start
<1>2. job' \in Job
  BY StartType
<1>. QED BY <1>1, <1>2 DEF Start, disk, Commands, NoJob

\* An appended line changes no status and no parent.
LEMMA AppendLineKeeps ==
  ASSUME log \in [Versions -> Block], NEW k, NEW w, AppendLine(k, w)
  PROVE  \A v \in Versions : log'[v].status = log[v].status /\ log'[v].parent = log[v].parent
BY DEF AppendLine, Block

\* What load_state adopts depends on the saved state and the snapshots only.
LEMMA AdoptingFrame ==
  ASSUME UNCHANGED <<saved, versions>>
  PROVE  /\ Unknown(saved)' = Unknown(saved)
         /\ AdoptedPending(saved)' = AdoptedPending(saved)
         /\ Broken' = Broken
BY DEF AdoptedPending, Unknown, Snapshots, Broken
=============================================================================
