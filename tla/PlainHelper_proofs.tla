-------------------------- MODULE PlainHelper_proofs --------------------------
(***************************************************************************)
(* What holds of the plain helper for every set of trees, every number of  *)
(* versions, every choice of commands, with edits at any place in them.    *)
(***************************************************************************)
EXTENDS PlainHelperInv, Rollout_proofs, FiniteSetTheorems

\* The initial states are well typed.
LEMMA InitType == RolloutInit => TypeOK
BY BlankType, Constants DEF RolloutInit, TypeOK, Content, Labels, Outcomes

\* Past load_state the command holds the saved state of an initialized rollout.
LEMMA PastLoad ==
  ASSUME TypeOK, MemInv, pc \notin Unread \cup Opening \cup {"repair"}
  PROVE  mem = saved /\ saved.head \in Versions
BY StateType DEF TypeOK, MemInv, Initialized, VersionOrNone

\* Every step of the system keeps the variables in their ranges.
LEMMA TypeStep == ASSUME TypeOK, JobInv, MemInv, [Next]_vars PROVE TypeOK'
<1>. USE Constants, BlankType DEF TypeOK, Labels, Goto, End, Outcomes, disk
<1>0. CASE StartCommand
  BY <1>0, StartCases
<1>1. CASE Load
  <2>. PICK p \in AdoptedPending(saved) :
         mem' = [saved EXCEPT
                   !.pending = p,
                   !.digests = [v \in Versions |-> IF v \in Unknown(saved) \ Broken
                                                   THEN versions[v] ELSE saved.digests[v]]]
    BY <1>1 DEF Load
  <2>1. p \in VersionOrNone
    BY StateType DEF AdoptedPending, Unknown, Snapshots, VersionOrNone
  <2>2. ASSUME NEW v \in Unknown(saved) \ Broken PROVE versions[v] \in Tree
    BY <2>2 DEF Broken, Unknown, Snapshots, Content
  <2>3. [v \in Versions |-> IF v \in Unknown(saved) \ Broken THEN versions[v] ELSE saved.digests[v]]
          \in [Versions -> Tree \cup {Missing}]
    BY <2>2, StateType
  <2>4. mem' \in State
    BY <2>1, <2>3 DEF State
  <2>. QED BY SMTT(30), <1>1, <2>4 DEF Load
<1>2. CASE RepairBlock
  <2>. PICK v \in Blockless :
         /\ log' = [log EXCEPT ![v] = RepairedBlock(v)]
         /\ mem' = IF mem.parents[v] = None
                   THEN [mem EXCEPT !.parents[v] = RepairParent(v)] ELSE mem
    BY <1>2 DEF RepairBlock
  <2>1. v \in Versions
    BY DEF Blockless, Snapshots
  <2>2. log' \in [Versions -> Block]
    BY <2>1, BlockType, LogType
  <2>3. mem' \in State
    BY RepairParentType DEF State
  <2>. QED BY <1>2, <2>2, <2>3 DEF RepairBlock
<1>3. CASE RepairStatus
  <2>. PICK v \in Torn : SetStatus(v, "reverted")
    BY <1>3 DEF RepairStatus
  <2>1. log' \in [Versions -> Block]
    BY LogType DEF SetStatus, Statuses
  <2>. QED BY <1>3, <2>1 DEF RepairStatus
<1>4. CASE RepairHead
  <2>1. log' \in [Versions -> Block]
    BY <1>4, LogType DEF RepairHead, SetStatus, HeadStatus, Statuses
  <2>. QED BY <1>4, <2>1 DEF RepairHead
<1>5. CASE LoadDone
  <2>1. mem' \in State
    BY <1>5 DEF LoadDone, State, NoIntent, Intent, VersionOrNone
  <2>2. job.cmd \in Labels
    BY <1>5 DEF LoadDone, JobInv, Job, Commands
  <2>. QED BY <1>5, <2>1, <2>2 DEF LoadDone
<1>6. CASE InitFresh
  <2>1. job' \in Job
    BY <1>6 DEF InitFresh, Job, VersionOrNone, Content
  <2>. QED BY <1>6, <2>1 DEF InitFresh
<1>7. CASE InitResume
  <2>1. job' \in Job
    BY <1>7 DEF InitResume, Job, VersionOrNone, Content
  <2>. QED BY <1>7, <2>1 DEF InitResume
<1>8. CASE InitLog
  <2>1. log' \in [Versions -> Block]
    BY <1>8, LogType, BlockType DEF InitLog, Statuses
  <2>. QED BY <1>8, <2>1 DEF InitLog
<1>9. CASE InitSave
  <2>1. mem' \in State
    BY <1>9 DEF InitSave, State, JobInv, VersionOrNone
  <2>. QED BY <1>9, <2>1 DEF InitSave
<1>10. CASE InitMeasure
  <2>1. job' \in Job
    BY <1>10 DEF InitMeasure, Job, VersionOrNone
  <2>. QED BY <1>10, <2>1 DEF InitMeasure
<1>11. CASE PlaceCandidate
  BY <1>11 DEF PlaceCandidate, Content
<1>12. CASE NothingNew
  BY <1>12 DEF NothingNew
<1>13. CASE SaveIntent
  <2>1. mem' \in State
    BY <1>13 DEF SaveIntent, State, Intent, VersionOrNone
  <2>2. job' \in Job
    <3>1. PICK v \in Versions : job' = [job EXCEPT !.version = v, !.tree = main]
      BY <1>13 DEF SaveIntent
    <3>. QED BY <3>1 DEF Job, VersionOrNone
  <2>. QED BY <1>13, <2>1, <2>2 DEF SaveIntent
<1>14. CASE StageSnapshot
  <2>1. job' \in Job
    BY <1>14 DEF StageSnapshot, Job
  <2>. QED BY <1>14, <2>1 DEF StageSnapshot
<1>15. CASE CommitSnapshot
  <2>1. versions' \in [Versions -> Content]
    BY <1>15 DEF CommitSnapshot, Job
  <2>. QED BY <1>15, <2>1 DEF CommitSnapshot
<1>16. CASE AppendBlock
  <2>1. log' \in [Versions -> Block]
    BY <1>16, LogType, BlockType DEF AppendBlock
  <2>. QED BY <1>16, <2>1 DEF AppendBlock
<1>17. CASE SaveCandidate
  <2>1. job.version \in Versions /\ job.tree \in Tree
    BY <1>17 DEF SaveCandidate, JobInv, Registering
  <2>2. NoIntent \in Intent
    BY DEF NoIntent, Intent, VersionOrNone
  <2>3. mem' = [mem EXCEPT !.pending = job.version, !.intent = NoIntent,
                           !.digests[job.version] = job.tree, !.parents[job.version] = mem.head]
    BY <1>17 DEF SaveCandidate
  <2>4. mem' \in State
    BY <2>1, <2>2, <2>3 DEF State, VersionOrNone
  <2>. QED BY <1>17, <2>4 DEF SaveCandidate
<1>18. CASE Measure
  <2>1. evidence' \in [Versions -> Tree \cup {Missing, NoScore}]
    BY <1>18 DEF Measure
  <2>. QED BY <1>18, <2>1 DEF Measure
<1>19. CASE Score
  <2>1. job.version \in Versions
    BY <1>19 DEF Score, JobInv
  <2>2. log' \in [Versions -> Block]
    BY <1>19, <2>1, AppendLineType DEF Score, LineKinds
  <2>. QED BY <1>19, <2>2 DEF Score
<1>20. CASE DecideKept
  BY <1>20 DEF DecideKept
<1>21. CASE DecideReverted
  <2>1. job.version \in Versions
    BY <1>21 DEF DecideReverted, JobInv
  <2>2. log' \in [Versions -> Block]
    BY <1>21, <2>1, AppendLineType DEF DecideReverted, LineKinds
  <2>. QED BY <1>21, <2>2 DEF DecideReverted
<1>22. CASE SaveDecision
  <2>1. mem' \in State
    BY <1>22 DEF SaveDecision, State, VersionOrNone, JobInv
  <2>. QED BY <1>22, <2>1 DEF SaveDecision
<1>23. CASE SetDecidedStatus
  <2>1. job.status \in Statuses
    BY <1>23 DEF SetDecidedStatus, JobInv, Statuses
  <2>2. log' \in [Versions -> Block]
    BY <1>23, <2>1, LogType DEF SetDecidedStatus, SetStatus
  <2>. QED BY <1>23, <2>2 DEF SetDecidedStatus, AfterStatus
<1>24. CASE AppendNote
  <2>1. job.version \in Versions
    BY <1>24 DEF AppendNote, JobInv
  <2>2. log' \in [Versions -> Block]
    BY <1>24, <2>1, AppendLineType DEF AppendNote, LineKinds
  <2>. QED BY <1>24, <2>2 DEF AppendNote, AfterStatus
<1>25. CASE Restore
  <2>1. mem' \in State
    BY <1>25 DEF Restore, State, Job
  <2>. QED BY <1>25, <2>1 DEF Restore
<1>26. CASE FinalizePending
  <2>1. job' \in Job
    BY <1>26, StateType DEF FinalizePending, Job
  <2>. QED BY <1>26, <2>1 DEF FinalizePending
<1>27. CASE FinalizeSettled
  BY <1>27 DEF FinalizeSettled
<1>28. CASE Deliver
  <2>1. job' \in Job
    BY <1>28 DEF Deliver, Job
  <2>. QED BY <1>28, <2>1 DEF Deliver
<1>29. CASE SwapOut
  BY <1>29 DEF SwapOut, Content
<1>30. CASE SwapIn
  <2>1. main' \in Content
    BY <1>30, PastLoad DEF SwapIn, Unread, Opening
  <2>. QED BY <1>30, <2>1 DEF SwapIn
<1>31. CASE SwapBlocked
  BY <1>31 DEF SwapBlocked
<1>32. CASE Status
  BY <1>32 DEF Status
<1>33. CASE Refuse
  BY <1>33 DEF Refuse
<1>34. CASE EditMain
  BY <1>34 DEF EditMain
<1>35. CASE Stop
  BY <1>35 DEF Stop
<1>36. CASE StopInAppend
  <2>1. log' \in [Versions -> Block]
    BY <1>36, LogType, BlockType, TornType DEF StopInAppend, Blockless, Snapshots
  <2>. QED BY <1>36, <2>1 DEF StopInAppend
<1>37. CASE UNCHANGED vars
  BY <1>37 DEF vars
<1>. QED
  BY <1>0, <1>1, <1>2, <1>3, <1>4, <1>5, <1>6, <1>7, <1>8, <1>9, <1>10, <1>11, <1>12,
     <1>13, <1>14, <1>15, <1>16, <1>17, <1>18, <1>19, <1>20, <1>21, <1>22, <1>23, <1>24,
     <1>25, <1>26, <1>27, <1>28, <1>29, <1>30, <1>31, <1>32, <1>33, <1>34, <1>35, <1>36,
     <1>37 DEF Next, Step

\* Which actions write state.json, the snapshots and the log: all others leave them.
LEMMA Frame ==
  ASSUME [Next]_vars
  PROVE  /\ \/ saved' = saved
            \/ LoadDone \/ InitSave \/ SaveIntent \/ SaveCandidate \/ SaveDecision \/ Restore
         /\ versions' = versions \/ CommitSnapshot
         /\ \/ log' = log
            \/ RepairBlock \/ RepairStatus \/ RepairHead \/ InitLog \/ AppendBlock \/ Score
            \/ DecideReverted \/ SetDecidedStatus \/ AppendNote \/ StopInAppend
<1>. USE DEF disk
<1>0. CASE StartCommand
  BY <1>0, StartCases
<1>1. CASE Load
  BY <1>1 DEF Load
<1>2. CASE RepairBlock
  BY <1>2 DEF RepairBlock
<1>3. CASE RepairStatus
  BY <1>3 DEF RepairStatus
<1>4. CASE RepairHead
  BY <1>4 DEF RepairHead
<1>5. CASE LoadDone
  BY <1>5 DEF LoadDone
<1>6. CASE InitFresh
  BY <1>6 DEF InitFresh
<1>7. CASE InitResume
  BY <1>7 DEF InitResume
<1>8. CASE InitLog
  BY <1>8 DEF InitLog
<1>9. CASE InitSave
  BY <1>9 DEF InitSave
<1>10. CASE InitMeasure
  BY <1>10 DEF InitMeasure
<1>11. CASE PlaceCandidate
  BY <1>11 DEF PlaceCandidate
<1>12. CASE NothingNew
  BY <1>12 DEF NothingNew
<1>13. CASE SaveIntent
  BY <1>13 DEF SaveIntent
<1>14. CASE StageSnapshot
  BY <1>14 DEF StageSnapshot
<1>15. CASE CommitSnapshot
  BY <1>15 DEF CommitSnapshot
<1>16. CASE AppendBlock
  BY <1>16 DEF AppendBlock
<1>17. CASE SaveCandidate
  BY <1>17 DEF SaveCandidate
<1>18. CASE Measure
  BY <1>18 DEF Measure
<1>19. CASE Score
  BY <1>19 DEF Score
<1>20. CASE DecideKept
  BY <1>20 DEF DecideKept
<1>21. CASE DecideReverted
  BY <1>21 DEF DecideReverted
<1>22. CASE SaveDecision
  BY <1>22 DEF SaveDecision
<1>23. CASE SetDecidedStatus
  BY <1>23 DEF SetDecidedStatus
<1>24. CASE AppendNote
  BY <1>24 DEF AppendNote
<1>25. CASE Restore
  BY <1>25 DEF Restore
<1>26. CASE FinalizePending
  BY <1>26 DEF FinalizePending
<1>27. CASE FinalizeSettled
  BY <1>27 DEF FinalizeSettled
<1>28. CASE Deliver
  BY <1>28 DEF Deliver
<1>29. CASE SwapOut
  BY <1>29 DEF SwapOut
<1>30. CASE SwapIn
  BY <1>30 DEF SwapIn
<1>31. CASE SwapBlocked
  BY <1>31 DEF SwapBlocked
<1>32. CASE Status
  BY <1>32 DEF Status
<1>33. CASE Refuse
  BY <1>33 DEF Refuse
<1>34. CASE EditMain
  BY <1>34 DEF EditMain
<1>35. CASE Stop
  BY <1>35 DEF Stop
<1>36. CASE StopInAppend
  BY <1>36 DEF StopInAppend
<1>37. CASE UNCHANGED vars
  BY <1>37 DEF vars
<1>. QED
  BY <1>0, <1>1, <1>2, <1>3, <1>4, <1>5, <1>6, <1>7, <1>8, <1>9, <1>10, <1>11, <1>12, <1>13, <1>14, <1>15, <1>16, <1>17, <1>18, <1>19, <1>20, <1>21, <1>22, <1>23, <1>24, <1>25, <1>26, <1>27, <1>28, <1>29, <1>30, <1>31, <1>32, <1>33, <1>34, <1>35, <1>36, <1>37 DEF Next, Step

\* What load_state makes pending: what was, or a snapshot the state did not know.
LEMMA Adopted ==
  ASSUME TypeOK, NEW p \in AdoptedPending(saved)
  PROVE  p = saved.pending \/ (saved.pending = None /\ p \in Unknown(saved) \ {saved.head})
BY DEF AdoptedPending

\* What load_state saves.
LEMMA LoadSaves ==
  ASSUME TypeOK, MemInv, LoadDone
  PROVE  /\ saved.head # None /\ saved'.head = saved.head
         /\ saved'.pending \in AdoptedPending(saved)
         /\ \/ saved'.pending = saved.pending
            \/ saved.pending = None /\ saved'.pending \in Unknown(saved) \ {saved.head}
         /\ \A v \in Versions :
              saved'.digests[v] = IF v \in Unknown(saved) THEN versions[v] ELSE saved.digests[v]
<1>1. /\ saved.head # None /\ mem.head = saved.head
      /\ mem.pending \in AdoptedPending(saved)
      /\ \A v \in Versions :
           mem.digests[v] = IF v \in Unknown(saved) THEN versions[v] ELSE saved.digests[v]
  BY DEF LoadDone, MemInv, Adopting, Unread, Opening, Initialized
<1>2. saved'.head = mem.head /\ saved'.pending = mem.pending /\ saved'.digests = mem.digests
  BY DEF TypeOK, LoadDone, State
<1>. QED BY <1>1, <1>2, Adopted

LEMMA SavedStep == ASSUME TypeOK, LedgerInv, [Next]_vars PROVE SavedInv'
<1>. USE Constants, StateType DEF TypeOK, LedgerInv, SavedInv
<1>1. CASE UNCHANGED <<saved, versions>>
  BY <1>1
<1>2. CASE CommitSnapshot
  BY <1>2 DEF CommitSnapshot, JobInv
<1>3. CASE LoadDone
  <2>1. \A v \in Versions : saved'.digests[v] # Missing => versions[v] # Missing
    BY <1>3, LoadSaves DEF Unknown, Snapshots
  <2>2. saved'.digests[First] # Missing /\ saved'.digests[saved.head] # Missing
    BY <1>3, LoadSaves DEF Unknown, Snapshots, VersionOrNone
  <2>3. saved'.pending # None => saved'.digests[saved'.pending] # Missing
    BY <1>3, LoadSaves DEF Unknown, Snapshots, VersionOrNone
  <2>4. saved'.pending # First /\ saved'.pending # saved.head
    BY <1>3, LoadSaves DEF Unknown
  <2>. QED BY <1>3, <2>1, <2>2, <2>3, <2>4, LoadSaves DEF LoadDone
<1>4. CASE InitSave
  BY <1>4 DEF InitSave, JobInv, Blank
<1>5. CASE SaveIntent
  BY <1>5, PastLoad DEF SaveIntent, State, Unread, Opening
<1>6. CASE SaveCandidate
  BY <1>6, PastLoad DEF SaveCandidate, State, Unread, Opening, JobInv, Registering, UnknownInv, Unknown, Snapshots
<1>7. CASE SaveDecision
  BY <1>7, PastLoad DEF SaveDecision, State, Unread, Opening, JobInv
<1>8. CASE Restore
  BY <1>8, PastLoad DEF Restore, State, Unread, Opening, JobInv, UnknownInv, Unknown
<1>. QED BY <1>1, <1>2, <1>3, <1>4, <1>5, <1>6, <1>7, <1>8, Frame

\* The rename of a staged copy adds one snapshot, which the state does not know.
LEMMA CommitEffect ==
  ASSUME TypeOK, SavedInv, JobInv, CommitSnapshot
  PROVE  /\ job.version \in Versions /\ versions[job.version] = Missing
         /\ UNCHANGED <<saved, job, log>>
         /\ saved.digests[job.version] = Missing
         /\ Snapshots' = Snapshots \cup {job.version}
         /\ Unknown(saved)' = Unknown(saved) \cup {job.version}
<1>. USE DEF TypeOK
<1>1. /\ job.version \in Versions /\ versions[job.version] = Missing
      /\ versions'[job.version] # Missing
      /\ \A v \in Versions \ {job.version} : versions'[v] = versions[v]
      /\ UNCHANGED <<saved, job, log>>
  BY DEF CommitSnapshot, JobInv, Registering
<1>2. saved.digests[job.version] = Missing
  BY SMTT(30), <1>1 DEF SavedInv
<1>. QED BY <1>1, <1>2 DEF Snapshots, Unknown

LEMMA UnknownStep == ASSUME TypeOK, LedgerInv, [Next]_vars PROVE UnknownInv'
<1>. USE Constants, StateType DEF TypeOK, LedgerInv, UnknownInv, Unread, Unknown, Snapshots, Initialized,
       Goto, End, disk
<1>0. CASE StartCommand
  <2>1. UNCHANGED <<saved, versions>> /\ pc' \in {"load", "init"} /\ (Initialized => pc' = "load")
    BY <1>0, StartCases
  <2>. QED BY <2>1
<1>1. CASE Load
  BY <1>1 DEF Load
<1>2. CASE RepairBlock
  BY <1>2 DEF RepairBlock
<1>3. CASE RepairStatus
  BY <1>3 DEF RepairStatus
<1>4. CASE RepairHead
  BY <1>4 DEF RepairHead
<1>5. CASE LoadDone
  <2>1. Unknown(saved)' = {} /\ Initialized' /\ UNCHANGED versions
    BY <1>5, LoadSaves DEF LoadDone
  <2>2. pc' \notin {"append", "save"}
    BY <1>5 DEF LoadDone, Job, Commands
  <2>. QED BY <2>1, <2>2
<1>6. CASE InitFresh
  BY <1>6 DEF InitFresh
<1>7. CASE InitResume
  BY <1>7 DEF InitResume
<1>8. CASE InitLog
  BY <1>8 DEF InitLog
<1>9. CASE InitSave
  <2>1. /\ Snapshots \subseteq {First} /\ job.tree \in Tree /\ UNCHANGED versions
        /\ pc' = "init_measure"
    BY <1>9 DEF InitSave, JobInv
  <2>2. saved'.head = First /\ saved'.pending = None /\ saved'.digests[First] # Missing
    BY <1>9, <2>1 DEF InitSave, Blank
  <2>. QED BY <2>1, <2>2
<1>10. CASE InitMeasure
  BY <1>10 DEF InitMeasure
<1>11. CASE PlaceCandidate
  BY <1>11 DEF PlaceCandidate
<1>12. CASE NothingNew
  BY <1>12 DEF NothingNew
<1>13. CASE SaveIntent
  <2>1. saved'.digests = saved.digests /\ saved'.head = saved.head /\ saved'.pending = saved.pending
    BY <1>13, PastLoad DEF SaveIntent, State, Opening
  <2>. QED BY <1>13, <2>1 DEF SaveIntent
<1>14. CASE StageSnapshot
  BY <1>14 DEF StageSnapshot
<1>15. CASE CommitSnapshot
  <2>1. job.version \in Versions /\ versions[job.version] = Missing /\ UNCHANGED <<saved, job>>
    BY <1>15, CommitEffect
  <2>3. Snapshots' = Snapshots \cup {job.version} /\ Unknown(saved)' = Unknown(saved) \cup {job.version}
    BY <1>15, CommitEffect DEF SavedInv
  <2>4. CASE Initialized
    <3>1. pc' = "append" /\ saved.pending = None /\ Unknown(saved) = {}
      BY <1>15, <2>4 DEF CommitSnapshot, JobInv, Registering
    <3>. QED BY <2>1, <2>3, <2>4, <3>1
  <2>5. CASE ~Initialized
    <3>1. pc' = "init_log" /\ saved.pending = None /\ job.version = First
      BY <1>15, <2>5 DEF CommitSnapshot, JobInv, Registering, OpeningNow, Opening, SavedInv, Blank
    <3>. QED BY <2>1, <2>3, <2>5, <3>1
  <2>. QED BY <2>4, <2>5
<1>16. CASE AppendBlock
  BY <1>16 DEF AppendBlock
<1>17. CASE SaveCandidate
  <2>1. /\ mem = saved /\ job.version \in Versions /\ job.tree \in Tree
        /\ Unknown(saved) = {job.version}
    BY <1>17, PastLoad DEF SaveCandidate, JobInv, Registering, Opening
  <2>2. /\ saved'.digests = [saved.digests EXCEPT ![job.version] = job.tree]
        /\ saved'.head = saved.head /\ UNCHANGED versions
    BY <1>17, <2>1 DEF SaveCandidate, State
  <2>3. Unknown(saved)' = {}
    BY <2>1, <2>2
  <2>. QED BY <1>17, <2>2, <2>3, PastLoad DEF SaveCandidate, Opening
<1>18. CASE Measure
  BY <1>18 DEF Measure
<1>19. CASE Score
  BY <1>19 DEF Score
<1>20. CASE DecideKept
  BY <1>20 DEF DecideKept
<1>21. CASE DecideReverted
  BY <1>21 DEF DecideReverted
<1>22. CASE SaveDecision
  <2>1. /\ saved'.digests = saved.digests /\ Unknown(saved) = {}
        /\ Initialized /\ UNCHANGED versions /\ pc' \notin {"append", "save"}
    BY <1>22, PastLoad DEF SaveDecision, State, Opening
  <2>2. Initialized'
    BY <1>22, PastLoad DEF SaveDecision, State, Opening, JobInv
  <2>3. Unknown(saved)' = {}
    BY <2>1
  <2>. QED BY <2>1, <2>2, <2>3
<1>23. CASE SetDecidedStatus
  <2>1. UNCHANGED <<saved, versions>> /\ pc' \in {"note", "swap", "deliver", "idle"}
    BY <1>23 DEF SetDecidedStatus, AfterStatus
  <2>. QED BY <1>23, <2>1 DEF SetDecidedStatus
<1>24. CASE AppendNote
  <2>1. UNCHANGED <<saved, versions>> /\ pc' \in {"note", "swap", "deliver", "idle"}
    BY <1>24 DEF AppendNote, AfterStatus
  <2>. QED BY <1>24, <2>1 DEF AppendNote
<1>25. CASE Restore
  <2>1. /\ saved'.digests = saved.digests /\ Unknown(saved) = {}
        /\ Initialized /\ UNCHANGED versions /\ pc' \notin {"append", "save"}
    BY <1>25, PastLoad DEF Restore, State, Opening
  <2>2. Initialized'
    BY <1>25, PastLoad DEF Restore, State, Opening, JobInv
  <2>3. Unknown(saved)' = {}
    BY <2>1
  <2>. QED BY <2>1, <2>2, <2>3
<1>26. CASE FinalizePending
  <2>1. UNCHANGED <<saved, versions>> /\ pc' \in {"decide", "deliver"}
        /\ pc \in {"finalize", "finalize_keep"}
    BY <1>26 DEF FinalizePending, Finalizing
  <2>. QED BY <2>1
<1>27. CASE FinalizeSettled
  <2>1. UNCHANGED <<saved, versions>> /\ pc' \in {"decide", "deliver"}
        /\ pc \in {"finalize", "finalize_keep"}
    BY <1>27 DEF FinalizeSettled, Finalizing
  <2>. QED BY <2>1
<1>28. CASE Deliver
  BY <1>28 DEF Deliver
<1>29. CASE SwapOut
  BY <1>29 DEF SwapOut
<1>30. CASE SwapIn
  BY <1>30 DEF SwapIn
<1>31. CASE SwapBlocked
  BY <1>31 DEF SwapBlocked
<1>32. CASE Status
  BY <1>32 DEF Status
<1>33. CASE Refuse
  BY <1>33 DEF Refuse
<1>34. CASE EditMain
  BY <1>34 DEF EditMain
<1>35. CASE Stop
  BY <1>35 DEF Stop
<1>36. CASE StopInAppend
  BY <1>36 DEF StopInAppend
<1>37. CASE UNCHANGED vars
  BY <1>37 DEF vars
<1>. QED
  BY <1>0, <1>1, <1>2, <1>3, <1>4, <1>5, <1>6, <1>7, <1>8, <1>9, <1>10, <1>11, <1>12, <1>13, <1>14, <1>15, <1>16, <1>17, <1>18, <1>19, <1>20, <1>21, <1>22, <1>23, <1>24, <1>25, <1>26, <1>27, <1>28, <1>29, <1>30, <1>31, <1>32, <1>33, <1>34, <1>35, <1>36, <1>37 DEF Next, Step

\* What a kill inside an append leaves: a block, possibly without its status,
\* of a snapshot that is not endorsed, or the baseline block of an init.
LEMMA StopForm ==
  ASSUME TypeOK, LedgerInv, StopInAppend
  PROVE  \E v \in Versions, b \in Block :
          /\ log' = [log EXCEPT ![v] = b] /\ versions[v] # Missing
          /\ \/ Initialized /\ v # First /\ b.status \in {"torn", "reverted"}
                /\ log[v].status \notin {"kept", "baseline"}
             \/ ~Initialized /\ v = First /\ b.status \in {"torn", "baseline"}
<1>. USE Constants, StateType DEF TypeOK, LedgerInv, LogInv, Declared, Snapshots, Unknown, Initialized,
       Undecided, UndecidedNeverReadsKept, SavedInv
<1>1. CASE pc = "append"
  <2>1. PICK b \in TornBlocks(CandidateBlock) :
          log' = [log EXCEPT ![job.version] = b]
    BY <1>1 DEF StopInAppend
  <2>2. b \in Block /\ b.status \in {"torn", "reverted"}
    BY <2>1, TornType, BlockType, First \in Versions DEF CandidateBlock, NewBlock
  <2>3. job.version \in Versions /\ job.version # First /\ versions[job.version] # Missing /\ Initialized
    BY <1>1 DEF JobInv, UnknownInv, Registering, MemInv, Unread, Opening
  <2>4. log[job.version].status \notin {"kept", "baseline"}
    BY <1>1, <2>3 DEF UnknownInv
  <2>. QED BY <2>1, <2>2, <2>3, <2>4
<1>2. CASE pc = "repair"
  <2>. PICK v \in Blockless : \E b \in TornBlocks(RepairedBlock(v)) : log' = [log EXCEPT ![v] = b]
    BY <1>2 DEF StopInAppend
  <2>1. PICK b \in TornBlocks(RepairedBlock(v)) : log' = [log EXCEPT ![v] = b]
    OBVIOUS
  <2>2. b \in Block /\ b.status \in {"torn", "reverted"}
    BY <2>1, TornType, BlockType DEF RepairedBlock, Blockless
  <2>3. v \in Versions /\ v # First /\ versions[v] # Missing /\ Initialized
    BY <1>2 DEF Blockless, MemInv, Unread, Opening
  <2>4. log[v].status \notin {"kept", "baseline"}
    BY DEF Blockless
  <2>. QED BY <2>1, <2>2, <2>3, <2>4
<1>3. CASE pc = "init_log"
  <2>1. PICK b \in TornBlocks(NewBlock("baseline", None)) : log' = [log EXCEPT ![First] = b]
    BY <1>3 DEF StopInAppend
  <2>2. b \in Block /\ b.status \in {"torn", "baseline"}
    BY <2>1, TornType, BlockType DEF NewBlock
  <2>3. versions[First] # Missing /\ ~Initialized
    BY <1>3 DEF JobInv
  <2>. QED BY <2>1, <2>2, <2>3
<1>. QED BY <1>1, <1>2, <1>3 DEF StopInAppend

LEMMA LogStep == ASSUME TypeOK, LedgerInv, [Next]_vars PROVE LogInv'
<1>. USE Constants, StateType DEF TypeOK, LedgerInv, LogInv, Declared, Snapshots, Unknown, Initialized,
       Undecided, UndecidedNeverReadsKept, SavedInv
<1>1. CASE UNCHANGED <<saved, versions, log>>
  BY <1>1
<1>2. CASE LoadDone
  <2>1. UNCHANGED <<log, versions>> /\ Initialized
    BY <1>2, LoadSaves DEF LoadDone
  <2>2. Undecided' \subseteq Undecided
    BY <1>2, <2>1, LoadSaves
  <2>. QED BY <1>2, <2>1, <2>2, LoadSaves
<1>3. CASE InitSave
  BY <1>3 DEF InitSave, JobInv
<1>4. CASE SaveIntent
  BY <1>4, PastLoad DEF SaveIntent, State, Unread, Opening
<1>5. CASE SaveCandidate
  BY <1>5, PastLoad DEF SaveCandidate, State, Unread, Opening, JobInv, UnknownInv
<1>6. CASE SaveDecision
  BY <1>6, PastLoad DEF SaveDecision, State, Unread, Opening, JobInv, UnknownInv
<1>7. CASE Restore
  BY <1>7, PastLoad DEF Restore, State, Unread, Opening, JobInv, UnknownInv
<1>8. CASE CommitSnapshot
  BY <1>8 DEF CommitSnapshot, JobInv, Registering
<1>9. CASE RepairBlock
  BY <1>9 DEF RepairBlock, Blockless, RepairedBlock, MemInv, Adopting, Unread, Opening
<1>10. CASE RepairStatus
  BY <1>10 DEF RepairStatus, Torn, SetStatus, Block, MemInv, Adopting, Unread, Opening
<1>11. CASE RepairHead
  BY <1>11 DEF RepairHead, HeadStatus, SetStatus, Block, MemInv, Adopting, Unread, Opening, HeadReads
<1>12. CASE InitLog
  BY <1>12 DEF InitLog, JobInv, Block, NewBlock
<1>13. CASE AppendBlock
  BY <1>13 DEF AppendBlock, CandidateBlock, JobInv, Block, NewBlock, UnknownInv, MemInv, Unread, Opening
<1>14. CASE Score \/ DecideReverted \/ AppendNote
  <2>1. UNCHANGED <<saved, versions>>
    BY <1>14 DEF Score, DecideReverted, AppendNote
  <2>2. \A v \in Versions : log'[v].status = log[v].status
    BY <1>14, AppendLineKeeps DEF Score, DecideReverted, AppendNote
  <2>. QED BY <2>1, <2>2
<1>15. CASE SetDecidedStatus
  BY <1>15 DEF SetDecidedStatus, SetStatus, Block, JobInv, UnknownInv, MemInv, Unread, Opening
<1>16. CASE StopInAppend
  <2>1. \E v \in Versions, b \in Block :
          /\ log' = [log EXCEPT ![v] = b] /\ versions[v] # Missing
          /\ \/ Initialized /\ v # First /\ b.status \in {"torn", "reverted"}
             \/ ~Initialized /\ v = First /\ b.status \in {"torn", "baseline"}
    BY <1>16, StopForm
  <2>2. UNCHANGED <<saved, versions>> /\ Undecided' = Undecided
    BY <1>16 DEF StopInAppend
  <2>. QED BY <2>1, <2>2
<1>. QED
  BY <1>1, <1>2, <1>3, <1>4, <1>5, <1>6, <1>7, <1>8, <1>9, <1>10, <1>11, <1>12, <1>13, <1>14,
     <1>15, <1>16, Frame

LEMMA MemStep == ASSUME TypeOK, LedgerInv, [Next]_vars PROVE MemInv'
<1>. USE Constants, StateType DEF TypeOK, LedgerInv, MemInv, Unread, Opening, Initialized, Blank,
       Goto, End, disk
<1>0. CASE StartCommand
  <2>1. UNCHANGED <<saved, mem>> /\ pc = "idle"
    BY <1>0, StartCases
  <2>2. pc' = "load" \/ (pc' = "init" /\ ~Initialized)
    BY <1>0, StartCases
  <2>. QED BY <2>1, <2>2 DEF SavedInv
<1>1. CASE Load
  <2>1. UNCHANGED <<saved, versions>> /\ pc' = "repair" /\ Initialized
    BY <1>1 DEF Load
  <2>2. Adopting'
    BY <1>1, <2>1, AdoptingFrame DEF Load, Adopting, State
  <2>. QED BY <2>1, <2>2
<1>2. CASE RepairBlock
  <2>1. UNCHANGED <<saved, versions, pc>> /\ pc = "repair"
        /\ mem'.head = mem.head /\ mem'.pending = mem.pending /\ mem'.digests = mem.digests
    BY <1>2 DEF RepairBlock, State
  <2>. QED BY <2>1, AdoptingFrame DEF Adopting
<1>3. CASE RepairStatus
  <2>1. UNCHANGED <<saved, versions, pc, mem>> /\ pc = "repair"
    BY <1>3 DEF RepairStatus
  <2>. QED BY <2>1, AdoptingFrame DEF Adopting
<1>4. CASE RepairHead
  <2>1. UNCHANGED <<saved, versions, pc, mem>> /\ pc = "repair"
    BY <1>4 DEF RepairHead
  <2>. QED BY <2>1, AdoptingFrame DEF Adopting
<1>5. CASE LoadDone
  <2>1. pc' = job.cmd /\ job.cmd \in Commands /\ mem' = saved'
    BY <1>5 DEF LoadDone, Job, JobInv
  <2>2. Initialized'
    BY <1>5, LoadSaves
  <2>. QED BY <2>1, <2>2 DEF Commands
<1>6. CASE InitFresh
  BY <1>6 DEF InitFresh
<1>7. CASE InitResume
  BY <1>7 DEF InitResume
<1>8. CASE InitLog
  BY <1>8 DEF InitLog
<1>9. CASE InitSave
  BY <1>9 DEF InitSave
<1>10. CASE InitMeasure
  BY <1>10 DEF InitMeasure
<1>11. CASE PlaceCandidate
  BY <1>11 DEF PlaceCandidate
<1>12. CASE NothingNew
  BY <1>12 DEF NothingNew
<1>13. CASE SaveIntent
  BY <1>13 DEF SaveIntent
<1>14. CASE StageSnapshot
  BY <1>14 DEF StageSnapshot
<1>15. CASE CommitSnapshot
  <2>1. UNCHANGED <<saved, mem>> /\ mem = saved
        /\ pc' = IF job.cmd = "init" THEN "init_log" ELSE "append"
    BY <1>15 DEF CommitSnapshot
  <2>2. job.cmd # "init" => Initialized
    BY <1>15 DEF CommitSnapshot, JobInv
  <2>. QED BY <2>1, <2>2
<1>16. CASE AppendBlock
  BY <1>16 DEF AppendBlock
<1>17. CASE SaveCandidate
  BY <1>17 DEF SaveCandidate
<1>18. CASE Measure
  BY <1>18 DEF Measure
<1>19. CASE Score
  BY <1>19 DEF Score
<1>20. CASE DecideKept
  BY <1>20 DEF DecideKept
<1>21. CASE DecideReverted
  BY <1>21 DEF DecideReverted
<1>22. CASE SaveDecision
  <2>1. mem' = saved' /\ pc' \in {"settle_log", "swap"} /\ Initialized'
    BY <1>22, PastLoad DEF SaveDecision, State, JobInv
  <2>. QED BY <2>1
<1>23. CASE SetDecidedStatus
  <2>1. UNCHANGED saved /\ mem = saved /\ Initialized
    BY <1>23 DEF SetDecidedStatus
  <2>2. \/ pc' \in {"note", "swap", "deliver"} /\ UNCHANGED mem
        \/ pc' = "idle" /\ mem' = Blank
    BY <1>23 DEF SetDecidedStatus, AfterStatus
  <2>. QED BY <2>1, <2>2
<1>24. CASE AppendNote
  <2>1. UNCHANGED saved /\ mem = saved /\ Initialized
    BY <1>24 DEF AppendNote
  <2>2. \/ pc' \in {"note", "swap", "deliver"} /\ UNCHANGED mem
        \/ pc' = "idle" /\ mem' = Blank
    BY <1>24 DEF AppendNote, AfterStatus
  <2>. QED BY <2>1, <2>2
<1>25. CASE Restore
  <2>1. mem' = saved' /\ pc' \in {"settle_log", "swap"} /\ Initialized'
    BY <1>25, PastLoad DEF Restore, State, JobInv
  <2>. QED BY <2>1
<1>26. CASE FinalizePending
  <2>1. UNCHANGED <<saved, mem>> /\ mem = saved /\ Initialized /\ pc' \in {"decide", "deliver"}
    BY <1>26 DEF FinalizePending, Finalizing
  <2>. QED BY <2>1
<1>27. CASE FinalizeSettled
  <2>1. UNCHANGED <<saved, mem>> /\ mem = saved /\ Initialized /\ pc' \in {"decide", "deliver"}
    BY <1>27 DEF FinalizeSettled, Finalizing
  <2>. QED BY <2>1
<1>28. CASE Deliver
  BY <1>28 DEF Deliver
<1>29. CASE SwapOut
  BY <1>29 DEF SwapOut
<1>30. CASE SwapIn
  BY <1>30 DEF SwapIn
<1>31. CASE SwapBlocked
  BY <1>31 DEF SwapBlocked
<1>32. CASE Status
  BY <1>32 DEF Status
<1>33. CASE Refuse
  BY <1>33 DEF Refuse
<1>34. CASE EditMain
  <2>1. UNCHANGED <<saved, versions, pc, mem>>
    BY <1>34 DEF EditMain
  <2>. QED BY <2>1, AdoptingFrame DEF Adopting
<1>35. CASE Stop
  BY <1>35 DEF Stop
<1>36. CASE StopInAppend
  BY <1>36 DEF StopInAppend
<1>37. CASE UNCHANGED vars
  BY <1>37, AdoptingFrame DEF vars, Adopting
<1>. QED
  BY <1>0, <1>1, <1>2, <1>3, <1>4, <1>5, <1>6, <1>7, <1>8, <1>9, <1>10, <1>11, <1>12, <1>13, <1>14, <1>15, <1>16, <1>17, <1>18, <1>19, <1>20, <1>21, <1>22, <1>23, <1>24, <1>25, <1>26, <1>27, <1>28, <1>29, <1>30, <1>31, <1>32, <1>33, <1>34, <1>35, <1>36, <1>37 DEF Next, Step

\* A command that ends leaves nothing of its job.
LEMMA IdleJob == ASSUME pc' = "idle", job' = NoJob PROVE JobInv'
BY SMTT(30) DEF JobInv, NoJob, OpeningNow, Registering, Opening

LEMMA JobStep == ASSUME TypeOK, LedgerInv, [Next]_vars PROVE JobInv'
<1>. USE Constants, StateType DEF TypeOK, LedgerInv, JobInv, Job, OpeningNow, Registering, Unread, Opening, Initialized,
       Goto, End, disk
<1>0. CASE StartCommand
  BY <1>0, StartCases
<1>1. CASE Load
  BY <1>1 DEF Load
<1>2. CASE RepairBlock
  BY <1>2 DEF RepairBlock
<1>3. CASE RepairStatus
  BY <1>3 DEF RepairStatus
<1>4. CASE RepairHead
  BY <1>4 DEF RepairHead
<1>5. CASE LoadDone
  <2>1. pc' = job.cmd /\ job.cmd \in Commands /\ job' = job
    BY <1>5 DEF LoadDone
  <2>2. Initialized'
    BY <1>5, LoadSaves
  <2>. QED BY <2>1, <2>2 DEF Commands
<1>6. CASE InitFresh
  BY <1>6 DEF InitFresh
<1>7. CASE InitResume
  BY <1>7 DEF InitResume
<1>8. CASE InitLog
  <2>1. log'[First].status = "baseline" /\ pc' = "init_save" /\ UNCHANGED <<job, saved, versions>>
    BY <1>8 DEF InitLog, LogInv, Declared, Block, NewBlock
  <2>. QED BY <1>8, <2>1 DEF InitLog
<1>9. CASE InitSave
  BY <1>9 DEF InitSave
<1>10. CASE InitMeasure
  <2>1. CASE pc' = "idle"
    BY <1>10, <2>1, IdleJob DEF InitMeasure
  <2>2. CASE pc' # "idle"
    BY <1>10, <2>2 DEF InitMeasure
  <2>. QED BY <2>1, <2>2
<1>11. CASE PlaceCandidate
  BY <1>11 DEF PlaceCandidate
<1>12. CASE NothingNew
  BY <1>12, IdleJob DEF NothingNew
<1>13. CASE SaveIntent
  <2>1. PICK v \in Versions : IsNextId(v) /\ job' = [job EXCEPT !.version = v, !.tree = main]
    BY <1>13 DEF SaveIntent
  <2>2. versions[v] = Missing
    BY <2>1 DEF IsNextId, Snapshots
  <2>3. saved'.head = saved.head /\ saved'.pending = None /\ Initialized /\ UNCHANGED versions
    BY <1>13, PastLoad DEF SaveIntent, EvaluateOpen, State
  <2>. QED BY <1>13, <2>1, <2>2, <2>3 DEF SaveIntent
<1>14. CASE StageSnapshot
  <2>1. CASE pc' = "idle"
    BY <1>14, <2>1, IdleJob DEF StageSnapshot
  <2>2. CASE pc' # "idle"
    BY <1>14, <2>2 DEF StageSnapshot
  <2>. QED BY <2>1, <2>2
<1>15. CASE CommitSnapshot
  BY <1>15 DEF CommitSnapshot
<1>16. CASE AppendBlock
  BY <1>16 DEF AppendBlock
<1>17. CASE SaveCandidate
  <2>1. UNCHANGED job /\ pc' = "measure" /\ job.version \in Versions /\ job.cmd # "init"
    BY <1>17 DEF SaveCandidate
  <2>2. job.cmd \in {"evaluate", "evaluate_from"}
    BY <1>17 DEF SaveCandidate
  <2>. QED BY <2>1, <2>2
<1>18. CASE Measure
  BY <1>18 DEF Measure
<1>19. CASE Score
  <2>1. CASE pc' = "idle"
    BY <1>19, <2>1, IdleJob DEF Score
  <2>2. CASE pc' # "idle"
    BY <1>19, <2>2 DEF Score
  <2>. QED BY <2>1, <2>2
<1>20. CASE DecideKept
  BY <1>20, PastLoad DEF DecideKept, State, Finalizing, Commands, EvaluateOpen
<1>21. CASE DecideReverted
  BY <1>21, PastLoad DEF DecideReverted, State, Finalizing, Commands, EvaluateOpen
<1>22. CASE SaveDecision
  <2>1. /\ UNCHANGED <<job, log>> /\ pc = "settle" /\ pc' = "settle_log" /\ mem = saved
        /\ job.version = saved.pending /\ job.version \in Versions /\ job.version # First
        /\ saved.digests[job.version] # Missing /\ saved.head # job.version
        /\ job.status \in {"kept", "reverted"}
    BY <1>22, PastLoad DEF SaveDecision, SavedInv
  <2>2. /\ saved'.pending = None /\ saved'.digests = saved.digests
        /\ saved'.head = IF job.status = "kept" THEN job.version ELSE saved.head
    BY <1>22, <2>1 DEF SaveDecision, State
  <2>3. log[job.version].status \notin {"kept", "baseline"}
    BY <1>22, <2>1, PastLoad DEF SaveDecision, LogInv, UndecidedNeverReadsKept, Undecided
  <2>. QED BY <2>1, <2>2, <2>3
<1>23. CASE SetDecidedStatus
  <2>1. CASE pc' = "idle"
    BY <1>23, <2>1, IdleJob DEF SetDecidedStatus, AfterStatus
  <2>2. CASE pc' # "idle"
    BY <1>23, <2>2 DEF SetDecidedStatus, AfterStatus, SetStatus, Block
  <2>. QED BY <2>1, <2>2
<1>24. CASE AppendNote
  <2>1. CASE pc' = "idle"
    BY <1>24, <2>1, IdleJob DEF AppendNote, AfterStatus
  <2>2. CASE pc' # "idle"
    BY <1>24, <2>2 DEF AppendNote, AfterStatus
  <2>. QED BY <2>1, <2>2
<1>25. CASE Restore
  BY <1>25 DEF Restore
<1>26. CASE FinalizePending
  <2>1. UNCHANGED saved /\ mem = saved /\ pc' = "decide"
    BY <1>26, PastLoad DEF FinalizePending, Finalizing
  <2>2. job'.cmd = job.cmd /\ job.cmd # "none" /\ job'.version \in Versions
        /\ job'.status \in {"kept", "reverted"}
    BY <1>26, <2>1 DEF FinalizePending, Finalizing, VersionOrNone
  <2>. QED BY <2>1, <2>2
<1>27. CASE FinalizeSettled
  BY <1>27, PastLoad DEF FinalizeSettled, State, Finalizing, Commands, EvaluateOpen
<1>28. CASE Deliver
  <2>1. CASE pc' = "idle"
    BY <1>28, <2>1, IdleJob DEF Deliver
  <2>2. CASE pc' # "idle"
    BY <1>28, <2>2 DEF Deliver
  <2>. QED BY <2>1, <2>2
<1>29. CASE SwapOut
  BY <1>29 DEF SwapOut
<1>30. CASE SwapIn
  <2>1. CASE pc' = "idle"
    BY <1>30, <2>1, IdleJob DEF SwapIn
  <2>2. CASE pc' # "idle"
    BY <1>30, <2>2 DEF SwapIn
  <2>. QED BY <2>1, <2>2
<1>31. CASE SwapBlocked
  BY <1>31, IdleJob DEF SwapBlocked
<1>32. CASE Status
  BY <1>32, IdleJob DEF Status
<1>33. CASE Refuse
  BY <1>33, IdleJob DEF Refuse
<1>34. CASE EditMain
  BY <1>34 DEF EditMain
<1>35. CASE Stop
  BY <1>35, IdleJob DEF Stop
<1>36. CASE StopInAppend
  BY <1>36, IdleJob DEF StopInAppend
<1>37. CASE UNCHANGED vars
  BY <1>37 DEF vars
<1>. QED
  BY <1>0, <1>1, <1>2, <1>3, <1>4, <1>5, <1>6, <1>7, <1>8, <1>9, <1>10, <1>11, <1>12, <1>13, <1>14, <1>15, <1>16, <1>17, <1>18, <1>19, <1>20, <1>21, <1>22, <1>23, <1>24, <1>25, <1>26, <1>27, <1>28, <1>29, <1>30, <1>31, <1>32, <1>33, <1>34, <1>35, <1>36, <1>37 DEF Next, Step

LEMMA HeadStep == ASSUME TypeOK, LedgerInv, [Next]_vars PROVE HeadInv'
<1>. USE Constants, StateType DEF TypeOK, LedgerInv, HeadInv, Reconciled, Registering, Initialized, HeadStatus, LogInv, UndecidedNeverReadsKept,
       Goto, End, disk
<1>0. CASE StartCommand
  BY <1>0, StartCases
<1>1. CASE Load
  BY <1>1 DEF Load
<1>2. CASE RepairBlock
  BY <1>2 DEF RepairBlock
<1>3. CASE RepairStatus
  BY <1>3 DEF RepairStatus
<1>4. CASE RepairHead
  BY <1>4 DEF RepairHead
<1>5. CASE LoadDone
  <2>1. HeadReads(mem.head) /\ Blockless = {} /\ UNCHANGED <<log, versions>> /\ mem.head = saved.head
        /\ saved'.head = saved.head /\ saved.head # None
    BY <1>5, LoadSaves DEF LoadDone, MemInv, Adopting, Unread, Opening
  <2>2. saved.head \in Declared
    BY <2>1 DEF Blockless, Snapshots, SavedInv, VersionOrNone
  <2>. QED BY <2>1, <2>2 DEF HeadReads
<1>6. CASE InitFresh
  BY <1>6 DEF InitFresh
<1>7. CASE InitResume
  BY <1>7 DEF InitResume
<1>8. CASE InitLog
  BY <1>8 DEF InitLog
<1>9. CASE InitSave
  <2>1. saved'.head = First /\ UNCHANGED log /\ log[First].status = "baseline"
    BY <1>9 DEF InitSave, JobInv, Blank
  <2>. QED BY <2>1
<1>10. CASE InitMeasure
  BY <1>10 DEF InitMeasure
<1>11. CASE PlaceCandidate
  BY <1>11 DEF PlaceCandidate
<1>12. CASE NothingNew
  BY <1>12 DEF NothingNew
<1>13. CASE SaveIntent
  <2>1. saved'.head = saved.head /\ UNCHANGED log
    BY <1>13, PastLoad DEF SaveIntent, State, Unread, Opening
  <2>. QED BY <1>13, <2>1 DEF SaveIntent, OpeningNow
<1>14. CASE StageSnapshot
  BY <1>14 DEF StageSnapshot
<1>15. CASE CommitSnapshot
  BY <1>15 DEF CommitSnapshot
<1>16. CASE AppendBlock
  <2>1. job.version # saved.head /\ UNCHANGED saved
    BY <1>16 DEF AppendBlock, UnknownInv, Unknown, SavedInv, JobInv, MemInv, Unread, Opening
  <2>. QED BY <1>16, <2>1 DEF AppendBlock
<1>17. CASE SaveCandidate
  <2>1. saved'.head = saved.head /\ UNCHANGED log
    BY <1>17, PastLoad DEF SaveCandidate, State, Unread, Opening
  <2>. QED BY <1>17, <2>1 DEF SaveCandidate, OpeningNow
<1>18. CASE Measure
  BY <1>18 DEF Measure
<1>19. CASE Score
  <2>1. UNCHANGED saved /\ \A v \in Versions : log'[v].status = log[v].status
    BY <1>19, AppendLineKeeps DEF Score
  <2>. QED BY <1>19, <2>1, PastLoad DEF Score, AfterStatus, Unread, Opening
<1>20. CASE DecideKept
  BY <1>20 DEF DecideKept
<1>21. CASE DecideReverted
  <2>1. UNCHANGED saved /\ \A v \in Versions : log'[v].status = log[v].status
    BY <1>21, AppendLineKeeps DEF DecideReverted
  <2>. QED BY <1>21, <2>1, PastLoad DEF DecideReverted, AfterStatus, Unread, Opening
<1>22. CASE SaveDecision
  BY <1>22 DEF SaveDecision
<1>23. CASE SetDecidedStatus
  <2>1. pc' \in {"note", "swap", "deliver", "idle"}
    BY <1>23 DEF SetDecidedStatus, AfterStatus
  <2>. QED BY <2>1
<1>24. CASE AppendNote
  <2>1. UNCHANGED saved /\ \A v \in Versions : log'[v].status = log[v].status
    BY <1>24, AppendLineKeeps DEF AppendNote
  <2>. QED BY <1>24, <2>1, PastLoad DEF AppendNote, AfterStatus, Unread, Opening
<1>25. CASE Restore
  BY <1>25 DEF Restore
<1>26. CASE FinalizePending
  <2>1. UNCHANGED <<saved, log>> /\ pc' = "decide" /\ pc \in {"finalize", "finalize_keep"}
    BY <1>26 DEF FinalizePending, Finalizing
  <2>. QED BY <2>1
<1>27. CASE FinalizeSettled
  BY <1>27 DEF FinalizeSettled
<1>28. CASE Deliver
  BY <1>28 DEF Deliver
<1>29. CASE SwapOut
  BY <1>29 DEF SwapOut
<1>30. CASE SwapIn
  BY <1>30 DEF SwapIn
<1>31. CASE SwapBlocked
  BY <1>31 DEF SwapBlocked
<1>32. CASE Status
  BY <1>32 DEF Status
<1>33. CASE Refuse
  BY <1>33 DEF Refuse
<1>34. CASE EditMain
  BY <1>34 DEF EditMain
<1>35. CASE Stop
  BY <1>35 DEF Stop
<1>36. CASE StopInAppend
  BY <1>36 DEF StopInAppend
<1>37. CASE UNCHANGED vars
  BY <1>37 DEF vars
<1>. QED
  BY <1>0, <1>1, <1>2, <1>3, <1>4, <1>5, <1>6, <1>7, <1>8, <1>9, <1>10, <1>11, <1>12, <1>13, <1>14, <1>15, <1>16, <1>17, <1>18, <1>19, <1>20, <1>21, <1>22, <1>23, <1>24, <1>25, <1>26, <1>27, <1>28, <1>29, <1>30, <1>31, <1>32, <1>33, <1>34, <1>35, <1>36, <1>37 DEF Next, Step

-----------------------------------------------------------------------------

\* The invariant holds of the initial states.
LEMMA InitInv == RolloutInit => LedgerInv
<1>. SUFFICES ASSUME RolloutInit PROVE LedgerInv
  OBVIOUS
<1>. USE Constants DEF RolloutInit, Blank, Initialized, Snapshots, Unknown, Declared, NoBlock, NoJob
<1>1. SavedInv
  BY DEF SavedInv
<1>2. UnknownInv
  BY DEF UnknownInv, Unread
<1>3. LogInv
  BY DEF LogInv, UndecidedNeverReadsKept
<1>4. MemInv
  BY DEF MemInv, Unread
<1>5. JobInv
  BY DEF JobInv, OpeningNow, Registering
<1>6. HeadInv
  BY DEF HeadInv, Reconciled, Registering
<1>. QED BY <1>1, <1>2, <1>3, <1>4, <1>5, <1>6 DEF LedgerInv

\* The files, the saved state and the running command's memory always agree as
\* LedgerInv says, whatever was killed, repaired or edited.
LEMMA LedgerInvStays == ASSUME TypeOK, LedgerInv, [Next]_vars PROVE TypeOK' /\ LedgerInv'
<1>1. TypeOK'
  BY TypeStep DEF LedgerInv
<1>2. LedgerInv'
  BY SavedStep, UnknownStep, LogStep, MemStep, JobStep, HeadStep DEF LedgerInv
<1>. QED BY <1>1, <1>2

LEMMA LedgerInvariance == Spec => [](TypeOK /\ LedgerInv)
<1>1. RolloutInit => TypeOK /\ LedgerInv
  BY InitType, InitInv
<1>2. TypeOK /\ LedgerInv /\ [Next]_vars => (TypeOK /\ LedgerInv)'
  BY LedgerInvStays
<1>. QED BY <1>1, <1>2, PTL DEF Spec

\* Every variable keeps to its range.
THEOREM Typed == Spec => []TypeOK
BY LedgerInvariance, PTL

\* A version that reads kept in the log has been decided, at every moment.
THEOREM KeptMeansDecided == Spec => []UndecidedNeverReadsKept
<1>1. LedgerInv => UndecidedNeverReadsKept
  BY DEF LedgerInv, LogInv
<1>. QED BY <1>1, LedgerInvariance, PTL

\* There is never a second undecided version.
THEOREM AtMostOneUndecided == Spec => []OneUndecided
<1>1. TypeOK /\ LedgerInv => OneUndecided
  <2>. SUFFICES ASSUME TypeOK, LedgerInv PROVE Cardinality(Undecided) <= 1
    BY DEF OneUndecided
  <2>1. \A v, w \in Undecided : v = w
    BY DEF Undecided, LedgerInv, UnknownInv
  <2>2. CASE Undecided = {}
    BY <2>2, FS_EmptySet
  <2>3. CASE Undecided # {}
    <3>1. PICK v : Undecided = {v}
      BY SMTT(30), <2>1, <2>3
    <3>. QED BY <3>1, FS_Singleton
  <2>. QED BY <2>2, <2>3
<1>. QED BY <1>1, LedgerInvariance, PTL

-----------------------------------------------------------------------------
(* The lines of the blocks, the parents, the trees and what finalize hands *)
(* over: the parts of the invariant the ledger does not need.              *)

\* Where the command is and all it goes by stay as they are: an edit, or nothing.
Same == UNCHANGED <<versions, log, evidence, saved, pc, job, mem>>

\* The action that leads to each label.
LEMMA Reached ==
  ASSUME TypeOK, LedgerInv, [Next]_vars
  PROVE  /\ pc' = "repair" => Load \/ RepairBlock \/ RepairStatus \/ RepairHead \/ Same
         /\ pc' = "stage" => InitFresh \/ SaveIntent \/ Same
         /\ pc' = "commit" => StageSnapshot \/ Same
         /\ pc' = "append" => CommitSnapshot \/ Same
         /\ pc' = "save" => AppendBlock \/ Same
         /\ pc' = "init_log" => InitResume \/ CommitSnapshot \/ Same
         /\ pc' = "init_save" => InitLog \/ Same
         /\ pc' = "measure" => SaveCandidate \/ InitMeasure \/ DecideKept \/ Same
         /\ pc' = "score" => Measure \/ Same
         /\ pc' = "settle_log" => SaveDecision \/ Same
         /\ pc' = "note" => SetDecidedStatus \/ Same
         /\ pc' = "deliver" => SetDecidedStatus \/ AppendNote \/ FinalizeSettled \/ SwapIn \/ Same
         /\ pc' = "swap" => SetDecidedStatus \/ AppendNote \/ Restore \/ Deliver \/ Same
         /\ pc' = "swap_in" => SwapOut \/ Same
         /\ pc' \in {"restore", "finalize_keep"} => LoadDone \/ Same
         /\ pc' = "decide" => LoadDone \/ FinalizePending \/ Same
<1>. USE DEF LedgerInv, Same, Goto, End, disk
<1>0. CASE StartCommand
  BY SMTT(30), <1>0, StartCases
<1>1. CASE Load
  BY <1>1 DEF Load
<1>2. CASE RepairBlock
  BY <1>2 DEF RepairBlock
<1>3. CASE RepairStatus
  BY <1>3 DEF RepairStatus
<1>4. CASE RepairHead
  BY <1>4 DEF RepairHead
<1>5. CASE LoadDone
  BY <1>5 DEF LoadDone, JobInv, Job, Commands, TypeOK
<1>6. CASE InitFresh
  BY <1>6 DEF InitFresh
<1>7. CASE InitResume
  BY <1>7 DEF InitResume
<1>8. CASE InitLog
  BY <1>8 DEF InitLog
<1>9. CASE InitSave
  BY <1>9 DEF InitSave
<1>10. CASE InitMeasure
  BY <1>10 DEF InitMeasure
<1>11. CASE PlaceCandidate
  BY <1>11 DEF PlaceCandidate
<1>12. CASE NothingNew
  BY <1>12 DEF NothingNew
<1>13. CASE SaveIntent
  BY <1>13 DEF SaveIntent
<1>14. CASE StageSnapshot
  BY <1>14 DEF StageSnapshot
<1>15. CASE CommitSnapshot
  BY <1>15 DEF CommitSnapshot
<1>16. CASE AppendBlock
  BY <1>16 DEF AppendBlock
<1>17. CASE SaveCandidate
  BY <1>17 DEF SaveCandidate
<1>18. CASE Measure
  BY <1>18 DEF Measure
<1>19. CASE Score
  BY <1>19 DEF Score
<1>20. CASE DecideKept
  BY <1>20 DEF DecideKept
<1>21. CASE DecideReverted
  BY <1>21 DEF DecideReverted
<1>22. CASE SaveDecision
  BY <1>22 DEF SaveDecision
<1>23. CASE SetDecidedStatus
  BY <1>23 DEF SetDecidedStatus, AfterStatus
<1>24. CASE AppendNote
  BY <1>24 DEF AppendNote, AfterStatus
<1>25. CASE Restore
  BY <1>25 DEF Restore
<1>26. CASE FinalizePending
  BY <1>26 DEF FinalizePending, Finalizing
<1>27. CASE FinalizeSettled
  BY <1>27 DEF FinalizeSettled, Finalizing
<1>28. CASE Deliver
  BY <1>28 DEF Deliver
<1>29. CASE SwapOut
  BY <1>29 DEF SwapOut
<1>30. CASE SwapIn
  BY <1>30 DEF SwapIn
<1>31. CASE SwapBlocked
  BY <1>31 DEF SwapBlocked
<1>32. CASE Status
  BY <1>32 DEF Status
<1>33. CASE Refuse
  BY <1>33 DEF Refuse
<1>34. CASE EditMain
  BY <1>34 DEF EditMain
<1>35. CASE Stop
  BY <1>35 DEF Stop
<1>36. CASE StopInAppend
  BY <1>36 DEF StopInAppend
<1>37. CASE UNCHANGED vars
  BY <1>37 DEF vars
<1>. QED
    BY <1>0, <1>1, <1>2, <1>3, <1>4, <1>5, <1>6, <1>7, <1>8, <1>9, <1>10, <1>11, <1>12, <1>13,
     <1>14, <1>15, <1>16, <1>17, <1>18, <1>19, <1>20, <1>21, <1>22, <1>23, <1>24, <1>25, <1>26,
     <1>27, <1>28, <1>29, <1>30, <1>31, <1>32, <1>33, <1>34, <1>35, <1>36, <1>37 DEF Next, Step

\* Which actions write main/ and the measurements, where a command passes from
\* what is on disk to what it goes by, and how it ends.
LEMMA Effects ==
  ASSUME TypeOK, LedgerInv, [Next]_vars
  PROVE  /\ main' = main \/ PlaceCandidate \/ SwapOut \/ SwapIn \/ EditMain
         /\ evidence' = evidence \/ Measure
         /\ pc' \notin Unread \cup {"repair"} =>
              pc \notin Unread \cup {"repair"} \/ LoadDone \/ (~Initialized /\ UNCHANGED saved)
         /\ pc' # "idle" => outcome' = "none" \/ (outcome' = outcome /\ pc # "idle")
         /\ outcome' = "finalized" => Deliver \/ SwapIn \/ UNCHANGED vars \/ (pc # "idle" /\ outcome' = outcome)
         /\ outcome' = "finalize_refused" =>
              (Refuse /\ job.cmd = "finalize") \/ UNCHANGED vars \/ (pc # "idle" /\ outcome' = outcome)
<1>. USE DEF LedgerInv, Unread, Goto, End, disk
<1>0. CASE StartCommand
  BY <1>0, StartCases
<1>1. CASE Load
  BY <1>1 DEF Load
<1>2. CASE RepairBlock
  BY <1>2 DEF RepairBlock
<1>3. CASE RepairStatus
  BY <1>3 DEF RepairStatus
<1>4. CASE RepairHead
  BY <1>4 DEF RepairHead
<1>5. CASE LoadDone
  BY <1>5 DEF LoadDone, JobInv, Job, Commands, TypeOK
<1>6. CASE InitFresh
  BY <1>6 DEF InitFresh
<1>7. CASE InitResume
  BY <1>7 DEF InitResume
<1>8. CASE InitLog
  BY <1>8 DEF InitLog
<1>9. CASE InitSave
  BY <1>9 DEF InitSave
<1>10. CASE InitMeasure
  BY <1>10 DEF InitMeasure
<1>11. CASE PlaceCandidate
  BY <1>11 DEF PlaceCandidate
<1>12. CASE NothingNew
  BY <1>12 DEF NothingNew
<1>13. CASE SaveIntent
  BY <1>13 DEF SaveIntent
<1>14. CASE StageSnapshot
  BY <1>14 DEF StageSnapshot
<1>15. CASE CommitSnapshot
  BY <1>15 DEF CommitSnapshot
<1>16. CASE AppendBlock
  BY <1>16 DEF AppendBlock
<1>17. CASE SaveCandidate
  BY <1>17 DEF SaveCandidate
<1>18. CASE Measure
  BY <1>18 DEF Measure
<1>19. CASE Score
  BY <1>19 DEF Score
<1>20. CASE DecideKept
  BY <1>20 DEF DecideKept
<1>21. CASE DecideReverted
  BY <1>21 DEF DecideReverted
<1>22. CASE SaveDecision
  BY <1>22 DEF SaveDecision
<1>23. CASE SetDecidedStatus
  BY <1>23 DEF SetDecidedStatus, AfterStatus
<1>24. CASE AppendNote
  BY <1>24 DEF AppendNote, AfterStatus
<1>25. CASE Restore
  BY <1>25 DEF Restore
<1>26. CASE FinalizePending
  BY <1>26 DEF FinalizePending, Finalizing
<1>27. CASE FinalizeSettled
  BY <1>27 DEF FinalizeSettled, Finalizing
<1>28. CASE Deliver
  BY <1>28 DEF Deliver
<1>29. CASE SwapOut
  BY <1>29 DEF SwapOut
<1>30. CASE SwapIn
  BY <1>30 DEF SwapIn
<1>31. CASE SwapBlocked
  BY <1>31 DEF SwapBlocked
<1>32. CASE Status
  BY <1>32 DEF Status
<1>33. CASE Refuse
  BY <1>33 DEF Refuse
<1>34. CASE EditMain
  BY <1>34 DEF EditMain
<1>35. CASE Stop
  BY <1>35 DEF Stop
<1>36. CASE StopInAppend
  BY <1>36 DEF StopInAppend
<1>37. CASE UNCHANGED vars
  BY <1>37 DEF vars
<1>. QED
    BY <1>0, <1>1, <1>2, <1>3, <1>4, <1>5, <1>6, <1>7, <1>8, <1>9, <1>10, <1>11, <1>12, <1>13,
     <1>14, <1>15, <1>16, <1>17, <1>18, <1>19, <1>20, <1>21, <1>22, <1>23, <1>24, <1>25, <1>26,
     <1>27, <1>28, <1>29, <1>30, <1>31, <1>32, <1>33, <1>34, <1>35, <1>36, <1>37 DEF Next, Step

\* What a step may do to a block: it stays declared, keeps or sets its status,
\* and its parent is written with the block.
LEMMA BlockEffect ==
  ASSUME TypeOK, LedgerInv, [Next]_vars, NEW v \in Versions
  PROVE  /\ v \in Declared => v \in Declared'
         /\ \/ log'[v].parent \in {None, log[v].parent}
            \/ pc = "repair" /\ v \in Blockless /\ log'[v].parent = RepairParent(v)
            \/ pc = "append" /\ v = job.version /\ log'[v].parent = mem.head
<1>. USE DEF TypeOK, Declared
<1>1. CASE log' = log
  BY <1>1
<1>2. CASE RepairBlock
  BY <1>2 DEF RepairBlock, RepairedBlock, Blockless, Block
<1>3. CASE RepairStatus \/ RepairHead
  BY <1>3 DEF RepairStatus, RepairHead, SetStatus, HeadStatus, Block
<1>4. CASE InitLog
  BY <1>4 DEF InitLog, NewBlock, Block
<1>5. CASE AppendBlock
  BY <1>5 DEF AppendBlock, CandidateBlock, NewBlock, Block
<1>6. CASE Score \/ DecideReverted \/ AppendNote
  <2>1. log'[v].status = log[v].status /\ log'[v].parent = log[v].parent
    BY <1>6, AppendLineKeeps DEF Score, DecideReverted, AppendNote
  <2>. QED BY <2>1
<1>7. CASE SetDecidedStatus
  BY <1>7 DEF SetDecidedStatus, SetStatus, Block, LedgerInv, JobInv
<1>8. CASE StopInAppend
  <2>1. CASE pc = "append"
    <3>1. PICK b \in TornBlocks(CandidateBlock) : log' = [log EXCEPT ![job.version] = b]
      BY <1>8, <2>1 DEF StopInAppend
    <3>2. b.parent \in {None, mem.head} /\ b.status \in {"torn", "reverted"}
      BY <3>1 DEF TornBlocks, CandidateBlock, NewBlock
    <3>. QED BY <2>1, <3>1, <3>2
  <2>2. CASE pc = "repair"
    <3>. PICK w \in Blockless : \E b \in TornBlocks(RepairedBlock(w)) : log' = [log EXCEPT ![w] = b]
      BY <1>8, <2>2 DEF StopInAppend
    <3>1. PICK b \in TornBlocks(RepairedBlock(w)) : log' = [log EXCEPT ![w] = b]
      OBVIOUS
    <3>2. b.parent \in {None, RepairParent(w)} /\ b.status \in {"torn", "reverted"}
      BY <3>1 DEF TornBlocks, RepairedBlock
    <3>. QED BY <2>2, <3>1, <3>2
  <2>3. CASE pc = "init_log"
    <3>1. PICK b \in TornBlocks(NewBlock("baseline", None)) : log' = [log EXCEPT ![First] = b]
      BY <1>8, <2>3 DEF StopInAppend
    <3>2. b.parent = None /\ b.status \in {"torn", "baseline"}
      BY <3>1 DEF TornBlocks, NewBlock
    <3>. QED BY <3>1, <3>2
  <2>. QED BY <1>8, <2>1, <2>2, <2>3 DEF StopInAppend
<1>. QED BY <1>1, <1>2, <1>3, <1>4, <1>5, <1>6, <1>7, <1>8, Frame

\* What a command saves leaves no snapshot unknown.
LEMMA SavingKnowsAll ==
  ASSUME TypeOK, LedgerInv, [Next]_vars, saved' # saved
  PROVE  (Initialized' => Unknown(saved)' = {}) /\ UNCHANGED versions
<1>. USE DEF LedgerInv, TypeOK
<1>1. UnknownInv'
  BY UnknownStep
<1>2. LoadDone \/ InitSave \/ SaveIntent \/ SaveCandidate \/ SaveDecision \/ Restore
  BY Frame
<1>3. pc' \notin Unread \cup {"repair", "append", "save"} /\ UNCHANGED versions
  BY <1>2 DEF LoadDone, InitSave, SaveIntent, SaveCandidate, SaveDecision, Restore, Goto, Unread,
              JobInv, Job, Commands
<1>. QED BY <1>1, <1>3 DEF UnknownInv

\* A block that is the newest snapshot's is the last one of the log.
LEMMA LastBlock ==
  ASSUME TypeOK, LedgerInv, NEW v \in Declared, Newest(v)
  PROVE  IsNewestBlock(v)
BY DEF LedgerInv, LogInv, Newest, IsNewestBlock

\* A line appended for the version whose block is last lands there.
LEMMA AppendsInItsBlock ==
  ASSUME TypeOK, NEW kind, NEW v \in Versions, IsNewestBlock(v), AppendLine(kind, v), LinesLandInTheirBlock
  PROVE  LinesLandInTheirBlock'
<1>1. PICK b \in Versions :
        /\ IsNewestBlock(b)
        /\ log' = [log EXCEPT ![b].lines = @ \cup {[kind |-> kind, of |-> v]}]
  BY DEF AppendLine
<1>2. b = v
  BY <1>1, Constants DEF IsNewestBlock, Declared
<1>. QED BY <1>1, <1>2 DEF TypeOK, Block, LinesLandInTheirBlock

\* Every line of the log is in the block of its version.
LEMMA LandingStep ==
  ASSUME TypeOK, LedgerInv, LinesInv, [Next]_vars
  PROVE  LinesLandInTheirBlock'
<1>. USE DEF TypeOK, LinesInv, LinesLandInTheirBlock
<1>1. CASE log' = log
  BY <1>1
<1>2. CASE RepairBlock
  BY <1>2 DEF RepairBlock, RepairedBlock, Blockless
<1>3. CASE RepairStatus \/ RepairHead \/ SetDecidedStatus
  BY <1>3 DEF RepairStatus, RepairHead, SetDecidedStatus, SetStatus, Block
<1>4. CASE InitLog
  BY <1>4 DEF InitLog, NewBlock, Block
<1>5. CASE AppendBlock
  BY <1>5 DEF AppendBlock, CandidateBlock, NewBlock
<1>6. CASE Score
  <2>1. job.version \in Versions /\ IsNewestBlock(job.version)
    BY <1>6 DEF Score, LedgerInv, JobInv
  <2>. QED BY <1>6, <2>1, AppendsInItsBlock DEF Score
<1>7. CASE DecideReverted
  <2>1. job.version \in Versions
    BY <1>7 DEF DecideReverted, LedgerInv, JobInv
  <2>. QED BY <1>1, <1>7, <2>1, AppendsInItsBlock DEF DecideReverted
<1>8. CASE AppendNote
  <2>1. job.version \in Versions /\ job.version \in Declared /\ Newest(job.version)
    BY <1>8 DEF AppendNote, LedgerInv, JobInv
  <2>2. IsNewestBlock(job.version)
    BY <2>1, LastBlock
  <2>. QED BY <1>8, <2>1, <2>2, AppendsInItsBlock DEF AppendNote
<1>9. CASE StopInAppend
  <2>1. PICK v, b : log' = [log EXCEPT ![v] = b] /\ b.lines = {}
    <3>1. \A whole : \A b \in TornBlocks(whole) : b.lines = {} \/ b = [whole EXCEPT !.lines = {}]
      BY DEF TornBlocks
    <3>2. [CandidateBlock EXCEPT !.lines = {}].lines = {} /\ [NewBlock("baseline", None) EXCEPT !.lines = {}].lines = {}
      BY DEF CandidateBlock, NewBlock
    <3>3. \A v : [RepairedBlock(v) EXCEPT !.lines = {}].lines = {}
      BY DEF RepairedBlock
    <3>. QED BY <1>9, <3>1, <3>2, <3>3 DEF StopInAppend
  <2>. QED BY <2>1
<1>. QED BY <1>1, <1>2, <1>3, <1>4, <1>5, <1>6, <1>7, <1>8, <1>9, Frame

\* A new snapshot is the newest, and one that is not the newest is not undecided.
LEMMA NewestStep ==
  ASSUME TypeOK, LedgerInv, LinesInv, [Next]_vars
  PROVE  /\ saved'.pending # None => Newest(saved.pending)'
         /\ Initialized' => \A v \in Unknown(saved)' : Newest(v)'
<1>. USE DEF TypeOK, LinesInv
<1>1. CASE CommitSnapshot
  <2>1. /\ Snapshots' = Snapshots \cup {job.version} /\ Unknown(saved)' = Unknown(saved) \cup {job.version}
        /\ saved' = saved /\ Newest(job.version) /\ job.version \in Versions
    BY <1>1, CommitEffect DEF CommitSnapshot, LedgerInv, Registering
  <2>2. saved.pending = None /\ (Initialized => Unknown(saved) = {})
    BY <1>1 DEF CommitSnapshot, LedgerInv, JobInv, Registering, UnknownInv, Unread, SavedInv, Blank, Initialized
  <2>3. Newest(job.version)'
    <3>1. job.version \in Int /\ job' = job
      BY <1>1, <2>1, Constants DEF CommitSnapshot
    <3>2. job.version <= job.version /\ \A w \in Snapshots : w <= job.version
      BY <2>1, <3>1 DEF Newest
    <3>3. \A w \in Snapshots' : w <= job.version
      BY <2>1, <3>2
    <3>. QED BY <3>1, <3>3 DEF Newest
  <2>4. job' = job
    BY <1>1 DEF CommitSnapshot
  <2>5. \A v \in {job.version} : Newest(v)'
    BY <2>3, <2>4 DEF Newest
  <2>. QED BY <2>1, <2>2, <2>5 DEF Initialized
<1>2. CASE UNCHANGED versions
  <2>1. \A v : Newest(v)' <=> Newest(v)
    BY <1>2 DEF Newest, Snapshots
  <2>2. CASE saved' = saved
    BY <1>2, <2>1, <2>2 DEF Initialized, Unknown, Snapshots, Newest
  <2>3. CASE saved' # saved
    <3>1. Initialized' => Unknown(saved)' = {}
      BY <2>3, SavingKnowsAll
    <3>2. saved'.pending # None => Newest(saved'.pending)
      <4>1. CASE LoadDone
        BY <4>1, LoadSaves DEF LoadDone, LedgerInv, Initialized
      <4>2. CASE InitSave
        BY <4>2 DEF InitSave, Blank
      <4>3. CASE SaveIntent \/ SaveDecision \/ Restore
        BY ZenonT(60), <4>3, PastLoad DEF SaveIntent, SaveDecision, Restore, State, LedgerInv, Unread, Opening
      <4>4. CASE SaveCandidate
        BY <4>4, PastLoad DEF SaveCandidate, State, LedgerInv, Unread, Opening, Registering
      <4>. QED BY <2>3, <4>1, <4>2, <4>3, <4>4, Frame
    <3>. QED BY <2>1, <3>1, <3>2 DEF Newest
  <2>. QED BY <2>2, <2>3
<1>. QED BY <1>1, <1>2, Frame

LEMMA LinesStep == ASSUME TypeOK, LedgerInv, LinesInv, [Next]_vars PROVE LinesInv'
<1>. USE Constants DEF TypeOK
<1>1. LinesLandInTheirBlock'
  BY LandingStep
<1>2. /\ saved'.pending # None => Newest(saved.pending)'
      /\ Initialized' => \A v \in Unknown(saved)' : Newest(v)'
  BY NewestStep
<1>3. Same => (pc' \in Registering => Newest(job.version)')
  BY DEF Same, LinesInv, Newest, Snapshots
<1>4. pc' \in Registering => Newest(job.version)'
  <2>1. CASE InitFresh
    <3>1. job'.version = First /\ Snapshots' = {}
      BY <2>1 DEF InitFresh, disk, LedgerInv, UnknownInv, Snapshots, Job
    <3>. QED BY <3>1 DEF Newest
  <2>2. CASE SaveIntent
    <3>1. PICK v \in Versions : IsNextId(v) /\ job' = [job EXCEPT !.version = v, !.tree = main]
      BY <2>2 DEF SaveIntent
    <3>2. \A w \in Snapshots : w <= v
      BY <3>1 DEF IsNextId, Snapshots
    <3>3. job'.version = v /\ Snapshots' = Snapshots
      BY <2>2, <3>1 DEF SaveIntent, Snapshots, Job
    <3>. QED BY <3>2, <3>3 DEF Newest
  <2>3. CASE StageSnapshot /\ pc' = "commit"
    <3>1. job'.version = job.version /\ Snapshots' = Snapshots /\ Newest(job.version)
      BY <2>3 DEF StageSnapshot, disk, Snapshots, Job, LinesInv, Registering, End
    <3>. QED BY <3>1 DEF Newest
  <2>4. CASE CommitSnapshot
    <3>1. /\ Snapshots' = Snapshots \cup {job.version} /\ job' = job /\ job.version \in Versions
          /\ Newest(job.version)
      BY <2>4, CommitEffect DEF CommitSnapshot, LinesInv, Registering, LedgerInv
    <3>2. job.version <= job.version
      <4>1. job.version \in Int
        BY <3>1
      <4>. QED BY <4>1
    <3>3. \A w \in Snapshots' : w <= job.version
      BY <3>1, <3>2 DEF Newest
    <3>. QED BY <3>1, <3>3 DEF Newest
  <2>5. CASE AppendBlock
    <3>1. job' = job /\ Snapshots' = Snapshots /\ Newest(job.version)
      BY <2>5 DEF AppendBlock, Snapshots, LinesInv, Registering
    <3>. QED BY <3>1 DEF Newest
  <2>6. CASE Same
    BY <1>3, <2>6 DEF Same
  <2>. QED BY <2>1, <2>2, <2>3, <2>4, <2>5, <2>6, Reached DEF Registering
<1>5. pc' \in {"measure", "score"} => IsNewestBlock(job.version)'
  <2>1. UNCHANGED log => \A v : IsNewestBlock(v)' <=> IsNewestBlock(v)
    BY DEF IsNewestBlock, Declared
  <2>2. CASE SaveCandidate
    <3>1. IsNewestBlock(job.version) /\ UNCHANGED <<log, job>>
      BY <2>2, LastBlock DEF SaveCandidate, LinesInv, Registering
    <3>. QED BY <2>1, <3>1
  <2>3. CASE InitMeasure /\ pc' = "measure"
    <3>1. IsNewestBlock(First) /\ job'.version = First /\ UNCHANGED log
      BY <2>3 DEF InitMeasure, NeedsMeasure, disk, Job, End
    <3>. QED BY <2>1, <3>1
  <2>4. CASE DecideKept /\ pc' = "measure"
    <3>1. IsNewestBlock(job.version) /\ UNCHANGED <<log, job>>
      BY <2>4 DEF DecideKept, NeedsMeasure, disk, Goto
    <3>. QED BY <2>1, <3>1
  <2>5. CASE Measure
    <3>1. IsNewestBlock(job.version) /\ UNCHANGED <<log, job>>
      BY <2>5 DEF Measure, LinesInv
    <3>. QED BY <2>1, <3>1
  <2>6. CASE Same
    BY <2>1, <2>6 DEF Same, LinesInv
  <2>. QED BY <2>2, <2>3, <2>4, <2>5, <2>6, Reached
<1>6. pc' \in {"settle_log", "note"} => Newest(job.version)'
  <2>1. CASE SaveDecision
    <3>1. Newest(job.version) /\ UNCHANGED <<versions, job>>
      BY <2>1 DEF SaveDecision, LinesInv, LedgerInv, JobInv
    <3>. QED BY <3>1 DEF Newest, Snapshots
  <2>2. CASE SetDecidedStatus /\ pc' = "note"
    <3>1. Newest(job.version) /\ UNCHANGED <<versions, job>>
      BY <2>2 DEF SetDecidedStatus, AfterStatus, Goto, End, LinesInv
    <3>. QED BY <3>1 DEF Newest, Snapshots
  <2>3. CASE Same
    BY <2>3 DEF Same, LinesInv, Newest, Snapshots
  <2>. QED BY <2>1, <2>2, <2>3, Reached
<1>7. pc' \in {"save", "note"} => job'.version \in Declared'
  <2>1. CASE AppendBlock
    BY <2>1 DEF AppendBlock, CandidateBlock, NewBlock, Declared, LedgerInv, JobInv, Registering
  <2>2. CASE SetDecidedStatus /\ pc' = "note"
    <3>1. job' = job /\ job.version \in Declared
      BY <2>2 DEF SetDecidedStatus, AfterStatus, Goto, End
    <3>. QED BY <3>1, BlockEffect DEF Declared
  <2>3. CASE Same
    BY <2>3 DEF Same, LinesInv, Declared
  <2>. QED BY <2>1, <2>2, <2>3, Reached
<1>. QED BY <1>1, <1>2, <1>4, <1>5, <1>6, <1>7 DEF LinesInv, Newest, IsNewestBlock

\* An evaluate's parent is an earlier snapshot.
LEMMA HeadIsEarlier ==
  ASSUME TypeOK, LedgerInv, Initialized, NEW v \in Versions, Newest(v), v # saved.head
  PROVE  saved.head \in 0 .. (v - 1)
<1>1. saved.head \in Versions /\ saved.head \in Snapshots
  BY StateType DEF TypeOK, LedgerInv, SavedInv, Initialized, VersionOrNone, Snapshots
<1>2. saved.head <= v /\ 0 <= saved.head /\ saved.head \in Int /\ v \in Int
  BY <1>1, Constants DEF Newest
<1>. QED BY <1>2

\* A snapshot that load_state gives a block was announced, and the state has no
\* parent for it.
LEMMA RepairsTheAnnounced ==
  ASSUME TypeOK, LedgerInv, ParentsInv, pc = "repair", NEW v \in Blockless
  PROVE  /\ v \in Versions /\ v \in Unknown(saved)
         /\ saved.parents[v] = None /\ mem.parents[v] = None
         /\ RepairParent(v) = saved.intent.parent
         /\ {RepairParent(v)} \ {None} \subseteq 0 .. (v - 1)
<1>1. v \in Versions /\ v \notin Declared /\ v \in Snapshots
  BY DEF Blockless, Snapshots
<1>2. saved.digests[v] = Missing /\ v \in Unknown(saved)
  BY <1>1 DEF ParentsInv, Unknown
<1>3. saved.parents[v] = None /\ mem.parents[v] = None
  BY <1>1, <1>2 DEF ParentsInv
<1>4. Initialized
  BY DEF LedgerInv, MemInv, Unread, Opening
<1>5. saved.intent.version = v /\ mem.intent = saved.intent
  BY <1>2, <1>4 DEF ParentsInv
<1>6. RepairParent(v) = saved.intent.parent
  BY <1>5 DEF RepairParent
<1>7. saved.intent.parent \in VersionOrNone /\ (saved.intent.parent # None => saved.intent.parent < v)
  BY <1>5, StateType DEF TypeOK, ParentsInv, Traced
<1>8. {saved.intent.parent} \ {None} \subseteq 0 .. (v - 1)
  <2>1. CASE saved.intent.parent = None
    BY <2>1
  <2>2. CASE saved.intent.parent # None
    <3>1. saved.intent.parent \in Int /\ v \in Int /\ 0 <= saved.intent.parent /\ saved.intent.parent < v
      BY <1>1, <1>7, <2>2, Constants DEF VersionOrNone
    <3>. QED BY <3>1
  <2>. QED BY <2>1, <2>2
<1>. QED BY <1>1, <1>2, <1>3, <1>6, <1>8

\* A block that is given a parent is given an earlier version, and the state
\* has none for it yet or the same.
LEMMA BlockParent ==
  ASSUME TypeOK, LedgerInv, LinesInv, ParentsInv, [Next]_vars, NEW v \in Versions,
         log'[v].parent \notin {None, log[v].parent}
  PROVE  /\ saved.parents[v] = None /\ log'[v].parent \in 0 .. (v - 1)
         /\ pc = "repair" => v \in Blockless /\ log'[v].parent = RepairParent(v)
<1>1. CASE pc = "repair"
  <2>1. v \in Blockless /\ log'[v].parent = RepairParent(v)
    BY <1>1, BlockEffect
  <2>. QED BY <1>1, <2>1, RepairsTheAnnounced
<1>2. CASE pc # "repair"
  <2>1. pc = "append" /\ v = job.version /\ log'[v].parent = mem.head
    BY <1>2, BlockEffect
  <2>2. mem = saved /\ Initialized
    BY <2>1 DEF LedgerInv, MemInv, Unread, Opening
  <2>3. v \in Unknown(saved) /\ Newest(v)
    BY <2>1 DEF LedgerInv, UnknownInv, LinesInv, Registering
  <2>4. saved.digests[v] = Missing /\ v # saved.head
    BY <2>2, <2>3 DEF Unknown, LedgerInv, SavedInv, Initialized
  <2>5. saved.parents[v] = None
    BY <2>4 DEF ParentsInv
  <2>. QED BY <1>2, <2>1, <2>2, <2>3, <2>4, <2>5, HeadIsEarlier
<1>. QED BY <1>1, <1>2

LEMMA ParentStays ==
  ASSUME TypeOK, LedgerInv, LinesInv, ParentsInv, [Next]_vars, NEW v \in Versions,
         NEW parents, ParentIn(parents, v),
         parents[v] = saved.parents[v] \/ (pc = "repair" /\ parents[v] = mem.parents[v])
  PROVE  /\ {parents[v], log'[v].parent} \ {None} \subseteq 0 .. (v - 1)
         /\ parents[v] # None /\ log'[v].parent # None => parents[v] = log'[v].parent
<1>1. CASE log'[v].parent \in {None, log[v].parent}
  BY <1>1 DEF ParentIn
<1>2. CASE log'[v].parent \notin {None, log[v].parent}
  <2>1. /\ saved.parents[v] = None /\ log'[v].parent \in 0 .. (v - 1)
        /\ pc = "repair" => v \in Blockless
    BY <1>2, BlockParent
  <2>2. parents[v] = None
    BY <2>1, RepairsTheAnnounced
  <2>. QED BY <2>1, <2>2
<1>. QED BY <1>1, <1>2

\* What each save does to the parents and the intent.
LEMMA SavedParents ==
  ASSUME TypeOK, LedgerInv, [Next]_vars
  PROVE  \/ saved'.parents = saved.parents /\ saved'.intent = saved.intent
         \/ LoadDone /\ saved'.parents = mem.parents /\ saved'.intent \in {mem.intent, NoIntent}
         \/ saved'.parents = Blank.parents /\ saved'.intent = NoIntent
         \/ SaveIntent /\ saved'.parents = saved.parents
         \/ /\ SaveCandidate /\ saved'.intent = NoIntent
            /\ saved'.parents = [saved.parents EXCEPT ![job.version] = saved.head]
<1>. USE DEF TypeOK, State
<1>1. CASE saved' = saved
  BY <1>1
<1>2. CASE LoadDone
  BY <1>2 DEF LoadDone
<1>3. CASE InitSave
  BY <1>3 DEF InitSave, Blank
<1>4. CASE SaveIntent \/ SaveDecision \/ Restore
  BY ZenonT(60), <1>4, PastLoad DEF SaveIntent, SaveDecision, Restore, LedgerInv, Unread, Opening
<1>5. CASE SaveCandidate
  BY <1>5, PastLoad DEF SaveCandidate, LedgerInv, Unread, Opening
<1>. QED BY <1>1, <1>2, <1>3, <1>4, <1>5, Frame

LEMMA SavedTraced ==
  ASSUME TypeOK, LedgerInv, LinesInv, ParentsInv, [Next]_vars
  PROVE  Traced(saved)'
<1>. DEFINE In(parents, v) == /\ {parents[v], log'[v].parent} \ {None} \subseteq 0 .. (v - 1)
                              /\ parents[v] # None /\ log'[v].parent # None => parents[v] = log'[v].parent
<1>1. ASSUME NEW v \in Versions PROVE ParentIn(saved.parents, v)
  BY DEF ParentsInv, Traced
<1>2. ASSUME NEW v \in Versions PROVE In(saved.parents, v)
  BY <1>1, ParentStays
<1>3. saved.intent.parent # None => saved.intent.parent < saved.intent.version
  BY DEF ParentsInv, Traced
<1>. SUFFICES /\ saved'.intent.parent # None => saved'.intent.parent < saved'.intent.version
              /\ \A v \in Versions : In(saved'.parents, v)
  BY DEF Traced, ParentIn
<1>4. CASE saved'.parents = saved.parents /\ saved'.intent = saved.intent
  BY <1>2, <1>3, <1>4
<1>5. CASE LoadDone /\ saved'.parents = mem.parents /\ saved'.intent \in {mem.intent, NoIntent}
  <2>1. pc = "repair" /\ mem.intent = saved.intent /\ Traced(mem)
    BY <1>5 DEF LoadDone, ParentsInv
  <2>2. ASSUME NEW v \in Versions PROVE In(mem.parents, v)
    <3>1. ParentIn(mem.parents, v)
      BY <2>1 DEF Traced
    <3>. QED BY <2>1, <3>1, ParentStays
  <2>. QED BY <1>3, <1>5, <2>1, <2>2 DEF NoIntent
<1>6. CASE saved'.parents = Blank.parents /\ saved'.intent = NoIntent
  <2>1. ASSUME NEW v \in Versions PROVE saved'.parents[v] = None
    BY <1>6 DEF Blank
  <2>2. ASSUME NEW v \in Versions PROVE In(saved'.parents, v)
    BY <1>2, <2>1
  <2>. QED BY <1>6, <2>2 DEF NoIntent
<1>7. CASE SaveIntent /\ saved'.parents = saved.parents
  <2>1. PICK v \in Versions : IsNextId(v) /\ mem' = [mem EXCEPT !.intent = [version |-> v, parent |-> mem.head]]
    BY <1>7 DEF SaveIntent
  <2>2. saved'.intent = [version |-> v, parent |-> saved.head] /\ Initialized
    BY <1>7, <2>1, PastLoad DEF SaveIntent, TypeOK, State, LedgerInv, Unread, Opening, MemInv
  <2>3. saved.head \in Snapshots
    BY <2>2, StateType DEF TypeOK, LedgerInv, SavedInv, Initialized, VersionOrNone, Snapshots
  <2>4. saved.head < v
    BY <2>1, <2>3 DEF IsNextId
  <2>. QED BY <1>2, <1>7, <2>2, <2>4
<1>8. CASE /\ SaveCandidate /\ saved'.intent = NoIntent
           /\ saved'.parents = [saved.parents EXCEPT ![job.version] = saved.head]
  <2>1. /\ pc = "save" /\ UNCHANGED log /\ job.version \in Versions
        /\ log[job.version].parent = saved.head /\ saved.head # None
    BY <1>8 DEF SaveCandidate, LedgerInv, JobInv, Registering, ParentsInv, MemInv, Unread, Opening, Initialized
  <2>2. ASSUME NEW v \in Versions PROVE In(saved'.parents, v)
    <3>1. CASE v = job.version
      <4>1. log'[v].parent = saved.head /\ saved'.parents[v] = saved.head
        BY <1>8, <2>1, <3>1, StateType DEF TypeOK
      <4>. QED BY <1>2, <2>1, <4>1
    <3>2. CASE v # job.version
      <4>1. saved'.parents[v] = saved.parents[v]
        BY <1>8, <3>2, StateType DEF TypeOK
      <4>. QED BY <1>2, <4>1
    <3>. QED BY <3>1, <3>2
  <2>. QED BY <1>8, <2>2 DEF NoIntent
<1>. QED BY <1>4, <1>5, <1>6, <1>7, <1>8, SavedParents

\* While load_state repairs, its copy of the state traces as the saved one does.
LEMMA RepairingTraced ==
  ASSUME TypeOK, LedgerInv, LinesInv, ParentsInv, [Next]_vars, pc' = "repair"
  PROVE  /\ Traced(mem)' /\ mem'.intent = saved'.intent
         /\ \A v \in Versions : mem'.parents[v] # None => v \in Declared'
<1>. DEFINE In(parents, v) == /\ {parents[v], log'[v].parent} \ {None} \subseteq 0 .. (v - 1)
                              /\ parents[v] # None /\ log'[v].parent # None => parents[v] = log'[v].parent
<1>. SUFFICES /\ mem'.intent = saved'.intent
              /\ saved'.intent.parent # None => saved'.intent.parent < saved'.intent.version
              /\ \A v \in Versions : In(mem'.parents, v) /\ (mem'.parents[v] # None => v \in Declared')
  BY DEF Traced, ParentIn
<1>1. CASE Load
  <2>1. UNCHANGED <<saved, log>> /\ mem'.intent = saved.intent /\ mem'.parents = saved.parents
    BY <1>1 DEF Load, disk, TypeOK, State
  <2>2. \A v \in Versions : In(saved.parents, v) /\ (saved.parents[v] # None => v \in Declared')
    BY <2>1 DEF ParentsInv, Traced, ParentIn, Declared
  <2>. QED BY <2>1, <2>2 DEF ParentsInv, Traced
<1>2. CASE RepairBlock \/ RepairStatus \/ RepairHead \/ Same
  <2>1. pc = "repair" /\ UNCHANGED saved
    BY <1>2 DEF RepairBlock, RepairStatus, RepairHead, Same
  <2>2. mem.intent = saved.intent /\ Traced(mem)
    BY <2>1 DEF ParentsInv
  <2>3. ASSUME NEW v \in Versions
        PROVE  In(mem.parents, v) /\ (mem.parents[v] # None => v \in Declared')
    <3>1. ParentIn(mem.parents, v)
      BY <2>2 DEF Traced
    <3>2. mem.parents[v] # None => v \in Declared
      BY <2>1 DEF ParentsInv
    <3>. QED BY <2>1, <3>1, <3>2, ParentStays, BlockEffect
  <2>4. CASE mem' = mem
    BY <2>1, <2>2, <2>3, <2>4 DEF Traced
  <2>5. CASE RepairBlock /\ mem' # mem
    <3>1. PICK v \in Blockless : /\ log' = [log EXCEPT ![v] = RepairedBlock(v)]
                                 /\ mem' = [mem EXCEPT !.parents[v] = RepairParent(v)]
      BY <2>5 DEF RepairBlock
    <3>2. v \in Versions /\ {RepairParent(v)} \ {None} \subseteq 0 .. (v - 1)
      BY <2>1, <3>1, RepairsTheAnnounced
    <3>3. mem'.intent = mem.intent /\ mem'.parents = [mem.parents EXCEPT ![v] = RepairParent(v)]
      BY <3>1 DEF TypeOK, State
    <3>4. log'[v].parent = RepairParent(v) /\ v \in Declared'
      BY <3>1, <3>2 DEF TypeOK, RepairedBlock, Declared
    <3>5. ASSUME NEW w \in Versions
          PROVE  In(mem'.parents, w) /\ (mem'.parents[w] # None => w \in Declared')
      <4>1. CASE w = v
        <5>1. mem'.parents[w] = RepairParent(v) /\ log'[w].parent = RepairParent(v)
          BY <3>3, <3>4, <4>1, StateType DEF TypeOK
        <5>. QED BY <3>2, <3>4, <4>1, <5>1
      <4>2. CASE w # v
        <5>1. mem'.parents[w] = mem.parents[w]
          BY <3>3, <4>2, StateType DEF TypeOK
        <5>. QED BY <2>3, <5>1
      <4>. QED BY <4>1, <4>2
    <3>. QED BY <2>1, <2>2, <3>3, <3>5 DEF Traced
  <2>6. RepairBlock \/ mem' = mem
    BY <1>2 DEF RepairStatus, RepairHead, Same
  <2>. QED BY <2>4, <2>5, <2>6
<1>. QED BY <1>1, <1>2, Reached

LEMMA ParentsStep == ASSUME TypeOK, LedgerInv, LinesInv, ParentsInv, [Next]_vars PROVE ParentsInv'
<1>. USE DEF TypeOK
<1>1. Traced(saved)'
  BY SavedTraced
<1>2. pc' = "repair" =>
        /\ Traced(mem)' /\ mem'.intent = saved'.intent
        /\ \A v \in Versions : mem'.parents[v] # None => v \in Declared'
  BY RepairingTraced
<1>3. ASSUME NEW v \in Versions
      PROVE  /\ saved'.parents[v] # None => saved'.digests[v] # Missing
             /\ saved'.digests[v] # Missing => v \in Declared'
  <2>1. v \in Declared => v \in Declared'
    BY BlockEffect
  <2>2. CASE saved' = saved
    BY <2>1, <2>2 DEF ParentsInv
  <2>3. CASE LoadDone
    <3>1. /\ saved'.parents = mem.parents /\ pc = "repair" /\ Snapshots \subseteq Declared
          /\ saved'.digests[v] = IF v \in Unknown(saved) THEN versions[v] ELSE saved.digests[v]
      BY <2>3, LoadSaves DEF LoadDone, State, Blockless, LedgerInv
    <3>2. saved'.digests[v] # Missing <=> v \in Snapshots
      BY <3>1 DEF Unknown, Snapshots, LedgerInv, SavedInv
    <3>3. mem.parents[v] # None => v \in Declared
      BY <3>1 DEF ParentsInv
    <3>. QED BY <2>1, <3>1, <3>2, <3>3 DEF LedgerInv, LogInv
  <2>4. CASE InitSave
    <3>1. saved'.parents[v] = None /\ (saved'.digests[v] # Missing => v = First) /\ First \in Declared
      BY <2>4, Constants DEF InitSave, Blank, LedgerInv, JobInv, Declared
    <3>. QED BY <2>1, <3>1
  <2>5. CASE SaveIntent \/ SaveDecision \/ Restore
    <3>1. saved'.parents = saved.parents /\ saved'.digests = saved.digests
      BY ZenonT(60), <2>5, PastLoad DEF SaveIntent, SaveDecision, Restore, State, LedgerInv, Unread, Opening
    <3>. QED BY <2>1, <3>1 DEF ParentsInv
  <2>6. CASE SaveCandidate
    <3>1. /\ job.version \in Versions /\ job.tree \in Tree /\ job.version \in Declared
          /\ saved'.parents = [saved.parents EXCEPT ![job.version] = saved.head]
          /\ saved'.digests = [saved.digests EXCEPT ![job.version] = job.tree]
      BY <2>6, PastLoad DEF SaveCandidate, State, LedgerInv, JobInv, Registering, LinesInv, Unread, Opening
    <3>2. CASE v = job.version
      BY <2>1, <3>1, <3>2, StateType, Constants
    <3>3. CASE v # job.version
      BY <2>1, <3>1, <3>3, StateType DEF ParentsInv
    <3>. QED BY <3>2, <3>3
  <2>. QED BY <2>2, <2>3, <2>4, <2>5, <2>6, Frame
<1>4. Initialized' => \A v \in Unknown(saved)' : saved'.intent.version = v
  <2>1. CASE saved' # saved
    BY <2>1, SavingKnowsAll
  <2>2. CASE CommitSnapshot
    <3>1. /\ saved' = saved /\ Unknown(saved)' = Unknown(saved) \cup {job.version}
          /\ (Initialized => Unknown(saved) = {} /\ saved.intent.version = job.version)
      BY <2>2, CommitEffect DEF CommitSnapshot, LedgerInv, UnknownInv, Unread, ParentsInv, Registering
    <3>. QED BY <3>1 DEF Initialized
  <2>3. CASE saved' = saved /\ versions' = versions
    BY <2>3 DEF ParentsInv, Unknown, Snapshots, Initialized
  <2>. QED BY <2>1, <2>2, <2>3, Frame
<1>5. Initialized' /\ pc' \in Registering => saved'.intent.version = job'.version
  <2>1. CASE InitFresh
    BY <2>1 DEF InitFresh, disk, Initialized
  <2>2. CASE SaveIntent
    BY <2>2 DEF SaveIntent, State, Job
  <2>3. CASE (StageSnapshot /\ pc' = "commit") \/ CommitSnapshot \/ AppendBlock
    <3>1. UNCHANGED saved /\ job'.version = job.version /\ pc \in Registering
      BY <2>3 DEF StageSnapshot, CommitSnapshot, AppendBlock, End, disk, Job, Registering
    <3>. QED BY <3>1 DEF ParentsInv, Initialized
  <2>4. CASE Same
    BY <2>4 DEF Same, ParentsInv, Initialized
  <2>. QED BY <2>1, <2>2, <2>3, <2>4, Reached DEF Registering
<1>6. pc' = "save" => log'[job'.version].parent = saved'.head
  <2>1. CASE AppendBlock
    <3>1. mem = saved /\ job.version \in Versions
      BY <2>1 DEF AppendBlock, LedgerInv, MemInv, JobInv, Registering, Unread
    <3>. QED BY <2>1, <3>1 DEF AppendBlock, CandidateBlock, NewBlock
  <2>2. CASE Same
    BY <2>2 DEF Same, ParentsInv
  <2>. QED BY <2>1, <2>2, Reached
<1>. QED BY <1>1, <1>2, <1>3, <1>4, <1>5, <1>6 DEF ParentsInv

\* Every digest the state has is its snapshot's, and no snapshot is broken.
LEMMA NothingBroken == ASSUME SnapshotsInv, HashedIsStaged PROVE Broken = {}
BY DEF SnapshotsInv, Broken, Unknown, Snapshots

LEMMA SnapshotsStep == ASSUME TypeOK, LedgerInv, SnapshotsInv, [Next]_vars PROVE SnapshotsInv'
<1>. SUFFICES ASSUME HashedIsStaged PROVE SnapshotsInv'
  BY DEF SnapshotsInv, HashedIsStaged
<1>. USE Constants DEF TypeOK
<1>1. /\ SnapshotsAreDistinct'
      /\ \A v \in Versions : versions'[v] # Unhashable
  <2>1. CASE versions' = versions
    BY <2>1 DEF SnapshotsInv, SnapshotsAreDistinct, Snapshots
  <2>2. CASE CommitSnapshot
    <3>1. /\ job.version \in Versions /\ versions' = [versions EXCEPT ![job.version] = job.tree]
          /\ job.tree \in Tree /\ \A w \in Snapshots : versions[w] # job.tree
          /\ Snapshots' = Snapshots \cup {job.version}
      BY <2>2, CommitEffect DEF CommitSnapshot, SnapshotsInv, LedgerInv, JobInv, Registering
    <3>. QED BY <3>1 DEF SnapshotsInv, SnapshotsAreDistinct, Snapshots
  <2>. QED BY <2>1, <2>2, Frame
<1>2. ASSUME NEW v \in Versions, saved'.digests[v] # Missing
      PROVE  versions'[v] = saved'.digests[v]
  <2>1. CASE saved' = saved /\ versions' = versions
    BY <1>2, <2>1 DEF SnapshotsInv
  <2>2. CASE CommitSnapshot
    <3>1. saved' = saved /\ saved.digests[job.version] = Missing
          /\ versions' = [versions EXCEPT ![job.version] = job.staged]
      BY <2>2, CommitEffect DEF CommitSnapshot, LedgerInv
    <3>. QED BY <1>2, <3>1 DEF SnapshotsInv
  <2>3. CASE LoadDone
    <3>1. /\ saved'.digests[v] = (IF v \in Unknown(saved) THEN versions[v] ELSE saved.digests[v])
          /\ versions' = versions
      BY <2>3, LoadSaves DEF LoadDone, LedgerInv
    <3>. QED BY <1>2, <3>1 DEF SnapshotsInv
  <2>4. CASE InitSave
    <3>1. /\ versions' = versions /\ versions[First] = job.tree
          /\ saved'.digests = [Blank.digests EXCEPT ![First] = job.tree]
      BY <2>4 DEF InitSave, SnapshotsInv, Blank
    <3>. QED BY <1>2, <3>1 DEF Blank
  <2>5. CASE SaveIntent \/ SaveDecision \/ Restore
    <3>1. versions' = versions /\ saved'.digests = saved.digests
      BY ZenonT(60), <2>5, PastLoad DEF SaveIntent, SaveDecision, Restore, State, LedgerInv, Unread, Opening
    <3>. QED BY <1>2, <3>1 DEF SnapshotsInv
  <2>6. CASE SaveCandidate
    <3>1. /\ versions' = versions /\ versions[job.version] = job.tree
          /\ saved'.digests = [saved.digests EXCEPT ![job.version] = job.tree]
      BY <2>6, PastLoad DEF SaveCandidate, State, LedgerInv, SnapshotsInv, Unread, Opening
    <3>. QED BY <1>2, <3>1, StateType DEF SnapshotsInv
  <2>. QED BY <2>1, <2>2, <2>3, <2>4, <2>5, <2>6, Frame
<1>3. pc' = "stage" => main' = job'.tree /\ \A w \in Snapshots' : versions'[w] # job'.tree
  <2>1. CASE InitFresh
    <3>1. Snapshots' = {}
      BY <2>1 DEF InitFresh, disk, LedgerInv, UnknownInv, Snapshots
    <3>. QED BY <2>1, <3>1 DEF InitFresh, disk, Job
  <2>2. CASE SaveIntent
    <3>1. /\ main' = main /\ job'.tree = main /\ versions' = versions
          /\ \A v \in Versions : mem.digests[v] # main
      BY <2>2 DEF SaveIntent, Job, IsNew
    <3>2. mem = saved /\ Unknown(saved) = {}
      BY <2>2, PastLoad DEF SaveIntent, LedgerInv, UnknownInv, Initialized, Unread, Opening
    <3>3. \A w \in Snapshots : versions[w] = saved.digests[w]
      BY <3>2 DEF SnapshotsInv, Unknown, Snapshots
    <3>. QED BY <3>1, <3>2, <3>3 DEF Snapshots
  <2>3. CASE Same
    <3>1. pc' = "stage" => main' = main
      BY <2>3, Effects DEF Same, PlaceCandidate, SwapOut, SwapIn, EditMain, HashedIsStaged
    <3>. QED BY <2>3, <3>1 DEF Same, SnapshotsInv, Snapshots
  <2>. QED BY <2>1, <2>2, <2>3, Reached
<1>4. pc' = "commit" => job'.staged = job'.tree /\ \A w \in Snapshots' : versions'[w] # job'.tree
  <2>1. CASE StageSnapshot /\ pc' = "commit"
    BY <2>1 DEF StageSnapshot, disk, End, Job, SnapshotsInv, Snapshots
  <2>2. CASE Same
    BY <2>2 DEF Same, SnapshotsInv, Snapshots
  <2>. QED BY <2>1, <2>2, Reached
<1>5. /\ pc' \in {"append", "save", "init_log", "init_save"} => versions'[job'.version] = job'.tree
      /\ pc' \in {"init_log", "init_save"} => job'.version = First
  <2>1. CASE CommitSnapshot
    <3>1. /\ job' = job /\ job.version \in Versions /\ versions'[job.version] = job.staged
          /\ job.staged = job.tree
          /\ pc' = IF job.cmd = "init" THEN "init_log" ELSE "append"
      BY <2>1 DEF CommitSnapshot, Goto, SnapshotsInv, LedgerInv, JobInv, Registering
    <3>2. job.cmd = "init" => job.version = First
      BY <2>1 DEF CommitSnapshot, LedgerInv, JobInv, OpeningNow, Opening, Registering
    <3>. QED BY <3>1, <3>2
  <2>2. CASE InitResume
    BY <2>2 DEF InitResume, disk, Goto, Job
  <2>3. CASE AppendBlock \/ InitLog
    <3>1. UNCHANGED <<versions, job>> /\ pc' \in {"save", "init_save"} /\ pc \in {"append", "init_log"}
      BY <2>3 DEF AppendBlock, InitLog, Goto
    <3>2. pc' = "init_save" => pc = "init_log"
      BY <2>3 DEF AppendBlock, InitLog, Goto
    <3>3. versions[job.version] = job.tree /\ (pc = "init_log" => job.version = First)
      BY <3>1 DEF SnapshotsInv
    <3>. QED BY <3>1, <3>2, <3>3
  <2>4. CASE Same
    BY <2>4 DEF Same, SnapshotsInv
  <2>. QED BY <2>1, <2>2, <2>3, <2>4, Reached
<1>. QED BY <1>1, <1>2, <1>3, <1>4, <1>5 DEF SnapshotsInv

LEMMA EvidenceStep ==
  ASSUME TypeOK, LedgerInv, SnapshotsInv, EvidenceInv, [Next]_vars
  PROVE  EvidenceInv'
<1>. SUFFICES ASSUME HashedIsMeasured PROVE EvidenceInv'
  BY DEF EvidenceInv, HashedIsMeasured
<1>. USE Constants DEF TypeOK
<1>1. HashedIsStaged
  BY DEF HashedIsMeasured, HashedIsStaged
<1>2. EvidenceIsOfItsSnapshot'
  <2>1. CASE Measure
    <3>1. /\ job.version \in Versions /\ versions' = versions
          /\ \E e \in {NoScore} \cup (Tree \cap {main}) : evidence' = [evidence EXCEPT ![job.version] = e]
      BY <2>1 DEF Measure, LedgerInv, JobInv
    <3>2. main \in Tree => versions[job.version] = main
      BY <2>1 DEF Measure, EvidenceInv
    <3>. QED BY <3>1, <3>2 DEF EvidenceInv, EvidenceIsOfItsSnapshot
  <2>2. CASE CommitSnapshot
    <3>1. /\ evidence' = evidence /\ versions[job.version] = Missing
          /\ \A v \in Versions \ {job.version} : versions'[v] = versions[v]
      BY <2>2, CommitEffect DEF CommitSnapshot, LedgerInv
    <3>. QED BY <3>1 DEF EvidenceInv, EvidenceIsOfItsSnapshot
  <2>3. CASE evidence' = evidence /\ versions' = versions
    BY <2>3 DEF EvidenceInv, EvidenceIsOfItsSnapshot
  <2>4. Measure => versions' = versions
    BY DEF Measure
  <2>. QED BY <2>1, <2>2, <2>3, <2>4, Frame, Effects
<1>3. pc' \in {"commit", "append", "save", "measure"} /\ Same => main' = main
  BY Effects DEF Same, PlaceCandidate, SwapOut, SwapIn, EditMain, HashedIsMeasured
<1>4. pc' \in {"commit", "append", "save"} => main' = job'.tree
  <2>1. CASE StageSnapshot /\ pc' = "commit"
    BY <1>1, <2>1 DEF StageSnapshot, disk, End, Job, SnapshotsInv
  <2>2. CASE CommitSnapshot /\ pc' = "append"
    BY <2>2 DEF CommitSnapshot, EvidenceInv
  <2>3. CASE AppendBlock
    BY <2>3 DEF AppendBlock, EvidenceInv
  <2>4. CASE Same /\ pc' \in {"commit", "append", "save"}
    BY <1>3, <2>4 DEF Same, EvidenceInv
  <2>. QED BY <2>1, <2>2, <2>3, <2>4, Reached
<1>5. ASSUME NEW v \in Versions, main \in Tree, main = mem.digests[v], mem = saved
      PROVE  versions[v] = main
  BY <1>1, <1>5 DEF SnapshotsInv
<1>6. pc' = "measure" /\ main' \in Tree => versions'[job'.version] = main'
  <2>1. CASE SaveCandidate
    BY <1>1, <2>1 DEF SaveCandidate, SnapshotsInv, EvidenceInv
  <2>2. CASE InitMeasure /\ pc' = "measure"
    <3>1. /\ main = mem.digests[First] /\ job'.version = First /\ UNCHANGED <<main, versions>>
      BY <2>2 DEF InitMeasure, NeedsMeasure, disk, End, Job
    <3>2. mem = saved
      BY <2>2 DEF InitMeasure, LedgerInv, MemInv, Unread
    <3>. QED BY <1>5, <3>1, <3>2
  <2>3. CASE DecideKept /\ pc' = "measure"
    <3>1. /\ main = mem.digests[job.version] /\ job' = job /\ UNCHANGED <<main, versions>>
      BY <2>3 DEF DecideKept, NeedsMeasure, disk, Goto
    <3>2. mem = saved /\ job.version \in Versions
      BY <2>3 DEF DecideKept, LedgerInv, MemInv, JobInv, Unread
    <3>. QED BY <1>5, <3>1, <3>2
  <2>4. CASE Same /\ pc' = "measure"
    BY <1>3, <2>4 DEF Same, EvidenceInv
  <2>. QED BY <2>1, <2>2, <2>3, <2>4, Reached
<1>. QED BY <1>2, <1>4, <1>6 DEF EvidenceInv


\* Past load_state, and outside an init, every known version is in the log.
LEMMA TornStep ==
  ASSUME TypeOK, LedgerInv, DeliverInv, [Next]_vars,
         Initialized', pc' \notin Unread \cup {"repair"}
  PROVE  Torn' = {}
<1>. USE DEF TypeOK
<1>1. pc \notin Unread \cup {"repair"} \/ LoadDone
  BY Effects DEF Initialized
<1>2. CASE LoadDone
  BY <1>2 DEF LoadDone, Torn, Snapshots
<1>3. CASE pc \notin Unread \cup {"repair"} /\ Initialized
  <2>1. Torn = {}
    BY <1>3 DEF DeliverInv
  <2>2. CASE log' = log /\ versions' = versions
    BY <2>1, <2>2 DEF Torn, Snapshots
  <2>3. CASE CommitSnapshot
    <3>1. /\ Snapshots' = Snapshots \cup {job.version} /\ log' = log
          /\ job.version \in Versions /\ job.version \notin Snapshots
      BY <2>3, CommitEffect DEF LedgerInv, Snapshots
    <3>2. log[job.version].status = "absent"
      BY <3>1 DEF LedgerInv, LogInv, Declared
    <3>. QED BY <2>1, <3>1, <3>2 DEF Torn
  <2>4. CASE versions' = versions /\ log' # log
    <3>1. ASSUME NEW v \in Snapshots PROVE log'[v].status # "torn"
      <4>1. v \in Versions /\ log[v].status # "torn"
        BY <2>1 DEF Torn, Snapshots
      <4>2. CASE RepairBlock \/ RepairStatus \/ RepairHead
        BY <1>3, <4>2 DEF RepairBlock, RepairStatus, RepairHead
      <4>3. CASE InitLog
        BY <1>3, <4>3 DEF InitLog, LedgerInv, JobInv
      <4>4. CASE AppendBlock
        BY <4>1, <4>4 DEF AppendBlock, CandidateBlock, NewBlock
      <4>5. CASE Score \/ DecideReverted \/ AppendNote
        BY <4>1, <4>5, AppendLineKeeps DEF Score, DecideReverted, AppendNote
      <4>6. CASE SetDecidedStatus
        BY <4>1, <4>6 DEF SetDecidedStatus, SetStatus, LedgerInv, JobInv, Block
      <4>7. ~StopInAppend
        BY DEF StopInAppend, End, Unread
      <4>. QED BY <2>4, <4>2, <4>3, <4>4, <4>5, <4>6, <4>7, Frame
    <3>. QED BY <2>4, <3>1 DEF Torn, Snapshots
  <2>. QED BY <2>2, <2>3, <2>4, Frame
<1>4. CASE pc \notin Unread \cup {"repair"} /\ ~Initialized
  <2>1. saved' # saved
    BY <1>4 DEF Initialized
  <2>2. ~(SaveIntent \/ SaveCandidate \/ SaveDecision \/ Restore)
    BY <1>4 DEF SaveIntent, SaveCandidate, SaveDecision, Restore, LedgerInv, MemInv, Unread, Opening
  <2>3. CASE InitSave
    <3>1. Snapshots \subseteq {First} /\ log[First].status = "baseline"
      BY <1>4, <2>3 DEF InitSave, LedgerInv, UnknownInv, JobInv
    <3>2. Snapshots' = Snapshots /\ log' = log
      BY <2>3 DEF InitSave, Snapshots
    <3>. QED BY <3>1, <3>2 DEF Torn
  <2>. QED BY <1>2, <2>1, <2>2, <2>3, Frame
<1>. QED BY <1>1, <1>2, <1>3, <1>4

\* Past the save of a decision the head's block reads as the head's should,
\* but for a restore, which leaves that to the next command.
LEMMA HeadReadsStep ==
  ASSUME TypeOK, LedgerInv, DeliverInv, [Next]_vars, job'.cmd # "restore",
         pc' \in Settled \/ (pc' = "settle_log" /\ job'.status = "reverted")
  PROVE  log'[saved'.head].status = HeadStatus(saved'.head)
<1>. USE DEF TypeOK, Settled
<1>1. CASE SaveDecision /\ job'.status = "reverted"
  <2>1. saved'.head = saved.head /\ log' = log
    BY <1>1, PastLoad DEF SaveDecision, State, LedgerInv, Unread, Opening
  <2>2. log[saved.head].status = HeadStatus(saved.head)
    BY <1>1, PastLoad DEF SaveDecision, LedgerInv, HeadInv, MemInv, Reconciled, Initialized, Unread, Opening
  <2>. QED BY <2>1, <2>2
<1>2. CASE SetDecidedStatus /\ pc' # "idle"
  <2>1. /\ pc = "settle_log" /\ job' = job /\ saved' = saved
        /\ log' = [log EXCEPT ![job.version].status = job.status]
    BY <1>2 DEF SetDecidedStatus, AfterStatus, SetStatus, End, Goto
  <2>2. /\ job.version \in Versions /\ saved.head \in Versions /\ job.version # First
        /\ job.status \in {"kept", "reverted"}
        /\ job.status = "kept" => saved.head = job.version
        /\ job.status = "reverted" => saved.head # job.version
    BY <2>1, PastLoad DEF LedgerInv, JobInv, Unread, Opening
  <2>3. CASE job.status = "kept"
    BY <2>1, <2>2, <2>3 DEF HeadStatus, Block
  <2>4. CASE job.status = "reverted"
    <3>1. log[saved.head].status = HeadStatus(saved.head)
      BY <2>1, <2>4 DEF DeliverInv
    <3>. QED BY <2>1, <2>2, <2>4, <3>1
  <2>. QED BY <2>2, <2>3, <2>4
<1>3. CASE AppendNote /\ pc' # "idle"
  <2>1. pc = "note" /\ job' = job /\ saved' = saved /\ saved.head \in Versions
    BY <1>3, PastLoad DEF AppendNote, AfterStatus, End, Goto, LedgerInv, Unread, Opening
  <2>2. log'[saved.head].status = log[saved.head].status
    BY <1>3, <2>1, AppendLineKeeps DEF AppendNote
  <2>. QED BY <2>1, <2>2 DEF DeliverInv
<1>4. ~Restore
  BY DEF Restore, DeliverInv
<1>5. CASE FinalizeSettled
  <2>1. pc \in {"finalize", "finalize_keep"} /\ UNCHANGED <<log, saved>>
    BY <1>5 DEF FinalizeSettled, Finalizing, disk
  <2>. QED BY <2>1 DEF LedgerInv, HeadInv, MemInv, Reconciled, Unread, Opening
<1>6. CASE (Deliver \/ SwapIn \/ SwapOut) /\ pc' # "idle"
  <2>1. pc \in Settled /\ UNCHANGED <<log, saved>> /\ job'.cmd = job.cmd
    BY <1>6 DEF Deliver, SwapIn, SwapOut, disk, End, Job
  <2>. QED BY <2>1 DEF DeliverInv
<1>7. CASE Same
  BY <1>7 DEF Same, DeliverInv
<1>. QED BY <1>1, <1>2, <1>3, <1>4, <1>5, <1>6, <1>7, Reached

\* With nothing unknown and nothing torn, a settled rollout is deliverable as
\* soon as main/ is the head's tree.
LEMMA Deliverable ==
  ASSUME TypeOK, LedgerInv, ParentsInv, DeliverInv,
         pc \in {"deliver", "swap", "swap_in"}, job.cmd # "restore"
  PROVE  /\ mem = saved /\ saved.head \in Versions /\ Initialized
         /\ main = versions[saved.head] => Delivered
         /\ saved.pending = None /\ Snapshots = Declared /\ Torn = {} /\ HeadReads(saved.head)
<1>1. mem = saved /\ saved.head \in Versions /\ Initialized
  BY PastLoad DEF LedgerInv, MemInv, Unread, Opening
<1>2. saved.pending = None /\ log[saved.head].status = HeadStatus(saved.head)
  BY DEF DeliverInv, Settled
<1>3. Torn = {} /\ Unknown(saved) = {}
  BY <1>1 DEF DeliverInv, LedgerInv, UnknownInv, Unread
<1>4. Snapshots = Declared
  BY <1>3 DEF LedgerInv, LogInv, ParentsInv, Unknown, Snapshots
<1>. QED BY <1>1, <1>2, <1>3, <1>4 DEF Delivered, HeadReads

\* Nothing stops a finalize of an initialized rollout.
LEMMA FinalizeRuns ==
  ASSUME TypeOK, LedgerInv, ParentsInv, SnapshotsInv, DeliverInv, HashedIsStaged,
         Refuse, job.cmd = "finalize"
  PROVE  ~Initialized
<1>. SUFFICES ASSUME Initialized PROVE FALSE
  OBVIOUS
<1>1. ~LoadRefused
  BY NothingBroken DEF LoadRefused
<1>2. ~EvaluateRefused /\ ~CommitRefused /\ ~InitRefused /\ ~RestoreRefused /\ ~FinalizeRefused
  BY DEF EvaluateRefused, CommitRefused, InitRefused, RestoreRefused, FinalizeRefused, LedgerInv, JobInv,
         Registering, DeliverInv
<1>3. ~SwapRefused
  BY Deliverable DEF SwapRefused, LedgerInv, SavedInv, Initialized
<1>4. ~DecideRefused
  BY DEF DecideRefused, DeliverInv, LedgerInv, MemInv, Unread
<1>5. ~StatusRefused
  BY DEF StatusRefused, LedgerInv, JobInv, ParentsInv
<1>. QED BY <1>1, <1>2, <1>3, <1>4, <1>5 DEF Refuse

\* What finalize hands over is deliverable when it ends.
LEMMA FinalizeStep ==
  ASSUME TypeOK, LedgerInv, ParentsInv, SnapshotsInv, DeliverInv, [Next]_vars, HashedIsStaged
  PROVE  FinalizeDelivers'
<1>1. outcome' = "finalize_refused" => ~Initialized'
  <2>1. CASE Refuse /\ job.cmd = "finalize"
    BY <2>1, FinalizeRuns DEF Refuse, disk, Initialized
  <2>2. CASE UNCHANGED vars
    BY <2>2 DEF vars, DeliverInv, FinalizeDelivers, Initialized
  <2>3. CASE pc # "idle" /\ outcome' = outcome
    BY <2>3 DEF DeliverInv
  <2>. QED BY <2>1, <2>2, <2>3, Effects
<1>2. outcome' = "finalized" => Delivered'
  <2>1. CASE Deliver /\ outcome' = "finalized"
    <3>1. pc = "deliver" /\ job.cmd \in {"finalize", "finalize_keep"} /\ UNCHANGED disk
      BY <2>1 DEF Deliver, LedgerInv, JobInv
    <3>2. outcome # "finalized"
      BY <3>1 DEF DeliverInv
    <3>3. main = mem.digests[mem.head] /\ main # Missing
      BY <2>1, <3>2 DEF Deliver, Goto
    <3>4. mem = saved /\ saved.head \in Versions
      BY <3>1, Deliverable
    <3>5. main = versions[saved.head]
      BY <3>3, <3>4 DEF SnapshotsInv
    <3>6. Delivered
      BY <3>1, <3>5, Deliverable
    <3>. QED BY <3>1, <3>6 DEF Delivered, disk, Initialized, Snapshots, Declared, Torn, HeadReads
  <2>2. CASE SwapIn /\ outcome' = "finalized"
    <3>1. pc = "swap_in" /\ UNCHANGED <<versions, log, evidence, saved>> /\ main' = versions[mem.head]
      BY <2>2 DEF SwapIn
    <3>2. outcome # "finalized"
      BY <3>1 DEF DeliverInv
    <3>3. job.cmd \in {"finalize", "finalize_keep"}
      BY <2>2, <3>2 DEF SwapIn, End, Goto
    <3>4. /\ mem = saved /\ Initialized /\ saved.pending = None
          /\ Snapshots = Declared /\ Torn = {} /\ HeadReads(saved.head)
      BY <3>1, <3>3, Deliverable
    <3>. QED BY <3>1, <3>4 DEF Delivered, Initialized, Snapshots, Declared, Torn, HeadReads
  <2>3. CASE UNCHANGED vars /\ outcome' = "finalized"
    <3>1. Delivered
      BY <2>3 DEF vars, DeliverInv, FinalizeDelivers
    <3>. QED BY <2>3, <3>1 DEF vars, Delivered, Initialized, Snapshots, Declared, Torn, HeadReads
  <2>4. CASE pc # "idle" /\ outcome' = outcome
    BY <2>4 DEF DeliverInv
  <2>. QED BY <2>1, <2>2, <2>3, <2>4, Effects
<1>. QED BY <1>1, <1>2 DEF FinalizeDelivers

LEMMA DeliverStep ==
  ASSUME TypeOK, LedgerInv, ParentsInv, SnapshotsInv, DeliverInv, [Next]_vars
  PROVE  DeliverInv'
<1>. USE DEF TypeOK
<1>1. pc' # "idle" => outcome' = "none"
  BY Effects DEF DeliverInv
<1>2. Initialized' /\ pc' \notin Unread \cup {"repair"} => Torn' = {}
  BY TornStep
<1>3. pc' \in {"restore", "finalize_keep"} => job'.cmd = pc'
  <2>1. CASE LoadDone
    BY <2>1 DEF LoadDone, Goto
  <2>2. CASE Same
    BY <2>2 DEF Same, DeliverInv
  <2>. QED BY <2>1, <2>2, Reached
<1>4. pc' = "decide" /\ job'.cmd # "decide" => saved'.pending = job'.version
  <2>1. CASE LoadDone
    BY <2>1 DEF LoadDone, Goto
  <2>2. CASE FinalizePending
    <3>1. job'.version = mem.pending /\ saved' = saved /\ pc \in {"finalize", "finalize_keep"}
      BY <2>2 DEF FinalizePending, Finalizing, disk, Job
    <3>. QED BY <3>1 DEF LedgerInv, MemInv, Unread
  <2>3. CASE Same
    BY <2>3 DEF Same, DeliverInv
  <2>. QED BY <2>1, <2>2, <2>3, Reached
<1>5. pc' \in Settled => saved'.pending = None
  <2>1. CASE SetDecidedStatus
    BY <2>1 DEF SetDecidedStatus, LedgerInv, JobInv
  <2>2. CASE FinalizeSettled
    <3>1. mem.pending = None /\ saved' = saved /\ pc \in {"finalize", "finalize_keep"}
      BY <2>2 DEF FinalizeSettled, Finalizing, disk
    <3>. QED BY <3>1 DEF LedgerInv, MemInv, Unread
  <2>3. CASE Restore
    BY <2>3 DEF Restore, State
  <2>4. CASE AppendNote \/ Deliver \/ SwapIn \/ SwapOut
    BY <2>4 DEF AppendNote, Deliver, SwapIn, SwapOut, disk, DeliverInv, Settled
  <2>5. CASE Same
    BY <2>5 DEF Same, DeliverInv, Settled
  <2>. QED BY <2>1, <2>2, <2>3, <2>4, <2>5, Reached DEF Settled
<1>6. job'.cmd # "restore" /\ (pc' \in Settled \/ (pc' = "settle_log" /\ job'.status = "reverted")) =>
        log'[saved'.head].status = HeadStatus(saved'.head)
  BY HeadReadsStep
<1>7. HashedIsStaged => FinalizeDelivers'
  BY FinalizeStep
<1>8. HashedIsStaged' <=> HashedIsStaged
  BY DEF HashedIsStaged
<1>. QED BY <1>1, <1>2, <1>3, <1>4, <1>5, <1>6, <1>7, <1>8 DEF DeliverInv, HeadStatus

-----------------------------------------------------------------------------

LEMMA InitIInv == RolloutInit => IInv
<1>. SUFFICES ASSUME RolloutInit PROVE IInv
  OBVIOUS
<1>. USE Constants DEF RolloutInit, Blank, NoIntent, Initialized, Snapshots, Unknown, Declared, NoBlock, NoJob,
       Registering, Unread
<1>1. LedgerInv
  BY InitInv
<1>2. LinesInv
  BY DEF LinesInv, LinesLandInTheirBlock
<1>3. ParentsInv
  BY DEF ParentsInv, Traced, ParentIn
<1>4. SnapshotsInv
  BY DEF SnapshotsInv, SnapshotsAreDistinct
<1>5. EvidenceInv
  BY DEF EvidenceInv, EvidenceIsOfItsSnapshot
<1>6. DeliverInv
  BY DEF DeliverInv, Settled, FinalizeDelivers
<1>. QED BY <1>1, <1>2, <1>3, <1>4, <1>5, <1>6 DEF IInv

\* Whatever is killed, repaired, edited and started again, the files, the saved
\* state and the memory of the running command agree as IInv says.
THEOREM Invariance == Spec => [](TypeOK /\ IInv)
<1>1. RolloutInit => TypeOK /\ IInv
  BY InitType, InitIInv
<1>2. TypeOK /\ IInv /\ [Next]_vars => (TypeOK /\ IInv)'
  BY LedgerInvStays, LinesStep, ParentsStep, SnapshotsStep, EvidenceStep, DeliverStep DEF IInv
<1>. QED BY <1>1, <1>2, PTL DEF Spec

\* Every score line and note of the log is in the block of the version it is
\* about, though each is appended to the end of the file.
THEOREM LinesLand == Spec => []LinesLandInTheirBlock
<1>1. IInv => LinesLandInTheirBlock
  BY DEF IInv, LinesInv
<1>. QED BY <1>1, Invariance, PTL

\* The parent in state.json and the parent in the log never contradict each
\* other, and either is an earlier version.
THEOREM ParentsAgreement == Spec => []ParentsAgree
<1>1. IInv => ParentsAgree
  BY DEF IInv, ParentsInv, Traced, ParentIn, ParentsAgree
<1>. QED BY <1>1, Invariance, PTL

\* When nobody edits main/ between its digest and its copy, no tree has two
\* numbers.
THEOREM Distinct == ASSUME HashedIsStaged PROVE Spec => []SnapshotsAreDistinct
<1>1. IInv => SnapshotsAreDistinct
  BY DEF IInv, SnapshotsInv
<1>. QED BY <1>1, Invariance, PTL

\* Then too a finalize of an initialized rollout is never refused, and when it
\* reports success the rollout is deliverable.
THEOREM FinalizeHandsOver == ASSUME HashedIsStaged PROVE Spec => []FinalizeDelivers
<1>1. IInv => FinalizeDelivers
  BY DEF IInv, DeliverInv
<1>. QED BY <1>1, Invariance, PTL

\* When nobody edits main/ between its digest and its measurement, a version's
\* measurement was made on the version's tree.
THEOREM OwnEvidence == ASSUME HashedIsMeasured PROVE Spec => []EvidenceIsOfItsSnapshot
<1>1. IInv => EvidenceIsOfItsSnapshot
  BY DEF IInv, EvidenceInv
<1>. QED BY <1>1, Invariance, PTL

-----------------------------------------------------------------------------
(* PlainHelper implements Ledger.                                          *)

LEMMA LedgerInit == RolloutInit => L!Init
BY Constants DEF RolloutInit, L!Init, ledgerKnown, ledgerUndecided, ledgerHead, ledgerEndorsed,
     Snapshots, Undecided, Initialized, Blank, L!None, None

\* The record of what is undecided changes with the set of undecided versions.
LEMMA SoleUndecided == ASSUME NEW v, Undecided = {v} PROVE ledgerUndecided = v
BY DEF ledgerUndecided

LEMMA LedgerStutter ==
  ASSUME ledgerKnown' = ledgerKnown, Undecided' = Undecided, ledgerHead' = ledgerHead,
         ledgerEndorsed' = ledgerEndorsed
  PROVE  UNCHANGED L!ledger
<1>1. ledgerUndecided' = ledgerUndecided
  BY DEF ledgerUndecided
<1>. QED BY <1>1 DEF L!ledger

\* The endorsed versions of an initialized rollout.
Reading == {v \in Versions : log[v].status \in {"baseline", "kept"}}

LEMMA ReadingFirst ==
  ASSUME \A v \in Versions : log[v].status \in {"baseline", "kept"} <=> v = First
  PROVE  Reading = {First}
BY Constants DEF Reading

LEMMA LedgerStep == ASSUME TypeOK, LedgerInv, [Next]_vars PROVE [L!Next]_(L!ledger)
<1>. USE Constants, StateType DEF TypeOK, LedgerInv, SavedInv, LogInv, Declared, Snapshots, Unknown,
       Initialized, Undecided, UndecidedNeverReadsKept, ledgerKnown, ledgerHead, ledgerEndorsed,
       L!Next, L!None
<1>1. CASE UNCHANGED <<saved, versions, log>>
  BY <1>1, LedgerStutter
<1>2. CASE LoadDone
  <2>1. UNCHANGED <<log, versions>> /\ Initialized /\ saved'.head = saved.head
    BY <1>2, LoadSaves DEF LoadDone
  <2>2. Unknown(saved)' = {}
    BY <1>2, <2>1, LoadSaves
  <2>3. Undecided' = Undecided
    <3>1. CASE Unknown(saved) = {}
      BY <1>2, <2>1, <2>2, <3>1, LoadSaves
    <3>2. CASE Unknown(saved) # {}
      <4>. PICK u \in Versions : u \in Unknown(saved)
        BY <3>2
      <4>1. \A w \in Unknown(saved) : w = u
        BY DEF UnknownInv
      <4>2. Unknown(saved) = {u}
        BY <4>1
      <4>3. u # saved.head
        BY <2>1
      <4>4. saved.pending = None
        BY <3>2 DEF UnknownInv
      <4>5. saved'.pending = u
        BY <1>2, <4>2, <4>3, <4>4, LoadSaves DEF AdoptedPending
      <4>. QED BY <2>1, <2>2, <4>2, <4>3, <4>4, <4>5
    <3>. QED BY <3>1, <3>2
  <2>. QED BY <2>1, <2>3, LedgerStutter
<1>3. CASE InitSave
  <2>1. saved'.head = First /\ UNCHANGED <<log, versions>> /\ ~Initialized
        /\ saved'.pending = None /\ saved'.digests[First] # Missing /\ log[First].status = "baseline"
    BY <1>3 DEF InitSave, JobInv, Blank
  <2>2. Undecided' = {} /\ Undecided = {}
    BY <1>3, <2>1 DEF UnknownInv
  <2>3. ledgerUndecided' = ledgerUndecided
    BY <2>2 DEF ledgerUndecided
  <2>4. Reading = {First} /\ Reading' = {First} /\ First \in Snapshots
    <3>1. \A v \in Versions : log[v].status \in {"baseline", "kept"} <=> v = First
      BY <2>1
    <3>2. First \in Snapshots
      BY <1>3 DEF InitSave, JobInv
    <3>3. Reading = {First}
      BY <3>1, ReadingFirst
    <3>4. Reading' = Reading
      BY <2>1, Zenon DEF Reading
    <3>. QED BY <3>2, <3>3, <3>4, Zenon
  <2>5. ledgerEndorsed' = {First}
    BY <2>1, <2>4 DEF Reading
  <2>6. ledgerHead = None /\ ledgerHead' = First /\ First \in ledgerKnown
    BY <2>1, <2>4
  <2>7. UNCHANGED <<ledgerKnown, ledgerUndecided>>
    BY <2>1, <2>3
  <2>. HIDE DEF ledgerKnown, ledgerHead, ledgerEndorsed
  <2>8. L!Open
    BY <2>5, <2>6, <2>7 DEF L!Open, First, None
  <2>. QED BY <2>8
<1>4. CASE SaveIntent
  <2>1. saved'.digests = saved.digests /\ saved'.head = saved.head /\ saved'.pending = saved.pending
        /\ UNCHANGED <<log, versions>>
    BY <1>4, PastLoad DEF SaveIntent, State, Unread, Opening
  <2>. QED BY <2>1, LedgerStutter
<1>5. CASE SaveCandidate
  <2>1. mem = saved /\ Unknown(saved) = {job.version} /\ saved.pending = None /\ Initialized
    BY <1>5, PastLoad DEF SaveCandidate, UnknownInv, JobInv, Unread, Opening, Registering
  <2>2. saved'.pending = job.version /\ saved'.head = saved.head /\ UNCHANGED <<log, versions>>
        /\ saved'.digests = [saved.digests EXCEPT ![job.version] = job.tree] /\ job.tree \in Tree
    BY <1>5, <2>1 DEF SaveCandidate, State, JobInv, Registering
  <2>3. Undecided' = {job.version} /\ Undecided = {job.version}
    BY <2>1, <2>2
  <2>. QED BY <2>2, <2>3, <2>1, LedgerStutter
<1>6. CASE SaveDecision
  <2>1. /\ mem = saved /\ Unknown(saved) = {} /\ saved.pending = job.version /\ Initialized
        /\ job.version \in Versions /\ job.status \in {"kept", "reverted"}
        /\ log[saved.head].status = HeadStatus(saved.head)
    BY <1>6, PastLoad DEF SaveDecision, UnknownInv, JobInv, Unread, Opening, HeadInv, Reconciled
  <2>2. saved'.pending = None /\ saved'.digests = saved.digests /\ UNCHANGED <<log, versions>>
        /\ saved'.head = IF job.status = "kept" THEN job.version ELSE saved.head
    BY <1>6, <2>1 DEF SaveDecision, State
  <2>3. ledgerUndecided = job.version /\ ledgerUndecided' = None
    BY <2>1, <2>2 DEF ledgerUndecided
  <2>4. saved.head \in Reading /\ Reading' = Reading
    BY <2>1, <2>2 DEF HeadStatus, Reading, VersionOrNone
  <2>5. CASE job.status = "kept"
    BY <2>1, <2>2, <2>3, <2>4, <2>5 DEF L!Keep, Reading, None
  <2>6. CASE job.status = "reverted"
    BY <2>1, <2>2, <2>3, <2>4, <2>6 DEF L!Revert, Reading, None
  <2>. QED BY <2>1, <2>5, <2>6
<1>7. CASE Restore
  <2>1. /\ mem = saved /\ Unknown(saved) = {} /\ saved.pending = None /\ Initialized
        /\ job.version \in Versions /\ job.version \in Snapshots
        /\ log[saved.head].status = HeadStatus(saved.head)
    BY <1>7, PastLoad DEF Restore, UnknownInv, JobInv, Unread, Opening, HeadInv, Reconciled
  <2>2. saved'.pending = None /\ saved'.digests = saved.digests /\ UNCHANGED <<log, versions>>
        /\ saved'.head = job.version
    BY <1>7, <2>1 DEF Restore, State
  <2>3. ledgerUndecided = None /\ ledgerUndecided' = None
    BY <2>1, <2>2 DEF ledgerUndecided
  <2>4. saved.head \in Reading /\ Reading' = Reading
    BY <2>1, <2>2 DEF HeadStatus, Reading, VersionOrNone
  <2>5. ledgerEndorsed' = ledgerEndorsed \cup {job.version}
    BY <2>1, <2>2, <2>4 DEF Reading
  <2>6. \E v \in Versions : L!Restore(v)
    BY <2>1, <2>2, <2>3, <2>5 DEF L!Restore, None
  <2>. QED BY <2>6
<1>8. CASE CommitSnapshot
  <2>. HIDE DEF Snapshots, Unknown
  <2>1. /\ job.version \in Versions /\ versions[job.version] = Missing
        /\ Snapshots' = Snapshots \cup {job.version} /\ UNCHANGED <<saved, log>>
        /\ saved.digests[job.version] = Missing
        /\ Unknown(saved)' = Unknown(saved) \cup {job.version}
    BY <1>8, CommitEffect
  <2>. USE DEF Snapshots, Unknown
  <2>2. CASE Initialized
    <3>1. Unknown(saved) = {} /\ saved.pending = None
      BY <1>8, <2>2 DEF CommitSnapshot, UnknownInv, JobInv, Registering, Unread
    <3>2. ledgerUndecided = None /\ ledgerUndecided' = job.version
      BY <2>1, <2>2, <3>1 DEF ledgerUndecided
    <3>3. ledgerEndorsed' = ledgerEndorsed /\ ledgerHead' = ledgerHead
      BY <2>1, <2>2
    <3>4. \E v \in Versions : L!Register(v)
      BY <2>1, <2>2, <3>2, <3>3 DEF L!Register, None
    <3>. QED BY <3>4
  <2>3. CASE ~Initialized
    <3>1. Snapshots = {} /\ job.version = First
      BY <1>8, <2>1, <2>3 DEF CommitSnapshot, UnknownInv, JobInv, OpeningNow, Opening, Registering
    <3>2. Undecided = {} /\ Undecided' = {}
      BY <2>1, <2>3
    <3>3. ledgerUndecided' = ledgerUndecided
      BY <3>2 DEF ledgerUndecided
    <3>4. L!Inherit
      BY <2>1, <2>3, <3>1, <3>3 DEF L!Inherit, First
    <3>. QED BY <3>4
  <2>. QED BY <2>2, <2>3
<1>9. CASE \/ RepairBlock \/ RepairStatus \/ RepairHead \/ InitLog \/ AppendBlock \/ Score
           \/ DecideReverted \/ SetDecidedStatus \/ AppendNote \/ StopInAppend
  <2>1. UNCHANGED <<saved, versions>>
    BY <1>9 DEF RepairBlock, RepairStatus, RepairHead, InitLog, AppendBlock, Score, DecideReverted,
                SetDecidedStatus, AppendNote, StopInAppend
  <2>2. Initialized => Reading' \cup {saved.head} = Reading \cup {saved.head}
    <3>. SUFFICES ASSUME Initialized
                  PROVE  Reading' \cup {saved.head} = Reading \cup {saved.head}
      OBVIOUS
    <3>. USE DEF Reading
    <3>1. CASE RepairBlock
      BY <3>1 DEF RepairBlock, Blockless, RepairedBlock
    <3>2. CASE RepairStatus
      BY <3>2 DEF RepairStatus, Torn, SetStatus, Block
    <3>3. CASE RepairHead
      BY <3>3 DEF RepairHead, HeadStatus, SetStatus, Block, MemInv, Adopting, Unread, Opening
    <3>4. CASE InitLog
      BY <3>4 DEF InitLog, JobInv
    <3>5. CASE AppendBlock
      <4>1. pc = "append" /\ job.version \in Versions
        BY <3>5 DEF AppendBlock, JobInv, Registering
      <4>2. job.version \in Unknown(saved)
        BY <4>1 DEF UnknownInv
      <4>3. log[job.version].status \notin {"kept", "baseline"}
        BY <4>1, <4>2
      <4>. QED BY <3>5, <4>1, <4>3 DEF AppendBlock, CandidateBlock, NewBlock, Block
    <3>6. CASE Score \/ DecideReverted \/ AppendNote
      BY <3>6, AppendLineKeeps DEF Score, DecideReverted, AppendNote
    <3>7. CASE SetDecidedStatus
      BY <3>7 DEF SetDecidedStatus, SetStatus, Block, JobInv
    <3>8. CASE StopInAppend
      BY <3>8, StopForm
    <3>. QED BY <1>9, <3>1, <3>2, <3>3, <3>4, <3>5, <3>6, <3>7, <3>8
  <2>3. ledgerEndorsed' = ledgerEndorsed
    BY <2>1, <2>2 DEF Reading
  <2>4. Undecided' = Undecided
    BY <2>1
  <2>. QED BY <2>1, <2>3, <2>4, LedgerStutter
<1>. QED BY <1>1, <1>2, <1>3, <1>4, <1>5, <1>6, <1>7, <1>8, <1>9, Frame

\* Crashes, repairs and all, the helper is the atomic ledger.
THEOREM Refinement == Spec => ImplementsLedger
<1>1. RolloutInit => L!Init
  BY LedgerInit
<1>2. TypeOK /\ LedgerInv /\ [Next]_vars => [L!Next]_(L!ledger)
  BY LedgerStep
<1>. QED BY <1>1, <1>2, LedgerInvariance, PTL DEF Spec, ImplementsLedger, L!Spec
=============================================================================
