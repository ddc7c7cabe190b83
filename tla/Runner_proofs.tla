---------------------------- MODULE Runner_proofs -----------------------------
(***************************************************************************)
(* Theorems about the making of evidence, for every number of processes    *)
(* and with kills of the helper and of its runners and disk faults, when   *)
(* no runner outlives the helper that launched it.                         *)
(***************************************************************************)
EXTENDS RunnerInv, TLAPS

-----------------------------------------------------------------------------
(* The initial state, and what steps have in common.                       *)

\* Before the first command nothing is measured and nothing runs.
LEMMA InitInv == Init => IInv
<1> SUFFICES ASSUME Init PROVE IInv
  OBVIOUS
<1>1. TypeOK
  BY DEF Init, TypeOK, NoHelper, Helper, Process, Units, RunOrNone
<1>2. LiveAreChildren /\ ChildrenAreTheirUnits
  BY DEF Init, NoHelper, LiveAreChildren, ChildrenAreTheirUnits, Live, Working
<1>3. HelperReads /\ Preparing
  BY DEF Init, NoHelper, HelperReads, Preparing
<1>4. (\A r \in Run : Published(r)) /\ OneRun /\ SuccessIsEvidence /\ RetriesAreNotRefused
  BY DEF Init, Published, OneRun, SuccessIsEvidence, RetriesAreNotRefused
<1> QED BY <1>1, <1>2, <1>3, <1>4 DEF IInv

\* A step of the helper that touches no file and no process.
LEMMA EvidenceStays ==
  ASSUME IInv, UNCHANGED <<files, runner>>
  PROVE  /\ (\A r \in Run : Published(r))'
         /\ OneRun' /\ SuccessIsEvidence' /\ RetriesAreNotRefused'
BY DEF IInv, Published, OneRun, SuccessIsEvidence, RetriesAreNotRefused, Complete, Present

\* A process that goes on to its next phase stays the child it was.
LEMMA ChildrenStay ==
  ASSUME IInv, NEW s \in Run, Live(s), helper' = helper,
         \A r \in Run : runner'[r].unit = runner[r].unit,
         \A r \in Run \ {s} : runner'[r] = runner[r],
         runner'[s].phase # "unused"
  PROVE  LiveAreChildren' /\ ChildrenAreTheirUnits'
BY DEF IInv, TypeOK, Helper, RunOrNone, LiveAreChildren, ChildrenAreTheirUnits, Behind, Live

\* Nor does the command notice, but for a phase it waits for.
LEMMA HelperStays ==
  ASSUME IInv, NEW s \in Run, Live(s), helper' = helper, files' = files,
         \A r \in Run \ {s} : runner'[r] = runner[r]
  PROVE  HelperReads' /\ Preparing'
BY DEF IInv, TypeOK, Helper, RunOrNone, HelperReads, Preparing, Present, Complete,
       ChildrenEnded, Children, Live, Working, Ended

\* A step that publishes nothing keeps the files of every unit one run's.
LEMMA OneRunStays ==
  ASSUME IInv, files' = files,
         \A r \in Run : /\ runner'[r].unit = runner[r].unit
                        /\ runner[r].phase # "unused" => runner'[r].phase # "unused"
  PROVE  OneRun'
BY DEF IInv, TypeOK, RunOrNone, OneRun

\* A runner that is left alone, with its unit, has published what it had.
LEMMA StillPublished ==
  ASSUME IInv, NEW r \in Run, runner'[r] = runner[r],
         files'[runner[r].unit] = files[runner[r].unit]
  PROVE  Published(r)'
BY DEF IInv, Published, Present, Complete

\* Of a runner that ended without success nothing is claimed.
LEMMA NothingClaimed ==
  ASSUME NEW r \in Run, runner'[r] = runner[r], ~Live(r), runner[r].phase # "ok"
  PROVE  Published(r)'
BY DEF Published, Live, Working

\* The files of a unit at which a runner is at work are its own.
LEMMA OwnFiles ==
  ASSUME IInv, NEW s \in Run, NEW u \in Units, runner[s].unit = u,
         Live(s), ~Complete(u)
  PROVE  \A f \in Files : files[u][f] \in {s, None}
<1>1. CASE Present(u) = {}
  BY <1>1 DEF IInv, OneRun, Present
<1>2. CASE Present(u) # {}
  <2>1. files[u]["result"] = s
    BY <1>2 DEF IInv, Published, Live, Working
  <2> QED BY <2>1, RunnerAssumption DEF IInv, OneRun, Files
<1> QED BY <1>1, <1>2

\* A publication keeps the files of every unit one run's ...
LEMMA PublicationOneRun ==
  ASSUME IInv, NEW s \in Run, NEW u \in Units, runner[s].unit = u,
         Live(s), ~Complete(u), NEW f \in UnitFiles(u),
         files' = [files EXCEPT ![u][f] = s],
         NEW phase \in Working, NEW process, process.unit = u, process.phase = phase,
         runner' = [runner EXCEPT ![s] = process]
  PROVE  OneRun'
<1>1. \A g \in Files : files'[u][g] \in {s, None}
  BY OwnFiles DEF IInv, TypeOK
<1>2. \A r \in Run : /\ runner'[r].unit = runner[r].unit
                     /\ runner[r].phase # "unused" => runner'[r].phase # "unused"
  BY DEF IInv, TypeOK, Working
<1>3. runner'[s].phase # "unused" /\ runner'[s].unit = u
  BY DEF IInv, TypeOK, Working
<1>4. \A g \in Files : files'[u][g] # None => g \in UnitFiles(u)
  BY DEF IInv, TypeOK, OneRun
<1>5. \A w \in Units \ {u} : files'[w] = files[w]
  BY DEF IInv, TypeOK
<1>6. ASSUME NEW w \in Units, NEW g \in Files, files'[w][g] # None
      PROVE  /\ g \in UnitFiles(w)
             /\ runner'[files'[w][g]].unit = w
             /\ runner'[files'[w][g]].phase # "unused"
             /\ \A h \in Files : files'[w][h] \in {files'[w][g], None}
  <2>1. CASE w = u
    BY <1>1, <1>3, <1>4, <1>6, <2>1
  <2>2. CASE w # u
    BY <1>2, <1>5, <1>6, <2>2 DEF IInv, TypeOK, OneRun, RunOrNone
  <2> QED BY <2>1, <2>2
<1> QED BY <1>6 DEF OneRun

\* ... and what the other runners have published in place.
LEMMA OthersPublished ==
  ASSUME IInv, NEW s \in Run, NEW u \in Units, runner[s].unit = u,
         Live(s), ~Complete(u),
         \A w \in Units \ {u} : files'[w] = files[w],
         NEW r \in Run \ {s}, runner'[r] = runner[r]
  PROVE  Published(r)'
<1>1. CASE runner[r].unit # u
  <2>1. files'[runner[r].unit] = files[runner[r].unit]
    BY <1>1 DEF IInv, TypeOK, Process
  <2> QED BY <2>1, StillPublished
<1>2. CASE runner[r].unit = u
  <2>1. ~Live(r)
    BY <1>2 DEF IInv, LiveAreChildren
  <2>2. runner[r].phase # "ok"
    BY <1>2 DEF IInv, SuccessIsEvidence
  <2> QED BY <2>1, <2>2, NothingClaimed
<1> QED BY <1>1, <1>2

\* A publication into an incomplete unit takes no success away.
LEMMA SuccessStays ==
  ASSUME IInv, NEW s \in Run, NEW u \in Units, ~Complete(u),
         \A w \in Units \ {u} : files'[w] = files[w],
         \A r \in Run \ {s} : runner'[r] = runner[r],
         runner'[s].phase \in Working
  PROVE  SuccessIsEvidence' /\ RetriesAreNotRefused'
<1>1. RetriesAreNotRefused'
  BY DEF IInv, RetriesAreNotRefused, Working
<1>2. ASSUME NEW r \in Run
      PROVE  (runner[r].phase = "ok" => /\ Complete(runner[r].unit)
                                        /\ files[runner[r].unit]["result"] = r)'
  <2>1. CASE runner'[r].phase # "ok"
    BY <2>1
  <2>2. CASE runner'[r].phase = "ok"
    <3>1. PICK w \in Units : runner'[r] = runner[r] /\ runner[r].unit = w
      BY <2>2 DEF IInv, TypeOK, Process, Working
    <3>2. Complete(w) /\ files[w]["result"] = r
      BY <2>2, <3>1 DEF IInv, SuccessIsEvidence
    <3>3. Complete(w)' /\ files'[w]["result"] = r
      BY <3>2 DEF Complete, Present
    <3> QED BY <3>1, <3>3 DEF Complete, Present
  <2> QED BY <2>1, <2>2
<1> QED BY <1>1, <1>2 DEF SuccessIsEvidence

-----------------------------------------------------------------------------
(* The steps of the helper.                                                *)

\* The command that starts finds no process at work.
LEMMA StartInv ==
  ASSUME IInv, NEW cmd \in Used, Start(cmd)
  PROVE  IInv'
<1>1. TypeOK'
  BY RunnerAssumption DEF IInv, Start, NoHelper, TypeOK, Helper, Units, RunOrNone
<1>2. LiveAreChildren' /\ ChildrenAreTheirUnits'
  BY DEF IInv, Start, NoHelper, HelperReads, LiveAreChildren, ChildrenAreTheirUnits,
       Behind, Live
<1>3. HelperReads' /\ Preparing'
  BY RunnerAssumption DEF IInv, Start, HelperReads, Preparing, UnitsOf, Commands
<1>4. /\ (\A r \in Run : Published(r))'
      /\ OneRun' /\ SuccessIsEvidence' /\ RetriesAreNotRefused'
  BY EvidenceStays DEF Start
<1> QED BY <1>1, <1>2, <1>3, <1>4 DEF IInv

\* Only a unit that is not complete is prepared.
LEMMA LookInv ==
  ASSUME IInv, Look
  PROVE  IInv'
<1>1. TypeOK'
  BY DEF IInv, Look, Goto, End, NoHelper, TypeOK, Helper, Units, RunOrNone
<1>2. LiveAreChildren' /\ ChildrenAreTheirUnits'
  BY DEF IInv, TypeOK, Helper, Look, Goto, End, NoHelper, HelperReads, LiveAreChildren,
       ChildrenAreTheirUnits, Behind, Live
<1>3. HelperReads' /\ Preparing'
  BY DEF IInv, TypeOK, Helper, Look, Goto, End, NoHelper, HelperReads, Preparing, UnitsOf,
       Present, Complete
<1>4. /\ (\A r \in Run : Published(r))'
      /\ OneRun' /\ SuccessIsEvidence' /\ RetriesAreNotRefused'
  BY EvidenceStays DEF Look
<1> QED BY <1>1, <1>2, <1>3, <1>4 DEF IInv

\* What is listed is all there is of an incomplete unit.
LEMMA DiscardInv ==
  ASSUME IInv, Discard
  PROVE  IInv'
<1>1. TypeOK'
  BY DEF IInv, Discard, Leftover, TypeOK, Helper, Files, UnitFiles, Present
<1>2. LiveAreChildren' /\ ChildrenAreTheirUnits'
  BY DEF IInv, Discard, LiveAreChildren, ChildrenAreTheirUnits, Behind, Live
<1>3. HelperReads' /\ Preparing'
  BY DEF IInv, Discard, Leftover, HelperReads, Preparing, Present, Complete
<1>4. /\ (\A r \in Run : Published(r))'
      /\ OneRun' /\ SuccessIsEvidence' /\ RetriesAreNotRefused'
  BY EvidenceStays DEF Discard
<1> QED BY <1>1, <1>2, <1>3, <1>4 DEF IInv

\* A complete unit of a confirmation is left as it is.
LEMMA SkipLaunchInv ==
  ASSUME IInv, SkipLaunch
  PROVE  IInv'
<1>1. TypeOK'
  BY DEF IInv, SkipLaunch, Prepared, TypeOK, Helper, Units
<1>2. LiveAreChildren' /\ ChildrenAreTheirUnits'
  BY DEF IInv, SkipLaunch, Prepared, LiveAreChildren, ChildrenAreTheirUnits, Behind, Live
<1>3. HelperReads' /\ Preparing'
  BY DEF IInv, SkipLaunch, Prepared, HelperReads, Preparing, UnitsOf
<1>4. /\ (\A r \in Run : Published(r))'
      /\ OneRun' /\ SuccessIsEvidence' /\ RetriesAreNotRefused'
  BY EvidenceStays DEF SkipLaunch
<1> QED BY <1>1, <1>2, <1>3, <1>4 DEF IInv

\* The command that ends leaves no process at work.
LEMMA WaitInv ==
  ASSUME IInv, Wait
  PROVE  IInv'
<1>1. TypeOK'
  BY DEF IInv, Wait, Goto, End, NoHelper, TypeOK, Helper, Units, RunOrNone
<1>2. LiveAreChildren' /\ ChildrenAreTheirUnits'
  BY RunnerAssumption DEF IInv, Wait, Goto, End, NoHelper, ChildrenEnded, Children,
       TypeOK, Helper, Process, Units, LiveAreChildren, ChildrenAreTheirUnits, Behind,
       Live, Working, Ended
<1>3. HelperReads' /\ Preparing'
  BY DEF IInv, Wait, Goto, End, NoHelper, ChildrenEnded, Children, TypeOK, Helper, Units,
       HelperReads, Preparing
<1>4. /\ (\A r \in Run : Published(r))'
      /\ OneRun' /\ SuccessIsEvidence' /\ RetriesAreNotRefused'
  BY EvidenceStays DEF Wait
<1> QED BY <1>1, <1>2, <1>3, <1>4 DEF IInv

\* Nor does the one that records a failure first.
LEMMA RecordInv ==
  ASSUME IInv, Record
  PROVE  IInv'
<1>1. TypeOK'
  BY DEF IInv, Record, End, NoHelper, TypeOK, Helper, Units, RunOrNone
<1>2. LiveAreChildren' /\ ChildrenAreTheirUnits'
  BY RunnerAssumption DEF IInv, Record, End, NoHelper, ChildrenEnded, Children, TypeOK,
       Process, LiveAreChildren, ChildrenAreTheirUnits, Behind, Live, Working, Ended,
       Preparing
<1>3. HelperReads' /\ Preparing'
  BY DEF IInv, Record, End, NoHelper, HelperReads, Preparing
<1>4. /\ (\A r \in Run : Published(r))'
      /\ OneRun' /\ SuccessIsEvidence' /\ RetriesAreNotRefused'
  BY EvidenceStays DEF Record
<1> QED BY <1>1, <1>2, <1>3, <1>4 DEF IInv

\* Files are removed only from a unit that is incomplete and stays so.
LEMMA UnlinkInv ==
  ASSUME IInv, NEW f \in Files, Unlink(f)
  PROVE  IInv'
<1>1. TypeOK'
  BY DEF IInv, Unlink, TypeOK, Helper, RunOrNone
<1>2. LiveAreChildren' /\ ChildrenAreTheirUnits'
  BY DEF IInv, Unlink, LiveAreChildren, ChildrenAreTheirUnits, Behind, Live
<1>3. HelperReads' /\ Preparing'
  BY DEF IInv, Unlink, TypeOK, Helper, HelperReads, Preparing, Present, Complete
<1>4. (\A r \in Run : Published(r))'
  <2>1. ASSUME NEW r \in Run, runner[r].unit = helper.unit
        PROVE  ~Live(r) /\ runner[r].phase # "ok"
    BY <2>1 DEF IInv, Unlink, LiveAreChildren, Behind, Preparing, SuccessIsEvidence
  <2>2. ASSUME NEW r \in Run, runner[r].unit # helper.unit
        PROVE  files'[runner[r].unit] = files[runner[r].unit]
    BY <2>2 DEF IInv, TypeOK, Process, Unlink
  <2> QED BY <2>1, <2>2, StillPublished, NothingClaimed DEF Unlink
<1>5. OneRun'
  <2>1. ASSUME NEW u \in Units, NEW g \in Files
        PROVE  files'[u][g] \in {files[u][g], None}
    BY DEF IInv, TypeOK, Unlink
  <2> QED BY <2>1 DEF IInv, OneRun, Unlink
<1>6. SuccessIsEvidence' /\ RetriesAreNotRefused'
  BY DEF IInv, Unlink, SuccessIsEvidence, RetriesAreNotRefused, Present, Complete, Preparing
<1> QED BY <1>1, <1>2, <1>3, <1>4, <1>5, <1>6 DEF IInv

\* A runner is launched for a unit that holds nothing.
LEMMA LaunchInv ==
  ASSUME IInv, NEW s \in Run, Launch(s)
  PROVE  IInv'
<1>1. TypeOK'
  BY DEF IInv, Launch, Prepared, TypeOK, Helper, Process, Units, RunOrNone, Working
<1>2. LiveAreChildren' /\ ChildrenAreTheirUnits'
  BY DEF IInv, Launch, Prepared, Unused, TypeOK, Helper, LiveAreChildren, ChildrenAreTheirUnits,
         HelperReads, Behind, Live, UnitsOf
<1>3. HelperReads' /\ Preparing'
  BY DEF IInv, Launch, Prepared, HelperReads, Preparing, UnitsOf
<1>4. (\A r \in Run : Published(r))'
  <2>1. ASSUME NEW r \in Run \ {s}
        PROVE  Published(r)'
    BY StillPublished DEF IInv, TypeOK, Launch
  <2>2. Published(s)'
    BY DEF IInv, TypeOK, Launch, Published, Present, Preparing
  <2> QED BY <2>1, <2>2
<1>5. OneRun'
  BY DEF IInv, Launch, Unused, OneRun
<1>6. SuccessIsEvidence' /\ RetriesAreNotRefused'
  BY DEF IInv, Launch, Unused, TypeOK, Process, SuccessIsEvidence, RetriesAreNotRefused, Present,
         Complete
<1> QED BY <1>1, <1>2, <1>3, <1>4, <1>5, <1>6 DEF IInv

-----------------------------------------------------------------------------
(* The steps of a runner.                                                  *)

\* A runner that finds nothing goes on.
LEMMA CheckInv ==
  ASSUME IInv, NEW s \in Run, Check(s)
  PROVE  IInv'
<1>1. /\ Live(s) /\ runner'[s].phase # "unused"
      /\ \A r \in Run : runner'[r].unit = runner[r].unit
      /\ \A r \in Run \ {s} : runner'[r] = runner[r]
  BY DEF Check, Phase, IInv, TypeOK, Process, Live, Working
<1>2. TypeOK'
  BY DEF Check, Phase, IInv, TypeOK, Process, Working, Ended
<1>3. LiveAreChildren' /\ ChildrenAreTheirUnits'
  BY <1>1, ChildrenStay DEF Check
<1>4. HelperReads' /\ Preparing'
  BY <1>1, HelperStays DEF Check
<1>5. (\A r \in Run : Published(r))'
  BY DEF Check, Phase, IInv, TypeOK, Process, Published, Present, Complete, UnitFiles
<1>6. OneRun'
  BY <1>1, OneRunStays DEF Check
<1>7. SuccessIsEvidence' /\ RetriesAreNotRefused'
  BY DEF Check, Phase, IInv, TypeOK, Process, SuccessIsEvidence, RetriesAreNotRefused,
       Present, Complete
<1> QED BY <1>2, <1>3, <1>4, <1>5, <1>6, <1>7 DEF IInv

\* The evaluation publishes nothing.
LEMMA EvaluateInv ==
  ASSUME IInv, NEW s \in Run, Evaluate(s)
  PROVE  IInv'
<1>1. /\ Live(s) /\ runner'[s].phase # "unused"
      /\ \A r \in Run : runner'[r].unit = runner[r].unit
      /\ \A r \in Run \ {s} : runner'[r] = runner[r]
  BY DEF Evaluate, Phase, IInv, TypeOK, Process, Live, Working
<1>2. TypeOK'
  BY DEF Evaluate, Phase, IInv, TypeOK, Process, Working, Ended
<1>3. LiveAreChildren' /\ ChildrenAreTheirUnits'
  BY <1>1, ChildrenStay DEF Evaluate
<1>4. HelperReads' /\ Preparing'
  BY <1>1, HelperStays DEF Evaluate
<1>5. (\A r \in Run : Published(r))'
  BY DEF Evaluate, Phase, IInv, TypeOK, Process, Published, Present, Complete
<1>6. OneRun'
  BY <1>1, OneRunStays DEF Evaluate
<1>7. SuccessIsEvidence' /\ RetriesAreNotRefused'
  BY DEF Evaluate, Phase, IInv, TypeOK, Process, SuccessIsEvidence, RetriesAreNotRefused,
       Present, Complete
<1> QED BY <1>2, <1>3, <1>4, <1>5, <1>6, <1>7 DEF IInv

\* A runner exits 0 once its unit is complete.
LEMMA ExitInv ==
  ASSUME IInv, NEW s \in Run, Exit(s)
  PROVE  IInv'
<1>1. /\ Live(s) /\ runner'[s].phase # "unused"
      /\ \A r \in Run : runner'[r].unit = runner[r].unit
      /\ \A r \in Run \ {s} : runner'[r] = runner[r]
  BY DEF Exit, Phase, IInv, TypeOK, Process, Live, Working
<1>2. TypeOK'
  BY DEF Exit, Phase, IInv, TypeOK, Process, Working, Ended
<1>3. LiveAreChildren' /\ ChildrenAreTheirUnits'
  BY <1>1, ChildrenStay DEF Exit
<1>4. HelperReads' /\ Preparing'
  BY <1>1, HelperStays DEF Exit
<1>5. (\A r \in Run : Published(r))'
  BY DEF Exit, Phase, IInv, TypeOK, Process, Published, Present, Complete
<1>6. OneRun'
  BY <1>1, OneRunStays DEF Exit
<1>7. SuccessIsEvidence' /\ RetriesAreNotRefused'
  BY DEF Exit, Phase, IInv, TypeOK, Process, SuccessIsEvidence, RetriesAreNotRefused,
       Present, Complete, Published
<1> QED BY <1>2, <1>3, <1>4, <1>5, <1>6, <1>7 DEF IInv

\* A runner that fails leaves what it has published.
LEMMA FailInv ==
  ASSUME IInv, NEW s \in Run, Fail(s)
  PROVE  IInv'
<1>1. /\ Live(s) /\ runner'[s].phase # "unused"
      /\ \A r \in Run : runner'[r].unit = runner[r].unit
      /\ \A r \in Run \ {s} : runner'[r] = runner[r]
  BY DEF Fail, IInv, TypeOK, Process, Live, Working
<1>2. TypeOK'
  BY DEF Fail, IInv, TypeOK, Process, Working, Ended
<1>3. LiveAreChildren' /\ ChildrenAreTheirUnits'
  BY <1>1, ChildrenStay DEF Fail
<1>4. HelperReads' /\ Preparing'
  BY <1>1, HelperStays DEF Fail
<1>5. (\A r \in Run : Published(r))'
  BY DEF Fail, IInv, TypeOK, Process, Published, Present, Complete
<1>6. OneRun'
  BY <1>1, OneRunStays DEF Fail
<1>7. SuccessIsEvidence' /\ RetriesAreNotRefused'
  BY DEF Fail, IInv, TypeOK, Process, SuccessIsEvidence, RetriesAreNotRefused, Present,
       Complete
<1> QED BY <1>2, <1>3, <1>4, <1>5, <1>6, <1>7 DEF IInv

\* So does one that is killed.
LEMMA KillRunnerInv ==
  ASSUME IInv, NEW s \in Run, KillRunner(s)
  PROVE  IInv'
<1>1. /\ Live(s) /\ runner'[s].phase # "unused"
      /\ \A r \in Run : runner'[r].unit = runner[r].unit
      /\ \A r \in Run \ {s} : runner'[r] = runner[r]
  BY DEF KillRunner, IInv, TypeOK, Process, Live, Working
<1>2. TypeOK'
  BY DEF KillRunner, IInv, TypeOK, Process, Working, Ended
<1>3. LiveAreChildren' /\ ChildrenAreTheirUnits'
  BY <1>1, ChildrenStay DEF KillRunner
<1>4. HelperReads' /\ Preparing'
  BY <1>1, HelperStays DEF KillRunner
<1>5. (\A r \in Run : Published(r))'
  BY DEF KillRunner, IInv, TypeOK, Process, Published, Present, Complete
<1>6. OneRun'
  BY <1>1, OneRunStays DEF KillRunner
<1>7. SuccessIsEvidence' /\ RetriesAreNotRefused'
  BY DEF KillRunner, IInv, TypeOK, Process, SuccessIsEvidence, RetriesAreNotRefused,
       Present, Complete
<1> QED BY <1>2, <1>3, <1>4, <1>5, <1>6, <1>7 DEF IInv

\* No runner finds a file, and none finds that its own result vanished.
LEMMA RefuseInv ==
  ASSUME IInv, NEW s \in Run, Refuse(s) \/ ResultVanished(s)
  PROVE  FALSE
<1>1. Published(s)
  BY DEF IInv
<1>2. ~Refuse(s)
  BY <1>1 DEF Refuse, Phase, Published
<1>3. ~ResultVanished(s)
  BY <1>1, RunnerAssumption DEF ResultVanished, Phase, Published
<1> QED BY <1>2, <1>3

\* The digest a runner reads is that of its own result.
LEMMA ReadDigestInv ==
  ASSUME IInv, NEW s \in Run, ReadDigest(s)
  PROVE  IInv'
<1>1. Live(s) /\ runner[s].phase = "digest"
  BY DEF ReadDigest, Live, Working
<1>2. PICK u \in Units : /\ runner[s].unit = u /\ Present(u) = {"result"}
                         /\ files[u]["result"] = s
  BY <1>1 DEF IInv, TypeOK, Process, Published
<1>3. runner' = [runner EXCEPT ![s] = [phase |-> "receipt", unit |-> u, digest |-> s]]
  BY <1>2 DEF ReadDigest
<1>4. TypeOK'
  BY <1>3 DEF IInv, TypeOK, Process, Working, RunOrNone, ReadDigest
<1>5. ASSUME NEW r \in Run \ {s}
      PROVE  Published(r)'
  <2>1. runner'[r] = runner[r]
    BY <1>3 DEF IInv, TypeOK
  <2> QED BY <2>1, StillPublished DEF ReadDigest
<1>6. Published(s)'
  <2>1. runner'[s].unit = u /\ runner'[s].phase = "receipt" /\ runner'[s].digest = s
    BY <1>2, <1>3 DEF IInv, TypeOK, Process
  <2> QED BY <1>2, <2>1 DEF Published, Present, ReadDigest
<1>7. /\ \A r \in Run : runner'[r].unit = runner[r].unit
      /\ \A r \in Run \ {s} : runner'[r] = runner[r]
      /\ runner'[s].phase = "receipt"
  BY <1>2, <1>3 DEF IInv, TypeOK
<1>8. LiveAreChildren' /\ ChildrenAreTheirUnits'
  BY <1>1, <1>7, ChildrenStay DEF ReadDigest
<1>9. HelperReads' /\ Preparing'
  BY <1>1, <1>7, HelperStays DEF ReadDigest
<1>10. OneRun'
  BY <1>7, OneRunStays DEF ReadDigest
<1>11. SuccessIsEvidence' /\ RetriesAreNotRefused'
  BY <1>7 DEF ReadDigest, IInv, TypeOK, Process, SuccessIsEvidence, RetriesAreNotRefused,
         Present, Complete
<1> QED BY <1>4, <1>5, <1>6, <1>8, <1>9, <1>10, <1>11 DEF IInv

\* The result is published into a unit that holds nothing ...
LEMMA PublishResultInv ==
  ASSUME IInv, NEW s \in Run, PublishResult(s)
  PROVE  IInv'
<1>1. Live(s) /\ runner[s].phase = "result"
  BY DEF PublishResult, Phase, Live, Working
<1>2. PICK u \in Units : runner[s].unit = u /\ Present(u) = {}
  BY <1>1 DEF IInv, TypeOK, Process, Published
<1>3. ~Complete(u) /\ "result" \in UnitFiles(u)
  BY <1>2 DEF Complete, UnitFiles, Files
<1>4. /\ files' = [files EXCEPT ![u]["result"] = s]
      /\ runner' = [runner EXCEPT ![s] = [runner[s] EXCEPT !.phase = "digest"]]
      /\ runner[s] \in Process
  BY <1>2 DEF PublishResult, Phase, IInv, TypeOK
<1>5. ASSUME NEW r \in Run \ {s}
      PROVE  Published(r)'
  BY <1>1, <1>2, <1>3, <1>4, OthersPublished DEF IInv, TypeOK
<1>6. Published(s)'
  <2>1. runner'[s].unit = u /\ runner'[s].phase = "digest"
    BY <1>2, <1>4 DEF IInv, TypeOK, Process
  <2>2. files'[u]["result"] = s /\ \A f \in Files \ {"result"} : files'[u][f] = files[u][f]
    BY <1>4 DEF IInv, TypeOK, Files
  <2>3. {f \in UnitFiles(u) : files'[u][f] # None} = {"result"}
    BY <1>2, <2>2, RunnerAssumption DEF Present, UnitFiles, Files
  <2> QED BY <2>1, <2>2, <2>3 DEF Published, Present
<1>7. OneRun'
  <2> DEFINE q == [runner[s] EXCEPT !.phase = "digest"]
  <2>1. q.unit = u /\ q.phase = "digest" /\ "digest" \in Working
    BY <1>2, <1>4 DEF Process, Working
  <2> QED BY <1>1, <1>2, <1>3, <1>4, <2>1, PublicationOneRun
<1>8. TypeOK'
  BY <1>4 DEF PublishResult, IInv, TypeOK, Process, Files, RunOrNone, Working
<1>9. /\ \A r \in Run : runner'[r].unit = runner[r].unit
      /\ \A r \in Run \ {s} : runner'[r] = runner[r]
      /\ runner'[s].phase \in Working
  BY <1>4 DEF IInv, TypeOK, Process, Working
<1>10. LiveAreChildren' /\ ChildrenAreTheirUnits'
  BY <1>1, <1>9, ChildrenStay DEF PublishResult, Working
<1>11. HelperReads' /\ Preparing'
  BY <1>1, <1>2, <1>4, <1>9 DEF PublishResult, IInv, TypeOK, HelperReads, Preparing, Behind,
         Live, LiveAreChildren, Present, Complete, ChildrenEnded, Children, Working, Ended
<1>12. SuccessIsEvidence' /\ RetriesAreNotRefused'
  BY <1>3, <1>4, <1>9, SuccessStays DEF IInv, TypeOK
<1> QED BY <1>5, <1>6, <1>7, <1>8, <1>10, <1>11, <1>12 DEF IInv

\* ... the receipt, naming it, beside it ...
LEMMA PublishReceiptInv ==
  ASSUME IInv, NEW s \in Run, PublishReceipt(s)
  PROVE  IInv'
<1>1. Live(s) /\ runner[s].phase = "receipt"
  BY DEF PublishReceipt, Phase, Live, Working
<1>2. PICK u \in Units : /\ runner[s].unit = u /\ runner[s].digest = s
                         /\ Present(u) = {"result"} /\ files[u]["result"] = s
  BY <1>1 DEF IInv, TypeOK, Process, Published
<1>3. ~Complete(u) /\ "receipt" \in UnitFiles(u)
  BY <1>2 DEF Complete, UnitFiles, Files
<1>4. PICK next \in {"safety", "exit"} :
        /\ next = IF u = "visible" THEN "safety" ELSE "exit"
        /\ runner' = [runner EXCEPT ![s] = [runner[s] EXCEPT !.phase = next]]
        /\ files' = [files EXCEPT ![u]["receipt"] = s]
        /\ runner[s] \in Process
  BY <1>2 DEF PublishReceipt, Phase, IInv, TypeOK
<1>5. ASSUME NEW r \in Run \ {s}
      PROVE  Published(r)'
  BY <1>1, <1>2, <1>3, <1>4, OthersPublished DEF IInv, TypeOK
<1>6. Published(s)'
  <2>1. runner'[s].unit = u /\ runner'[s].phase = next /\ runner'[s].digest = s
    BY <1>2, <1>4 DEF IInv, TypeOK, Process
  <2>2. files'[u]["receipt"] = s /\ \A f \in Files \ {"receipt"} : files'[u][f] = files[u][f]
    BY <1>4 DEF IInv, TypeOK, Files
  <2>3. {f \in UnitFiles(u) : files'[u][f] # None} = {"result", "receipt"}
    BY <1>2, <2>2, RunnerAssumption DEF Present, UnitFiles, Files
  <2> QED BY <1>2, <1>4, <2>1, <2>2, <2>3 DEF Published, Present, Complete, UnitFiles, Files
<1>7. OneRun'
  <2> DEFINE q == [runner[s] EXCEPT !.phase = next]
  <2>1. q.unit = u /\ q.phase = next /\ next \in Working
    BY <1>2, <1>4 DEF Process, Working
  <2> QED BY <1>1, <1>2, <1>3, <1>4, <2>1, PublicationOneRun
<1>8. TypeOK'
  BY <1>4 DEF PublishReceipt, IInv, TypeOK, Process, Files, RunOrNone, Working
<1>9. /\ \A r \in Run : runner'[r].unit = runner[r].unit
      /\ \A r \in Run \ {s} : runner'[r] = runner[r]
      /\ runner'[s].phase \in Working
  BY <1>4 DEF IInv, TypeOK, Process, Working
<1>10. LiveAreChildren' /\ ChildrenAreTheirUnits'
  BY <1>1, <1>9, ChildrenStay DEF PublishReceipt, Working
<1>11. HelperReads' /\ Preparing'
  BY <1>1, <1>2, <1>4, <1>9 DEF PublishReceipt, IInv, TypeOK, HelperReads, Preparing, Behind,
         Live, LiveAreChildren, Present, Complete, ChildrenEnded, Children, Working, Ended
<1>12. SuccessIsEvidence' /\ RetriesAreNotRefused'
  BY <1>3, <1>4, <1>9, SuccessStays DEF IInv, TypeOK
<1> QED BY <1>5, <1>6, <1>7, <1>8, <1>10, <1>11, <1>12 DEF IInv

\* ... and the safety report beside both.
LEMMA PublishSafetyInv ==
  ASSUME IInv, NEW s \in Run, PublishSafety(s)
  PROVE  IInv'
<1>1. Live(s) /\ runner[s].phase = "safety"
  BY DEF PublishSafety, Phase, Live, Working
<1>2. PICK u \in Units : /\ runner[s].unit = u /\ runner[s].digest = s /\ u = "visible"
                         /\ Present(u) = {"result", "receipt"} /\ files[u]["result"] = s
  BY <1>1 DEF IInv, TypeOK, Process, Published
<1>3. ~Complete(u) /\ "safety" \in UnitFiles(u)
  BY <1>2 DEF Complete, UnitFiles, Files
<1>4. /\ runner' = [runner EXCEPT ![s] = [runner[s] EXCEPT !.phase = "exit"]]
      /\ files' = [files EXCEPT ![u]["safety"] = s]
      /\ runner[s] \in Process
  BY <1>2 DEF PublishSafety, Phase, IInv, TypeOK
<1>5. ASSUME NEW r \in Run \ {s}
      PROVE  Published(r)'
  BY <1>1, <1>2, <1>3, <1>4, OthersPublished DEF IInv, TypeOK
<1>6. Published(s)'
  <2>1. runner'[s].unit = u /\ runner'[s].phase = "exit"
    BY <1>2, <1>4 DEF IInv, TypeOK, Process
  <2>2. files'[u]["safety"] = s /\ \A f \in Files \ {"safety"} : files'[u][f] = files[u][f]
    BY <1>4 DEF IInv, TypeOK, Files
  <2>3. {f \in UnitFiles(u) : files'[u][f] # None} = UnitFiles(u) /\ files'[u]["result"] = s
    BY <1>2, <2>2, RunnerAssumption DEF Present, UnitFiles, Files
  <2> QED BY <2>1, <2>3 DEF Published, Present, Complete
<1>7. OneRun'
  <2> DEFINE q == [runner[s] EXCEPT !.phase = "exit"]
  <2>1. q.unit = u /\ q.phase = "exit" /\ "exit" \in Working
    BY <1>2, <1>4 DEF Process, Working
  <2> QED BY <1>1, <1>2, <1>3, <1>4, <2>1, PublicationOneRun
<1>8. TypeOK'
  BY <1>4 DEF PublishSafety, IInv, TypeOK, Process, Files, RunOrNone, Working
<1>9. /\ \A r \in Run : runner'[r].unit = runner[r].unit
      /\ \A r \in Run \ {s} : runner'[r] = runner[r]
      /\ runner'[s].phase \in Working
  BY <1>4 DEF IInv, TypeOK, Process, Working
<1>10. LiveAreChildren' /\ ChildrenAreTheirUnits'
  BY <1>1, <1>9, ChildrenStay DEF PublishSafety, Working
<1>11. HelperReads' /\ Preparing'
  BY <1>1, <1>2, <1>4, <1>9 DEF PublishSafety, IInv, TypeOK, HelperReads, Preparing, Behind,
         Live, LiveAreChildren, Present, Complete, ChildrenEnded, Children, Working, Ended
<1>12. SuccessIsEvidence' /\ RetriesAreNotRefused'
  BY <1>3, <1>4, <1>9, SuccessStays DEF IInv, TypeOK
<1> QED BY <1>5, <1>6, <1>7, <1>8, <1>10, <1>11, <1>12 DEF IInv

\* The helper is killed with every runner it launched.
LEMMA KillHelperInv ==
  ASSUME IInv, OrphansSurvive = FALSE, NEW surviving, KillHelper(surviving)
  PROVE  IInv'
<1>1. \A r \in Run : runner'[r] = IF Live(r) THEN [runner[r] EXCEPT !.phase = "killed"] ELSE runner[r]
  BY DEF KillHelper
<1>2. TypeOK'
  BY DEF IInv, KillHelper, End, NoHelper, TypeOK, Helper, Process, Units, RunOrNone, Ended
<1>3. LiveAreChildren' /\ ChildrenAreTheirUnits'
  BY <1>1 DEF IInv, TypeOK, Process, KillHelper, End, NoHelper, LiveAreChildren, ChildrenAreTheirUnits,
         Live, Working
<1>4. HelperReads' /\ Preparing'
  BY DEF KillHelper, End, NoHelper, HelperReads, Preparing
<1>5. (\A r \in Run : Published(r))'
  BY <1>1 DEF IInv, TypeOK, Process, KillHelper, Published, Present, Complete
<1>6. OneRun'
  <2>1. \A r \in Run : /\ runner'[r].unit = runner[r].unit
                       /\ runner[r].phase # "unused" => runner'[r].phase # "unused"
    BY <1>1 DEF IInv, TypeOK, Process
  <2> QED BY <2>1, OneRunStays DEF KillHelper
<1>7. SuccessIsEvidence' /\ RetriesAreNotRefused'
  BY <1>1 DEF IInv, TypeOK, Process, KillHelper, SuccessIsEvidence, RetriesAreNotRefused,
         Present, Complete
<1> QED BY <1>2, <1>3, <1>4, <1>5, <1>6, <1>7 DEF IInv

-----------------------------------------------------------------------------
(* The theorems.                                                           *)

\* Every step keeps the invariant.
LEMMA StepInv ==
  ASSUME OrphansSurvive = FALSE, IInv, [Next]_vars
  PROVE  IInv'
<1>1. CASE \E cmd \in Used : Start(cmd)
  BY <1>1, StartInv
<1>2. CASE HelperStep
  BY <1>2, LookInv, DiscardInv, SkipLaunchInv, WaitInv, RecordInv, UnlinkInv, LaunchInv DEF HelperStep
<1>3. CASE \E r \in Run : RunnerStep(r)
  BY <1>3, CheckInv, RefuseInv, EvaluateInv, PublishResultInv, ReadDigestInv, PublishReceiptInv,
     PublishSafetyInv, ExitInv DEF RunnerStep
<1>4. CASE \E r \in Run : Fail(r) \/ KillRunner(r)
  BY <1>4, FailInv, KillRunnerInv
<1>5. CASE \E surviving \in SUBSET {r \in Run : Live(r)} : KillHelper(surviving)
  BY <1>5, KillHelperInv
<1>6. CASE UNCHANGED vars
  <2>1. TypeOK' /\ LiveAreChildren' /\ ChildrenAreTheirUnits'
    BY <1>6 DEF vars, IInv, TypeOK, LiveAreChildren, ChildrenAreTheirUnits, Behind, Live
  <2>2. HelperReads' /\ Preparing'
    BY <1>6 DEF vars, IInv, HelperReads, Preparing, Present, Complete, ChildrenEnded, Children
  <2> QED BY <1>6, <2>1, <2>2, EvidenceStays DEF vars, IInv
<1> QED BY <1>1, <1>2, <1>3, <1>4, <1>5, <1>6 DEF Next

\* The inductive invariant: a process at work is the child of the running
\* command, its unit holds what it has published so far and nothing else.
THEOREM Invariance ==
  ASSUME OrphansSurvive = FALSE
  PROVE  Spec => []IInv
<1>1. Init => IInv
  BY InitInv
<1>2. IInv /\ [Next]_vars => IInv'
  BY StepInv
<1> QED BY <1>1, <1>2, PTL DEF Spec

\* A unit that has all its files is one evaluation's.
THEOREM EvidenceIsCoherent ==
  ASSUME OrphansSurvive = FALSE
  PROVE  Spec => []CompleteIsCoherent
<1>1. IInv => CompleteIsCoherent
  <2> SUFFICES ASSUME IInv, NEW u \in Units, Complete(u), NEW f \in UnitFiles(u)
               PROVE  files[u][f] = files[u]["result"]
    BY DEF CompleteIsCoherent, Coherent
  <2>1. f \in Files /\ files[u][f] # None /\ files[u]["result"] # None
    BY DEF Complete, Present, UnitFiles, Files
  <2> QED BY <2>1 DEF IInv, OneRun, Files
<1> QED BY <1>1, Invariance, PTL

\* What a stop left never refuses a retry, and a success is never undone.
THEOREM RetriesAndSuccesses ==
  ASSUME OrphansSurvive = FALSE
  PROVE  Spec => [](RetriesAreNotRefused /\ SuccessIsEvidence)
<1>1. IInv => RetriesAreNotRefused /\ SuccessIsEvidence
  BY DEF IInv
<1> QED BY <1>1, Invariance, PTL

\* A runner publishes only where there is nothing.
LEMMA NothingReplaced ==
  ASSUME IInv, NEW u \in Units, NEW f \in UnitFiles(u), f \notin Present(u),
         NEW x, files' = [files EXCEPT ![u][f] = x]
  PROVE  \A w \in Units, g \in Files : files[w][g] # None => files'[w][g] \in {files[w][g], None}
BY SMTT(30) DEF IInv, TypeOK, Present

\* No publication replaces a file.
THEOREM EvidenceIsWrittenOnce ==
  ASSUME OrphansSurvive = FALSE
  PROVE  Spec => WrittenOnce
<1> DEFINE Kept == \A u \in Units, f \in Files :
                     files[u][f] # None => files'[u][f] \in {files[u][f], None}
<1>1. ASSUME IInv, [Next]_vars
      PROVE  Kept
  <2>1. CASE files' = files
    BY <2>1
  <2>2. ASSUME NEW f \in Files, Unlink(f)
        PROVE  Kept
    BY <1>1, <2>2 DEF IInv, TypeOK, Unlink
  <2>3. ASSUME NEW s \in Run, PublishResult(s) \/ PublishReceipt(s) \/ PublishSafety(s)
        PROVE  Kept
    <3>1. Live(s) /\ runner[s].phase \in {"result", "receipt", "safety"}
      BY <2>3 DEF PublishResult, PublishReceipt, PublishSafety, Phase, Live, Working
    <3>2. PICK u \in Units : u = runner[s].unit
      BY <1>1 DEF IInv, TypeOK, Process
    <3>3. PICK f \in Files : /\ f = runner[s].phase
                             /\ \E x : files' = [files EXCEPT ![u][f] = x]
      BY <2>3, <3>2 DEF PublishResult, PublishReceipt, PublishSafety, Phase, Files
    <3>4. f \notin Present(u) /\ f \in UnitFiles(u)
      <4>1. Published(s)
        BY <1>1 DEF IInv
      <4> QED BY <3>1, <3>2, <3>3, <4>1 DEF Published, UnitFiles, Files
    <3>5. PICK x : files' = [files EXCEPT ![u][f] = x]
      BY <3>3
    <3> QED BY <1>1, <3>2, <3>4, <3>5, NothingReplaced
  <2> QED
    BY <1>1, <2>1, <2>2, <2>3 DEF Next, vars, Start, HelperStep, Look, Discard, SkipLaunch, Wait, Record,
       Launch, RunnerStep, Check, Refuse, Evaluate, ReadDigest, ResultVanished, Exit, Fail, KillRunner,
       KillHelper
<1>2. IInv /\ [Next]_vars => [Kept]_vars
  BY <1>1
<1> QED BY <1>2, Invariance, PTL DEF Spec, WrittenOnce

-----------------------------------------------------------------------------
(* Evidence, once complete, is final.                                      *)

\* What a runner at work does next, it does to a unit of its own.
LEMMA WriterFacts ==
  ASSUME IInv, NEW s \in Run, Live(s)
  PROVE  /\ runner[s].unit \in Units
         /\ Published(s)
         /\ s # None
BY RunnerAssumption DEF IInv, TypeOK, Process

\* A step that leaves every unit as it is, or writes or removes one file of a
\* unit that is incomplete before and after, counts nothing.
LEMMA NothingCounted ==
  ASSUME NEW u \in Units, ~Complete(u), ~Complete(u)',
         \A w \in Units \ {u} : files'[w] = files[w]
  PROVE  UNCHANGED counted
<1>1. ASSUME NEW w \in Units
      PROVE  Counted(w)' = Counted(w)
  BY DEF Counted, Complete, Present
<1> QED BY <1>1 DEF counted

\* The publication that completes a unit counts its run.
LEMMA RunCounted ==
  ASSUME IInv, NEW s \in Run, NEW u \in Units, runner[s].unit = u, s # None,
         ~Complete(u), Complete(u)', files'[u]["result"] = s,
         \A w \in Units \ {u} : files'[w] = files[w]
  PROVE  Abstract!Count(u, s)
<1>1. counted[u] = None
  BY DEF counted, Counted
<1>2. \A w \in Units : counted[w] # s
  BY DEF counted, IInv, OneRun, Counted, Files
<1>3. ASSUME NEW w \in Units
      PROVE  Counted(w)' = IF w = u THEN s ELSE Counted(w)
  BY DEF Counted, Complete, Present
<1>4. counted' = [counted EXCEPT ![u] = s]
  BY <1>3 DEF counted
<1> QED BY <1>1, <1>2, <1>4 DEF Abstract!Count

\* The result alone completes nothing.
LEMMA ResultCounts ==
  ASSUME IInv, NEW s \in Run, PublishResult(s)
  PROVE  UNCHANGED counted
<1>1. Live(s) /\ runner[s].phase = "result"
  BY DEF PublishResult, Phase, Live, Working
<1>2. PICK u \in Units : runner[s].unit = u /\ Present(u) = {}
  BY <1>1, WriterFacts DEF Published
<1>3. /\ \A w \in Units \ {u} : files'[w] = files[w]
      /\ files'[u] = [files[u] EXCEPT !["result"] = s]
  BY <1>2 DEF IInv, TypeOK, PublishResult
<1>4. Present(u)' \subseteq {"result"}
  BY <1>2, <1>3 DEF IInv, TypeOK, Present, UnitFiles, Files
<1>5. ~Complete(u) /\ ~Complete(u)'
  BY <1>2, <1>4 DEF Complete, UnitFiles, Files
<1> QED BY <1>2, <1>3, <1>5, NothingCounted

\* The receipt completes the unit of a confirmation, and no other.
LEMMA ReceiptCounts ==
  ASSUME IInv, NEW s \in Run, PublishReceipt(s)
  PROVE  [Abstract!Next]_counted
<1>1. Live(s) /\ runner[s].phase = "receipt"
  BY DEF PublishReceipt, Phase, Live, Working
<1>2. PICK u \in Units : /\ runner[s].unit = u /\ runner[s].digest = s /\ s # None
                         /\ Present(u) = {"result"} /\ files[u]["result"] = s
  BY <1>1, WriterFacts DEF Published
<1>3. files' = [files EXCEPT ![u]["receipt"] = s]
  BY <1>2 DEF PublishReceipt
<1>4. /\ files \in [Units -> [Files -> RunOrNone]]
      /\ \A w \in Units \ {u} : files'[w] = files[w]
      /\ files'[u] = [files[u] EXCEPT !["receipt"] = s]
  BY <1>2, <1>3 DEF IInv, TypeOK
<1>5. Present(u)' = {"result", "receipt"}
  BY <1>2, <1>4 DEF Present, UnitFiles, Files
<1>6. ~Complete(u)
  BY <1>2 DEF Complete, UnitFiles, Files
<1>7. CASE u = "visible"
  <2>1. ~Complete(u)'
    BY <1>5, <1>7 DEF Complete, UnitFiles, Files
  <2> QED BY <1>2, <1>4, <1>6, <2>1, NothingCounted
<1>8. CASE u # "visible"
  <2>1. Complete(u)'
    BY <1>5, <1>8 DEF Complete, UnitFiles
  <2>2. files'[u]["result"] = s
    BY <1>2, <1>4 DEF Files
  <2>3. Abstract!Count(u, s)
    BY <1>2, <1>4, <1>6, <2>1, <2>2, RunCounted
  <2> QED BY <1>2, <2>3 DEF Abstract!Next
<1> QED BY <1>7, <1>8

\* The safety report completes the visible unit.
LEMMA SafetyCounts ==
  ASSUME IInv, NEW s \in Run, PublishSafety(s)
  PROVE  [Abstract!Next]_counted
<1>1. Live(s) /\ runner[s].phase = "safety"
  BY DEF PublishSafety, Phase, Live, Working
<1>2. PICK u \in Units : /\ runner[s].unit = u /\ runner[s].digest = s /\ s # None
                         /\ Present(u) = {"result", "receipt"} /\ files[u]["result"] = s
                         /\ u = "visible"
  BY <1>1, WriterFacts DEF Published
<1>3. files' = [files EXCEPT ![u]["safety"] = s]
  BY <1>2 DEF PublishSafety
<1>4. /\ files \in [Units -> [Files -> RunOrNone]]
      /\ \A w \in Units \ {u} : files'[w] = files[w]
      /\ files'[u] = [files[u] EXCEPT !["safety"] = s]
  BY <1>2, <1>3 DEF IInv, TypeOK
<1>5. ~Complete(u) /\ Complete(u)' /\ files'[u]["result"] = s
  BY <1>2, <1>4 DEF Complete, Present, UnitFiles, Files
<1>6. Abstract!Count(u, s)
  BY <1>2, <1>4, <1>5, RunCounted
<1> QED BY <1>2, <1>6 DEF Abstract!Next

\* What is discarded did not count.
LEMMA UnlinkCounts ==
  ASSUME IInv, NEW f \in Files, Unlink(f)
  PROVE  UNCHANGED counted
<1>1. PICK u \in Units : u = helper.unit /\ ~Complete(u) /\ f \in UnitFiles(u)
  BY DEF IInv, TypeOK, Helper, Preparing, Unlink
<1>2. /\ \A w \in Units \ {u} : files'[w] = files[w]
      /\ files'[u][f] = None
  BY <1>1 DEF IInv, TypeOK, Unlink
<1>3. f \notin {g \in UnitFiles(u) : files'[u][g] # None}
  BY <1>2
<1>4. {g \in UnitFiles(u) : files'[u][g] # None} # UnitFiles(u)
  BY <1>1, <1>3
<1>5. CASE ~Complete(u)'
  BY <1>1, <1>2, <1>5, NothingCounted
<1> QED BY <1>4, <1>5 DEF Complete, Present

\* The publication of files one by one, with kills, failures and retries,
\* implements the evidence that is written once.
THEOREM Refinement ==
  ASSUME OrphansSurvive = FALSE
  PROVE  Spec => EvidenceIsFinal
<1>1. Init => Abstract!Init
  BY DEF Init, Abstract!Init, counted, Counted, Complete, Present, UnitFiles, Files
<1>2. ASSUME IInv, [Next]_vars
      PROVE  [Abstract!Next]_counted
  <2>1. CASE files' = files
    BY <2>1 DEF counted, Counted, Complete, Present
  <2>2. CASE files' # files
    <3>1. \/ \E f \in Files : Unlink(f)
          \/ \E r \in Run : PublishResult(r) \/ PublishReceipt(r) \/ PublishSafety(r)
      BY <1>2, <2>2 DEF Next, vars, Start, HelperStep, Look, Discard, SkipLaunch, Wait, Record, Launch,
         RunnerStep, Check, Refuse, Evaluate, ReadDigest, ResultVanished, Exit, Fail,
         KillRunner, KillHelper
    <3> QED BY <1>2, <3>1, UnlinkCounts, ResultCounts, ReceiptCounts, SafetyCounts
  <2> QED BY <2>1, <2>2
<1>3. IInv /\ [Next]_vars => [Abstract!Next]_counted
  BY <1>2
<1> QED BY <1>1, <1>3, Invariance, PTL DEF Spec, EvidenceIsFinal, Abstract!Spec
=============================================================================
