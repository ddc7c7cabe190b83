------------------------------ MODULE Gate_proofs ------------------------------
(***************************************************************************)
(* Theorems about the decision gate, for every number of invocations,      *)
(* versions, seeds and lines, with kills, disk faults and edits.           *)
(***************************************************************************)
EXTENDS GateInv, FiniteSetTheorems, TLAPS

-----------------------------------------------------------------------------
(* The operators that read the log.                                        *)

\* The next look is a positive number.
LEMMA LookType ==
  ASSUME NEW n \in Nat
  PROVE  NextLook(n) \in Nat
<1> DEFINE R1 == {i \in 1 .. n : Resolves(i)}
<1>1. IsFiniteSet(1 .. n)
  BY FS_Interval
<1>2. R1 \in SUBSET (1 .. n)
  OBVIOUS
<1>3. IsFiniteSet(R1)
  BY <1>1, <1>2, FS_Subset
<1>4. Cardinality(R1) \in Nat
  BY <1>3, FS_CardinalityType
<1> QED BY <1>4 DEF NextLook

\* What derive_seeds returns are seeds outside the exclusion set.
LEMMA DerivedFresh ==
  ASSUME NEW tree, NEW look, NEW size, NEW exclude
  PROVE  DerivedSeeds(tree, look, size, exclude) \subseteq Seed \ exclude
BY DEF DerivedSeeds

\* Appending a line changes nothing the operators say of the lines before.
LEMMA PrefixStays ==
  ASSUME NEW l, log \in Seq(Line), l \in Line, log' = Append(log, l),
         NEW n \in 0 .. Len(log)
  PROVE  /\ OpenLines(n)' = OpenLines(n)
         /\ Excluded(n)' = Excluded(n)
         /\ NextLook(n)' = NextLook(n)
         /\ \A i \in 1 .. n : log'[i] = log[i]
<1>1. \A i \in 1 .. n : log'[i] = log[i]
  OBVIOUS
<1>2. OpenLines(n)' = OpenLines(n)
  BY <1>1 DEF OpenLines, Opens, Resolves
<1>3. Excluded(n)' = Excluded(n)
  <2>1. {log'[i].suite : i \in 1 .. n} = {log[i].suite : i \in 1 .. n}
    BY <1>1
  <2> QED BY <2>1 DEF Excluded
<1>4. NextLook(n)' = NextLook(n)
  <2>1. {i \in 1 .. n : log'[i].replicates} = {i \in 1 .. n : log[i].replicates}
    BY <1>1
  <2> QED BY <2>1 DEF NextLook, Resolves
<1> QED BY <1>1, <1>2, <1>3, <1>4

\* A line that fitted still fits once another is appended.
LEMMA FitStays ==
  ASSUME NEW l, log \in Seq(Line), l \in Line, log' = Append(log, l),
         NEW n \in 0 .. Len(log), NEW m, Fits(m, n)
  PROVE  Fits(m, n)'
<1>1. /\ OpenLines(n)' = OpenLines(n)
      /\ Excluded(n)' = Excluded(n)
      /\ NextLook(n)' = NextLook(n)
      /\ \A i \in 1 .. n : log'[i] = log[i]
  BY PrefixStays
<1>2. \A k \in OpenLines(n) : k \in 1 .. n
  BY DEF OpenLines
<1> QED
  BY <1>1, <1>2 DEF Fits, Openable, Resolving, Screening

\* A log to which a fitting line is appended is a log of fitting lines.
LEMMA FittingLog ==
  ASSUME NEW l, log \in Seq(Line), l \in Line, log' = Append(log, l),
         LogInv, Fits(l, Len(log))
  PROVE  LogInv'
<1>1. Len(log') = Len(log) + 1 /\ Len(log) \in Nat
  OBVIOUS
<1> SUFFICES ASSUME NEW i \in 1 .. Len(log')
             PROVE  Fits(log[i], i - 1)'
  BY DEF LogInv
<1>2. CASE i \in 1 .. Len(log)
  <2>1. PICK m : m = log[i] /\ m = log'[i] /\ i - 1 \in 0 .. Len(log)
    BY <1>2
  <2>2. Fits(m, i - 1)
    BY <1>2, <2>1 DEF LogInv
  <2>3. Fits(m, i - 1)'
    BY <2>1, <2>2, FitStays
  <2> QED BY <2>1, <2>3 DEF Fits, Openable, Resolving, Screening
<1>3. CASE i = Len(log) + 1
  <2>1. l = log'[i]
    BY <1>3
  <2>2. PICK n \in 0 .. Len(log) : n = Len(log)
    BY <1>1
  <2>3. l = log'[i] /\ n = i - 1 /\ Fits(l, n)
    BY <1>3, <2>1, <2>2
  <2>4. Fits(l, n)'
    BY <2>3, FitStays
  <2>5. l = log'[i] /\ n = i - 1
    BY <2>3
  <2> QED BY ZenonT(60), <2>4, <2>5 DEF Fits, Openable, Resolving, Screening
<1> QED BY <1>1, <1>2, <1>3

-----------------------------------------------------------------------------
(* The invariant.                                                          *)

\* The type invariant, of the files and of the invocations.
FilesOK ==
  /\ suites \in [Version -> {Missing, Broken} \cup SUBSET Seed]
  /\ visible \in [Version -> Tree \cup {Missing}]
  /\ played \in [Version -> [Roles -> {Missing} \cup [suite : SUBSET Seed, tree : Tree]]]
  /\ versions \in [Version -> Tree]
  /\ main \in Tree
LogOK == log \in Seq(Line) /\ tail \in {"whole", "unterminated", "garbled"}
ProcOK ==
  /\ lock \in SUBSET Proc
  /\ pc \in [Proc -> {"idle", "lock", "read", "build", "suite", "append"}]
  /\ arg \in [Proc -> {NoArgument} \cup Argument]
  /\ seen \in [Proc -> Nat]
  /\ line \in [Proc -> {NoLine} \cup Line]

LEMMA TypeParts == TypeOK <=> FilesOK /\ LogOK /\ ProcOK
BY DEF TypeOK, FilesOK, LogOK, ProcOK

LEMMA TypePartsNext == TypeOK' <=> FilesOK' /\ LogOK' /\ ProcOK'
BY DEF TypeOK, FilesOK, LogOK, ProcOK

\* While the log stays, so does all that is said of it.
LEMMA LogStays ==
  ASSUME log' = log, NEW m, NEW n
  PROVE  Fits(m, n)' <=> Fits(m, n)
BY DEF Fits, Openable, Resolving, Screening, OpenLines, Excluded, NextLook, Opens, Resolves

LEMMA LogInvStays ==
  ASSUME log' = log, LogInv
  PROVE  LogInv'
<1> SUFFICES ASSUME NEW i \in 1 .. Len(log)
             PROVE  Fits(log[i], i - 1)'
  BY DEF LogInv
<1>1. PICK m, n : m = log[i] /\ m = log'[i] /\ n = i - 1 /\ Fits(m, n)
  BY DEF LogInv
<1>2. Fits(m, n)'
  BY <1>1, LogStays
<1> QED BY <1>1, <1>2 DEF Fits, Openable, Resolving, Screening

\* The first state.
LEMMA StartInv == Init => TypeOK /\ TransactionInv
<1> SUFFICES ASSUME Init PROVE TypeOK /\ TransactionInv
  OBVIOUS
<1>1. FilesOK
  BY DEF Init, FilesOK, Roles
<1>2. LogOK /\ ProcOK
  BY DEF Init, LogOK, ProcOK
<1>3. LockInv
  BY DEF Init, LockInv, Writing
<1>4. LogInv /\ LineInv
  BY DEF Init, LogInv, LineInv, Writing
<1> QED BY <1>1, <1>2, <1>3, <1>4, TypeParts DEF TransactionInv

\* The lines of the others, when the log stays.
LEMMA OthersFit ==
  ASSUME TransactionInv, log' = log, NEW q \in Proc, line'[q] = line[q],
         Writing(q)' => Writing(q)
  PROVE  Writing(q)' => Fits(line[q], Len(log))'
<1> SUFFICES ASSUME Writing(q)' PROVE Fits(line[q], Len(log))'
  OBVIOUS
<1>1. PICK m, n : m = line[q] /\ n = Len(log) /\ m = line'[q] /\ n = Len(log')
  OBVIOUS
<1>2. Fits(m, n)
  BY <1>1 DEF TransactionInv, LineInv
<1>3. Fits(m, n)'
  BY <1>2, LogStays
<1> QED BY <1>1, <1>3 DEF Fits, Openable, Resolving, Screening

\* A step that only ends an invocation.
LEMMA ExitInv ==
  ASSUME TypeOK, TransactionInv, NEW p \in Proc, Exit(p), log' = log
  PROVE  ProcOK' /\ TransactionInv'
<1>1. ProcOK'
  BY TypeParts DEF Exit, Goto, ProcOK
<1>2. pc'[p] = "idle" /\ \A q \in Proc \ {p} : pc'[q] = pc[q] /\ arg'[q] = arg[q]
                                               /\ seen'[q] = seen[q] /\ line'[q] = line[q]
  BY TypeParts DEF Exit, Goto, ProcOK
<1>3. LockInv'
  BY <1>2 DEF Exit, TransactionInv, LockInv, Writing
<1>4. LineInv'
  <2> SUFFICES ASSUME NEW q \in Proc PROVE Writing(q)' => Fits(line[q], Len(log))'
    BY DEF LineInv
  <2>1. CASE q = p
    BY <2>1, <1>2 DEF Writing
  <2>2. CASE q # p
    BY <2>2, <1>2, OthersFit DEF Writing
  <2> QED BY <2>1, <2>2
<1> QED BY <1>1, <1>3, <1>4, LogInvStays DEF TransactionInv

\* A step of the holder of the lock that writes no line and no log: it goes
\* from one label to the next.
LEMMA WalkInv ==
  ASSUME TypeOK, TransactionInv, NEW p \in Proc, NEW from, NEW to,
         pc[p] = from, Goto(p, to), log' = log, line' = line,
         ProcOK', LockInv', to \in {"suite", "append"} => from \in {"suite", "append"}
  PROVE  TransactionInv'
<1>1. pc'[p] = to /\ \A q \in Proc \ {p} : pc'[q] = pc[q]
  BY TypeParts DEF Goto, ProcOK
<1>2. LineInv'
  <2> SUFFICES ASSUME NEW q \in Proc PROVE Writing(q)' => Fits(line[q], Len(log))'
    BY DEF LineInv
  <2>1. Writing(q)' => Writing(q)
    BY <1>1 DEF Writing
  <2> QED BY <2>1, OthersFit
<1> QED BY <1>2, LogInvStays DEF TransactionInv

-----------------------------------------------------------------------------
(* One lemma per step that does more than end an invocation.               *)

LEMMA InvokeInv ==
  ASSUME TypeOK, TransactionInv, GateAssumption, NEW p \in Proc, Invoke(p)
  PROVE  TypeOK' /\ TransactionInv'
<1>1. FilesOK' /\ LogOK'
  BY TypeParts DEF Invoke, files, FilesOK, LogOK
<1>2. PICK a \in Argument : arg' = [arg EXCEPT ![p] = a]
  <2>1. PICK q \in Pairs, replicates \in BOOLEAN, mode \in Modes :
          arg' = [arg EXCEPT ![p] = [version |-> q[1], parent |-> q[2],
                                     replicates |-> replicates, mode |-> mode]]
    BY DEF Invoke
  <2>2. q[1] \in Version /\ q[2] \in Version /\ mode \in {Gated, Replay}
    BY DEF GateAssumption
  <2> QED BY <2>1, <2>2 DEF Argument
<1>3. ProcOK'
  BY <1>2, TypeParts DEF Invoke, Goto, ProcOK
<1>4. LockInv'
  BY <1>2, TypeParts DEF Invoke, Goto, ProcOK, TransactionInv, LockInv, Writing
<1>5. TransactionInv'
  BY <1>3, <1>4, WalkInv DEF Invoke
<1> QED BY <1>1, <1>3, <1>5, TypePartsNext

LEMMA AcquireInv ==
  ASSUME TypeOK, TransactionInv, NEW p \in Proc, Lock(p)
  PROVE  TypeOK' /\ TransactionInv'
<1>1. FilesOK' /\ LogOK'
  BY TypeParts DEF Lock, files, FilesOK, LogOK
<1>2. ProcOK'
  BY TypeParts DEF Lock, Goto, ProcOK
<1>3. LockInv'
  BY TypeParts DEF Lock, Goto, ProcOK, TransactionInv, LockInv, Writing
<1>4. TransactionInv'
  BY <1>2, <1>3, WalkInv DEF Lock
<1> QED BY <1>1, <1>2, <1>4, TypePartsNext

LEMMA ReadInv ==
  ASSUME TypeOK, TransactionInv, NEW p \in Proc, ReadLog(p)
  PROVE  TypeOK' /\ TransactionInv'
<1>1. FilesOK' /\ LogOK'
  BY TypeParts DEF ReadLog, files, FilesOK, LogOK
<1>2. Len(log) \in Nat
  BY TypeParts DEF LogOK
<1>3. ProcOK'
  BY <1>2, TypeParts DEF ReadLog, Goto, ProcOK
<1>4. LockInv'
  BY TypeParts DEF ReadLog, Goto, ProcOK, TransactionInv, LockInv, Writing
<1>5. TransactionInv'
  BY <1>3, <1>4, WalkInv DEF ReadLog
<1> QED BY <1>1, <1>3, <1>5, TypePartsNext

LEMMA WriteSuiteInv ==
  ASSUME TypeOK, TransactionInv, NEW p \in Proc, WriteSuite(p)
  PROVE  TypeOK' /\ TransactionInv'
<1>1. line[p] \in Line
  BY DEF WriteSuite, TransactionInv, LockInv, Writing
<1>2. line[p].suite \in SUBSET Seed
  BY <1>1 DEF Line
<1>3. FilesOK'
  BY <1>2, TypeParts DEF WriteSuite, FilesOK
<1>4. LogOK' /\ ProcOK'
  BY TypeParts DEF WriteSuite, Goto, LogOK, ProcOK
<1>5. LockInv'
  BY TypeParts DEF WriteSuite, Goto, ProcOK, TransactionInv, LockInv, Writing
<1>6. TransactionInv'
  BY <1>4, <1>5, WalkInv DEF WriteSuite
<1> QED BY <1>3, <1>4, <1>6, TypePartsNext

\* A step that builds line l, which fits the log, and writes nothing else.
LEMMA BuildInv ==
  ASSUME TypeOK, TransactionInv, NEW p \in Proc, NEW l \in Line, NEW to \in {"suite", "append"},
         pc[p] = "build", Fits(l, Len(log)),
         line' = [line EXCEPT ![p] = l], Goto(p, to),
         UNCHANGED <<log, tail, files, lock, arg, seen>>
  PROVE  TypeOK' /\ TransactionInv'
<1>1. FilesOK' /\ LogOK' /\ ProcOK'
  BY TypeParts DEF Goto, files, FilesOK, LogOK, ProcOK
<1>2. /\ pc'[p] = to /\ line'[p] = l
      /\ \A q \in Proc \ {p} : pc'[q] = pc[q] /\ line'[q] = line[q]
  BY TypeParts DEF Goto, ProcOK
<1>3. LockInv'
  BY <1>2 DEF TransactionInv, LockInv, Writing
<1>4. LineInv'
  <2> SUFFICES ASSUME NEW q \in Proc, Writing(q)' PROVE Fits(line[q], Len(log))'
    BY DEF LineInv
  <2>1. CASE q = p
    <3>1. PICK n : n = Len(log) /\ n = Len(log') /\ Fits(l, n)
      OBVIOUS
    <3>2. Fits(l, n)'
      BY <3>1, LogStays
    <3> QED BY <1>2, <2>1, <3>1, <3>2 DEF Fits, Openable, Resolving, Screening
  <2>2. CASE q # p
    BY <2>2, <1>2, OthersFit DEF Writing
  <2> QED BY <2>1, <2>2
<1> QED BY <1>1, <1>3, <1>4, LogInvStays, TypePartsNext DEF TransactionInv

\* A step that appends the line of p to the log and ends p.
LEMMA RecordInv ==
  ASSUME TypeOK, TransactionInv, NEW p \in Proc, pc[p] = "append",
         log' = Append(log, line[p]), Exit(p)
  PROVE  log' \in Seq(Line) /\ ProcOK' /\ TransactionInv'
<1>1. PICK l \in Line : l = line[p] /\ log' = Append(log, l) /\ Fits(l, Len(log))
  BY DEF TransactionInv, LockInv, LineInv, Writing
<1>2. log' \in Seq(Line) /\ log \in Seq(Line)
  BY <1>1, TypeParts DEF LogOK
<1>3. ProcOK'
  BY TypeParts DEF Exit, Goto, ProcOK
<1>4. pc'[p] = "idle" /\ \A q \in Proc \ {p} : pc'[q] = pc[q] /\ arg'[q] = arg[q]
  BY TypeParts DEF Exit, Goto, ProcOK
<1>5. lock = {p} /\ \A q \in Proc \ {p} : pc[q] \in {"idle", "lock"}
  <2>1. lock = {p}
    BY DEF TransactionInv, LockInv
  <2>2. \A q \in Proc \ {p} : ~(lock = {q})
    BY <2>1
  <2> QED BY <2>1, <2>2, TypeParts DEF TransactionInv, LockInv, ProcOK
<1>6. LockInv' /\ LineInv'
  BY <1>4, <1>5 DEF TransactionInv, LockInv, LineInv, Writing
<1>7. LogInv'
  BY <1>1, <1>2, FittingLog DEF TransactionInv
<1> QED BY <1>2, <1>3, <1>6, <1>7 DEF TransactionInv

-----------------------------------------------------------------------------
(* The lines the gate builds fit the log.                                  *)

\* What every line shares.
LEMMA NewLineType ==
  ASSUME TypeOK, TransactionInv, NEW p \in Proc, pc[p] = "build",
         NEW disposition \in {"keep", "revert", "provisional"}
  PROVE  /\ NewLine(p, disposition) \in Line
         /\ NewLine(p, disposition).number = Len(log) + 1
         /\ NewLine(p, disposition).version = arg[p].version
         /\ NewLine(p, disposition).replicates = arg[p].replicates
         /\ NewLine(p, disposition).mode = arg[p].mode
         /\ NewLine(p, disposition).disposition = disposition
         /\ NewLine(p, disposition).suite = {}
         /\ arg[p] \in Argument /\ seen[p] = Len(log)
<1>1. arg[p] \in Argument /\ seen[p] = Len(log) /\ Len(log) \in Nat
  BY TypeParts DEF TransactionInv, LockInv, LogOK
<1>2. \A v \in Version : versions[v] \in Tree
  BY TypeParts DEF FilesOK
<1>3. NewLine(p, disposition) \in Line
  BY <1>1, <1>2 DEF NewLine, Line, Argument
<1> QED BY <1>1, <1>3 DEF NewLine

\* All lines have the mode of the new one.
LEMMA SameMode ==
  ASSUME TransactionInv, NEW p \in Proc, pc[p] = "build", OneMode(p)
  PROVE  \A i \in 1 .. Len(log) : log[i].mode = arg[p].mode
BY DEF OneMode, TransactionInv, LockInv

LEMMA RevertInv ==
  ASSUME TypeOK, TransactionInv, NEW p \in Proc, ScreenRevert(p)
  PROVE  TypeOK' /\ TransactionInv'
<1>1. pc[p] = "build" /\ ~arg[p].replicates /\ OneMode(p)
  BY DEF ScreenRevert, Screens
<1>2. PICK l \in Line : l = NewLine(p, "revert") /\ ToAppend(p, l)
  BY <1>1, NewLineType DEF ScreenRevert
<1>3. Fits(l, Len(log))
  BY <1>1, <1>2, NewLineType, SameMode DEF Fits, Openable, Resolving, Screening
<1> QED BY <1>1, <1>2, <1>3, BuildInv DEF ToAppend

LEMMA ReplayInv ==
  ASSUME TypeOK, TransactionInv, NEW p \in Proc, ScreenReplay(p)
  PROVE  TypeOK' /\ TransactionInv'
<1>1. pc[p] = "build" /\ ~arg[p].replicates /\ OneMode(p) /\ arg[p].mode = Replay
  BY DEF ScreenReplay, Screens
<1>2. PICK disposition \in {"keep", "provisional"} :
        /\ ToAppend(p, NewLine(p, disposition))
        /\ disposition = "provisional" => MayOpen(p)
  BY DEF ScreenReplay
<1>3. PICK l \in Line : l = NewLine(p, disposition) /\ ToAppend(p, l)
  BY <1>1, <1>2, NewLineType
<1>4. disposition = "provisional" => OpenLines(Len(log)) = {}
  BY <1>1, <1>2, NewLineType DEF MayOpen
<1>5. Fits(l, Len(log))
  BY <1>1, <1>3, <1>4, NewLineType, SameMode
     DEF Fits, Openable, Resolving, Screening, Gated, Replay
<1> QED BY <1>1, <1>3, <1>5, BuildInv DEF ToAppend

\* A plan added to a line leaves a line.
Planned(l, suite, look, size) == [l EXCEPT !.suite = suite, !.look = look, !.size = size]

LEMMA PlannedLine ==
  ASSUME NEW l \in Line, NEW suite \in SUBSET Seed, NEW look \in Nat, NEW size \in Nat
  PROVE  /\ Planned(l, suite, look, size) \in Line
         /\ Planned(l, suite, look, size).number = l.number
         /\ Planned(l, suite, look, size).version = l.version
         /\ Planned(l, suite, look, size).replicates = l.replicates
         /\ Planned(l, suite, look, size).mode = l.mode
         /\ Planned(l, suite, look, size).disposition = l.disposition
         /\ Planned(l, suite, look, size).suite = suite
         /\ Planned(l, suite, look, size).look = look
BY DEF Line, Planned

LEMMA ProvisionalInv ==
  ASSUME TypeOK, TransactionInv, GateAssumption, NEW p \in Proc, ScreenProvisional(p)
  PROVE  TypeOK' /\ TransactionInv'
<1>1. pc[p] = "build" /\ ~arg[p].replicates /\ OneMode(p) /\ arg[p].mode = Gated
  BY DEF ScreenProvisional, Screens
<1>2. PICK new \in Line :
        /\ new = NewLine(p, "provisional")
        /\ new.number = Len(log) + 1 /\ ~new.replicates /\ new.mode = Gated
        /\ new.disposition = "provisional"
  BY <1>1, NewLineType
<1>3. seen[p] = Len(log) /\ Len(log) \in Nat
  BY <1>1, NewLineType, TypeParts DEF LogOK
<1>4. PICK size \in Sizes :
        /\ CanPlan(p, size)
        /\ line' = [line EXCEPT ![p] =
             [new EXCEPT !.suite = PlannedSuite(p, size),
                         !.look = NextLook(seen[p]), !.size = size]]
  BY <1>2 DEF ScreenProvisional
<1>5. PICK suite \in SUBSET Seed :
        suite = PlannedSuite(p, size) /\ suite \cap Excluded(Len(log)) = {} /\ suite # {}
  <2>1. PlannedSuite(p, size) \subseteq Seed \ Excluded(Len(log))
    BY <1>3, DerivedFresh DEF PlannedSuite
  <2>2. Cardinality(PlannedSuite(p, size)) = size /\ size # 0
    BY <1>4 DEF CanPlan, GateAssumption
  <2>3. PlannedSuite(p, size) # {}
    BY <2>2, FS_EmptySet
  <2> QED BY <2>1, <2>3
<1>6. PICK look \in Nat : look = NextLook(Len(log))
  BY <1>3, LookType
<1>7. size \in Nat
  BY DEF GateAssumption
<1>8. PICK l : l = Planned(new, suite, look, size)
  OBVIOUS
<1>9. /\ l \in Line
      /\ l.number = new.number /\ l.replicates = new.replicates /\ l.mode = new.mode
      /\ l.disposition = new.disposition /\ l.suite = suite /\ l.look = look
  BY <1>7, <1>8, PlannedLine
<1>10. line' = [line EXCEPT ![p] = l]
  BY <1>3, <1>4, <1>5, <1>6, <1>8 DEF Planned
<1>11. OpenLines(Len(log)) = {}
  BY <1>3 DEF ScreenProvisional, MayOpen
<1>12. Fits(l, Len(log))
  BY <1>1, <1>2, <1>5, <1>6, <1>9, <1>11, SameMode DEF Fits, Openable, Resolving, Screening
<1> QED BY <1>1, <1>9, <1>10, <1>12, BuildInv DEF ScreenProvisional

LEMMA ConfirmInv ==
  ASSUME TypeOK, TransactionInv, NEW p \in Proc, Confirm(p)
  PROVE  TypeOK' /\ TransactionInv'
<1>1. pc[p] = "build" /\ arg[p].replicates /\ OneMode(p)
  BY DEF Confirm
<1>2. PICK k \in Confirms(p), disposition \in {"keep", "revert"} :
        ToAppend(p, [NewLine(p, disposition) EXCEPT
                       !.suite = log[k].suite, !.look = log[k].look, !.size = log[k].size])
  BY DEF Confirm
<1>3. PICK new \in Line :
        /\ new = NewLine(p, disposition)
        /\ new.number = Len(log) + 1 /\ new.replicates /\ new.mode = arg[p].mode
        /\ new.version = arg[p].version /\ new.disposition = disposition
  BY <1>1, NewLineType
<1>4. seen[p] = Len(log) /\ log \in Seq(Line)
  BY <1>1, NewLineType, TypeParts DEF LogOK
<1>5. k \in OpenLines(Len(log)) /\ log[k].version = arg[p].version /\ k \in 1 .. Len(log)
  BY <1>4 DEF Confirms, Target, OpenLines
<1>6. PICK suite \in SUBSET Seed, look \in Nat, size \in Nat :
        suite = log[k].suite /\ look = log[k].look /\ size = log[k].size
  <2>1. log[k] \in Line
    BY <1>4, <1>5
  <2> QED BY <2>1 DEF Line
<1>7. PICK l : l = Planned(new, suite, look, size)
  OBVIOUS
<1>8. /\ l \in Line
      /\ l.number = new.number /\ l.replicates = new.replicates /\ l.mode = new.mode
      /\ l.version = new.version /\ l.disposition = new.disposition /\ l.suite = suite
  BY <1>7, PlannedLine
<1>9. ToAppend(p, l)
  BY <1>2, <1>3, <1>6, <1>7 DEF Planned
<1>10. Fits(log[k], k - 1) /\ log[k].mode = arg[p].mode
  BY <1>1, <1>5, SameMode DEF TransactionInv, LogInv
<1>11. l.suite # {} => l.mode = Gated
  BY <1>3, <1>6, <1>8, <1>10 DEF Fits, Screening
<1>12. Fits(l, Len(log))
  BY <1>1, <1>3, <1>5, <1>6, <1>8, <1>11, SameMode DEF Fits, Openable, Resolving, Screening
<1> QED BY <1>1, <1>8, <1>9, <1>12, BuildInv DEF ToAppend

-----------------------------------------------------------------------------
(* The invariant is inductive.                                             *)

LEMMA AppendInv ==
  ASSUME TypeOK, TransactionInv, NEW p \in Proc, AppendLine(p)
  PROVE  TypeOK' /\ TransactionInv'
<1>1. log' \in Seq(Line) /\ ProcOK' /\ TransactionInv'
  BY RecordInv DEF AppendLine
<1>2. FilesOK'
  BY TypeParts DEF AppendLine, files, FilesOK
<1>3. tail' \in {"whole", "unterminated", "garbled"}
  BY TypeParts DEF AppendLine, TailAfter, LogOK
<1> QED BY <1>1, <1>2, <1>3, TypePartsNext DEF LogOK

LEMMA AppendFailsInv ==
  ASSUME TypeOK, TransactionInv, NEW p \in Proc, AppendFails(p)
  PROVE  TypeOK' /\ TransactionInv'
<1>1. FilesOK'
  BY TypeParts DEF AppendFails, FilesOK
<1>2. tail' \in {"whole", "unterminated", "garbled"}
  BY TypeParts DEF AppendFails, TailAfter, LogOK
<1>3. log' = log \/ log' = Append(log, line[p])
  BY DEF AppendFails
<1>4. pc[p] = "append" /\ Exit(p)
  BY DEF AppendFails
<1>5. CASE log' = log
  BY <1>1, <1>2, <1>4, <1>5, ExitInv, TypeParts, TypePartsNext DEF LogOK
<1>6. CASE log' = Append(log, line[p])
  BY <1>1, <1>2, <1>4, <1>6, RecordInv, TypePartsNext DEF LogOK
<1> QED BY <1>3, <1>5, <1>6

\* The steps that end an invocation without a line.
LEMMA EndInv ==
  ASSUME TypeOK, TransactionInv, NEW p \in Proc,
         ReadRefused(p) \/ BuildRefused(p) \/ WriteSuiteRefused(p) \/ WriteSuiteFails(p) \/ Kill(p)
  PROVE  TypeOK' /\ TransactionInv'
<1>1. Exit(p) /\ UNCHANGED <<log, tail>>
  BY DEF ReadRefused, BuildRefused, WriteSuiteRefused, WriteSuiteFails, Kill
<1>2. FilesOK'
  <2>1. CASE ReadRefused(p) \/ BuildRefused(p) \/ WriteSuiteRefused(p)
    BY <2>1, TypeParts DEF ReadRefused, BuildRefused, WriteSuiteRefused, files, FilesOK
  <2>2. CASE WriteSuiteFails(p)
    <3>1. line[p].suite \in SUBSET Seed
      BY <2>2 DEF WriteSuiteFails, TransactionInv, LockInv, Writing, Line
    <3> QED BY <2>2, <3>1, TypeParts DEF WriteSuiteFails, FilesOK
  <2>3. CASE Kill(p)
    BY <2>3, TypeParts DEF Kill, FilesOK
  <2> QED BY <2>1, <2>2, <2>3
<1>3. LogOK'
  BY <1>1, TypeParts DEF LogOK
<1> QED BY <1>1, <1>2, <1>3, ExitInv, TypePartsNext

LEMMA StepInv ==
  ASSUME TypeOK, TransactionInv, GateAssumption, NEW p \in Proc, Invoke(p) \/ Step(p) \/ Kill(p)
  PROVE  TypeOK' /\ TransactionInv'
<1>1. CASE Invoke(p)
  BY <1>1, InvokeInv
<1>2. CASE Lock(p)
  BY <1>2, AcquireInv
<1>3. CASE ReadLog(p)
  BY <1>3, ReadInv
<1>4. CASE ScreenRevert(p)
  BY <1>4, RevertInv
<1>5. CASE ScreenProvisional(p)
  BY <1>5, ProvisionalInv
<1>6. CASE ScreenReplay(p)
  BY <1>6, ReplayInv
<1>7. CASE Confirm(p)
  BY <1>7, ConfirmInv
<1>8. CASE WriteSuite(p)
  BY <1>8, WriteSuiteInv
<1>9. CASE AppendLine(p)
  BY <1>9, AppendInv
<1>10. CASE AppendFails(p)
  BY <1>10, AppendFailsInv
<1>11. CASE ReadRefused(p) \/ BuildRefused(p) \/ WriteSuiteRefused(p) \/ WriteSuiteFails(p) \/ Kill(p)
  BY <1>11, EndInv
<1> QED
  BY <1>1, <1>2, <1>3, <1>4, <1>5, <1>6, <1>7, <1>8, <1>9, <1>10, <1>11 DEF Step

\* What happens outside the invocations touches neither them nor the log.
LEMMA OutsideInv ==
  ASSUME TypeOK, TransactionInv, Environment \/ UNCHANGED vars
  PROVE  TypeOK' /\ TransactionInv'
<1>1. UNCHANGED <<log, tail, lock, pc, arg, seen, line>>
  BY DEF Environment, Measure, Play, EditMain, EditSnapshot, vars, files
<1>2. LogOK' /\ ProcOK'
  BY <1>1, TypeParts DEF LogOK, ProcOK
<1>3. FilesOK'
  <2>1. FilesOK
    BY TypeParts
  <2>2. CASE UNCHANGED vars
    BY <2>1, <2>2 DEF vars, files, FilesOK
  <2>3. CASE EditMain
    BY <2>1, <2>3 DEF EditMain, FilesOK
  <2>4. CASE EditSnapshot
    BY <2>1, <2>4 DEF EditSnapshot, FilesOK
  <2>5. ASSUME NEW v \in Version, Measure(v) PROVE FilesOK'
    BY <2>1, <2>5 DEF Measure, FilesOK
  <2>6. ASSUME NEW v \in Version, NEW w \in Version, NEW role \in Roles, Play(v, role, w)
        PROVE  FilesOK'
    <3>1. PICK r : /\ r = [suite |-> suites[v], tree |-> versions[w]]
                   /\ played' = [played EXCEPT ![v][role] = r]
      BY <2>6 DEF Play
    <3>2. r \in [suite : SUBSET Seed, tree : Tree]
      BY <2>1, <2>6, <3>1 DEF Play, FilesOK
    <3>3. played' \in [Version -> [Roles -> {Missing} \cup [suite : SUBSET Seed, tree : Tree]]]
      BY <2>1, <3>1, <3>2 DEF FilesOK
    <3> QED BY <2>1, <2>6, <3>3 DEF Play, FilesOK
  <2> QED BY <2>2, <2>3, <2>4, <2>5, <2>6 DEF Environment
<1>4. LockInv'
  BY <1>1 DEF TransactionInv, LockInv, Writing
<1>5. LineInv'
  <2> SUFFICES ASSUME NEW q \in Proc PROVE Writing(q)' => Fits(line[q], Len(log))'
    BY DEF LineInv
  <2> QED BY <1>1, OthersFit DEF Writing
<1> QED BY <1>1, <1>2, <1>3, <1>4, <1>5, LogInvStays, TypePartsNext DEF TransactionInv

\* No interleaving of invocations, kills, disk faults and edits breaks the
\* invariant: a line that fitted the log when it was built fits it when it is
\* appended.
THEOREM Transactions == Spec => [](TypeOK /\ TransactionInv)
<1>1. Init => TypeOK /\ TransactionInv
  BY StartInv
<1>2. TypeOK /\ TransactionInv /\ [Next]_vars => (TypeOK /\ TransactionInv)'
  <2> SUFFICES ASSUME TypeOK, TransactionInv, [Next]_vars PROVE TypeOK' /\ TransactionInv'
    OBVIOUS
  <2>1. GateAssumption
    BY GateAssumption
  <2>2. CASE Environment \/ UNCHANGED vars
    BY <2>2, OutsideInv
  <2>3. ASSUME NEW p \in Proc, Invoke(p) \/ Step(p) \/ Kill(p) PROVE TypeOK' /\ TransactionInv'
    BY <2>1, <2>3, StepInv
  <2> QED BY <2>2, <2>3 DEF Next
<1> QED BY <1>1, <1>2, PTL DEF Spec

\* Every variable keeps to its range.
THEOREM Typed == Spec => []TypeOK
BY Transactions, PTL

-----------------------------------------------------------------------------
(* What the invariant says of the log.                                     *)

\* The gate never refuses a log that it wrote itself.
THEOREM LogAlwaysReads == Spec => []LogReads
<1>1. TransactionInv => LogReads
  <2> SUFFICES ASSUME LogInv, tail # "garbled" PROVE Readable /\ Coherent(Len(log))
    BY DEF TransactionInv, LogReads
  <2>1. Readable
    BY DEF LogInv, Fits, Readable
  <2>2. ASSUME NEW i \in 1 .. Len(log)
        PROVE  /\ Resolves(i) => \E k \in OpenLines(i - 1) : log[k].version = log[i].version
               /\ Opens(i) => OpenLines(i - 1) = {}
    BY DEF LogInv, Fits, Openable, Resolving, Resolves, Opens
  <2> QED BY <2>1, <2>2 DEF Coherent
<1> QED BY <1>1, Transactions, PTL

\* Every confirmation has seeds of its own.
THEOREM FreshSuites == Spec => []SuitesAreFresh
<1>1. TypeOK /\ TransactionInv => SuitesAreFresh
  <2> SUFFICES ASSUME TypeOK, LogInv, NEW i \in 1 .. Len(log), Opens(i)
               PROVE  /\ log[i].suite \cap VisibleSeeds = {}
                      /\ \A k \in 1 .. (i - 1) : Opens(k) => log[k].suite \cap log[i].suite = {}
    BY DEF TransactionInv, SuitesAreFresh
  <2>1. log[i].suite \cap Excluded(i - 1) = {}
    BY DEF LogInv, Fits, Openable, Opens
  <2> QED BY <2>1 DEF Excluded
<1> QED BY <1>1, Transactions, PTL

\* The confirmations before line i are among those before a later line k, and
\* fewer when one lies between.
LEMMA LooksGrow ==
  ASSUME NEW i \in Nat, NEW k \in Nat, NEW j \in (i + 1) .. k, Resolves(j)
  PROVE  NextLook(i) < NextLook(k)
<1> DEFINE Before(n) == {m \in 1 .. n : Resolves(m)}
<1>1. IsFiniteSet(Before(k)) /\ Before(i) \in SUBSET Before(k) /\ j \in Before(k) /\ j \notin Before(i)
  <2>1. IsFiniteSet(1 .. k)
    BY FS_Interval
  <2>2. Before(k) \in SUBSET (1 .. k)
    OBVIOUS
  <2>3. IsFiniteSet(Before(k))
    BY <2>1, <2>2, FS_Subset
  <2> QED BY <2>3
<1>2. Cardinality(Before(i)) \in Nat /\ Cardinality(Before(k)) \in Nat /\ Cardinality(Before(i)) < Cardinality(Before(k))
  <2> HIDE DEF Before
  <2>1. IsFiniteSet(Before(i)) /\ Cardinality(Before(i)) <= Cardinality(Before(k))
        /\ (Cardinality(Before(i)) = Cardinality(Before(k)) => Before(i) = Before(k))
    BY <1>1, FS_Subset
  <2>2. Before(i) # Before(k)
    BY <1>1
  <2>3. Cardinality(Before(i)) \in Nat /\ Cardinality(Before(k)) \in Nat
    BY <1>1, <2>1, FS_CardinalityType
  <2> QED BY <2>1, <2>2, <2>3
<1> QED BY <1>2 DEF NextLook

\* No two confirmations share a look index.
THEOREM DistinctLooks == Spec => []LooksAreDistinct
<1>1. TypeOK /\ TransactionInv => LooksAreDistinct
  <2>1. ASSUME TypeOK, LogInv, NEW i \in 1 .. Len(log), NEW k \in 1 .. Len(log), i < k,
               Opens(i), Opens(k), log[i].mode = Gated, log[k].mode = Gated
        PROVE  log[i].look # log[k].look
    <3>1. Fits(log[i], i - 1) /\ Fits(log[k], k - 1)
      BY <2>1 DEF LogInv
    <3>2. log[i].look = NextLook(i - 1) /\ log[k].look = NextLook(k - 1)
      BY <2>1, <3>1 DEF Fits, Openable, Opens
    <3>3. OpenLines(k - 1) = {}
      BY <2>1, <3>1 DEF Fits, Openable, Opens
    <3>4. PICK j \in (i + 1) .. (k - 1) : Resolves(j)
      BY <2>1, <3>3 DEF OpenLines
    <3>5. NextLook(i - 1) < NextLook(k - 1)
      <4>1. i - 1 \in Nat /\ k - 1 \in Nat /\ j \in ((i - 1) + 1) .. (k - 1)
        BY <2>1
      <4> QED BY <3>4, <4>1, LooksGrow
    <3>6. NextLook(i - 1) \in Nat /\ NextLook(k - 1) \in Nat
      <4>1. i - 1 \in Nat /\ k - 1 \in Nat
        BY <2>1
      <4> QED BY <4>1, LookType
    <3> QED BY <3>2, <3>5, <3>6
  <2> SUFFICES ASSUME TypeOK, LogInv, NEW i \in 1 .. Len(log), NEW k \in 1 .. Len(log),
                      Opens(i), Opens(k), log[i].mode = Gated, log[k].mode = Gated,
                      log[i].look = log[k].look
               PROVE  i = k
    BY DEF TransactionInv, LooksAreDistinct
  <2>2. i < k \/ k < i \/ i = k
    BY TypeParts DEF LogOK
  <2> QED BY <2>1, <2>2
<1> QED BY <1>1, Transactions, PTL

-----------------------------------------------------------------------------
(* The refinement.                                                         *)

\* At most one decision is open.
LEMMA OneOpen ==
  ASSUME TypeOK, LogInv
  PROVE  \A i, k \in OpenLines(Len(log)) : i = k
<1>1. Len(log) \in Nat
  BY TypeParts DEF LogOK
<1>2. ASSUME NEW i \in OpenLines(Len(log)), NEW k \in OpenLines(Len(log)), i < k
      PROVE  FALSE
  <2>1. i \in 1 .. Len(log) /\ k \in 1 .. Len(log) /\ Opens(i) /\ Opens(k)
    BY DEF OpenLines
  <2>2. OpenLines(k - 1) = {}
    BY <2>1 DEF LogInv, Fits, Openable, Opens
  <2>3. i \in 1 .. (k - 1)
    BY <1>2, <2>1
  <2>4. PICK j \in (i + 1) .. (k - 1) : Resolves(j) /\ log[j].version = log[i].version
    BY <2>1, <2>2, <2>3 DEF OpenLines
  <2>5. j \in (i + 1) .. Len(log)
    BY <1>1, <2>1, <2>4
  <2> QED BY <2>4, <2>5 DEF OpenLines
<1>3. \A i \in OpenLines(Len(log)) : i \in Nat
  BY DEF OpenLines
<1>4. ASSUME NEW i \in OpenLines(Len(log)), NEW k \in OpenLines(Len(log)) PROVE i = k
  <2>1. i < k \/ k < i \/ i = k
    BY <1>3
  <2> QED BY <1>2, <2>1
<1> QED BY <1>4

\* What an appended line does to the open lines and to the register.
LEMMA OpenAfter ==
  ASSUME TypeOK, LogInv, NEW l \in Line, log' = Append(log, l), Fits(l, Len(log))
  PROVE  /\ l.disposition = "provisional" => OpenLines(Len(log))' = {Len(log')}
         /\ l.replicates => OpenLines(Len(log))' = {}
         /\ ~l.replicates /\ l.disposition # "provisional" =>
              OpenLines(Len(log))' = OpenLines(Len(log))
<1> DEFINE n == Len(log)
<1>1. log \in Seq(Line) /\ n \in Nat /\ Len(log') = n + 1 /\ log'[n + 1] = l
      /\ \A i \in 1 .. n : log'[i] = log[i]
  BY TypeParts DEF LogOK
<1>2. OpenLines(n) \subseteq 1 .. n
  BY DEF OpenLines
<1>3. OpenLines(Len(log))' =
        {i \in 1 .. (n + 1) : /\ log'[i].disposition = "provisional"
                              /\ \A j \in (i + 1) .. (n + 1) :
                                   log'[j].replicates => log'[j].version # log'[i].version}
  BY <1>1 DEF OpenLines, Opens, Resolves
<1>4. OpenLines(n) =
        {i \in 1 .. n : /\ log[i].disposition = "provisional"
                        /\ \A j \in (i + 1) .. n :
                             log[j].replicates => log[j].version # log[i].version}
  BY DEF OpenLines, Opens, Resolves
<1>5. \A i \in 1 .. n : i \in OpenLines(Len(log))' <=>
        i \in OpenLines(n) /\ (l.replicates => l.version # log[i].version)
  <2> SUFFICES ASSUME NEW i \in 1 .. n
               PROVE  i \in OpenLines(Len(log))' <=>
                        i \in OpenLines(n) /\ (l.replicates => l.version # log[i].version)
    OBVIOUS
  <2>1. (i + 1) .. (n + 1) = ((i + 1) .. n) \cup {n + 1} /\ i \in 1 .. (n + 1)
    BY <1>1
  <2>2. (\A j \in (i + 1) .. (n + 1) : log'[j].replicates => log'[j].version # log'[i].version)
        <=> /\ \A j \in (i + 1) .. n : log'[j].replicates => log'[j].version # log'[i].version
            /\ log'[n + 1].replicates => log'[n + 1].version # log'[i].version
    BY <2>1
  <2>3. \A j \in (i + 1) .. n : log'[j] = log[j]
    BY <1>1
  <2>4. i \in OpenLines(Len(log))' <=>
          /\ log'[i].disposition = "provisional"
          /\ \A j \in (i + 1) .. (n + 1) : log'[j].replicates => log'[j].version # log'[i].version
    BY <1>3, <2>1
  <2>5. i \in OpenLines(n) <=>
          /\ log[i].disposition = "provisional"
          /\ \A j \in (i + 1) .. n : log[j].replicates => log[j].version # log[i].version
    BY <1>4
  <2>6. log'[i] = log[i] /\ log'[n + 1] = l
    BY <1>1
  <2> QED BY <2>2, <2>3, <2>4, <2>5, <2>6
<1>6. n + 1 \in OpenLines(Len(log))' <=> l.disposition = "provisional"
  BY <1>1, <1>3
<1>7. OpenLines(Len(log))' \subseteq 1 .. (n + 1)
  BY <1>3
<1>8. CASE l.disposition = "provisional"
  <2>1. OpenLines(n) = {} /\ ~l.replicates
    BY <1>8 DEF Fits, Openable
  <2> QED BY <2>1, <1>1, <1>2, <1>5, <1>6, <1>7, <1>8
<1>9. CASE l.replicates
  <2>1. PICK k \in OpenLines(n) : log[k].version = l.version
    BY <1>9 DEF Fits, Resolving
  <2>2. OpenLines(n) = {k} /\ l.disposition # "provisional"
    BY <1>9, <2>1, OneOpen DEF Fits, Openable
  <2> QED BY <1>1, <1>2, <1>5, <1>6, <1>7, <1>9, <2>1, <2>2
<1>10. CASE ~l.replicates /\ l.disposition # "provisional"
  <2>1. n + 1 \notin OpenLines(Len(log))' /\ n + 1 \notin OpenLines(n)
    BY <1>1, <1>2, <1>6, <1>10
  <2>2. \A i \in 1 .. n : i \in OpenLines(Len(log))' <=> i \in OpenLines(n)
    BY <1>5, <1>10
  <2>3. 1 .. (n + 1) = (1 .. n) \cup {n + 1}
    BY <1>1
  <2>4. OpenLines(Len(log))' = OpenLines(n)
    BY <1>2, <1>7, <2>1, <2>2, <2>3
  <2> QED BY <1>10, <2>4
<1> QED BY <1>8, <1>9, <1>10

\* The log appended to, read as a register.
LEMMA RegisterAfter ==
  ASSUME TypeOK, LogInv, NEW l \in Line, log' = Append(log, l), Fits(l, Len(log))
  PROVE  /\ registerSpent' = registerSpent \cup l.suite
         /\ registerAccepted' = registerAccepted \cup
              (IF l.disposition = "keep" /\ l.mode = Gated THEN {l.version} ELSE {})
<1> DEFINE n == Len(log)
<1>1. log \in Seq(Line) /\ n \in Nat /\ Len(log') = n + 1 /\ log'[n + 1] = l
      /\ \A i \in 1 .. n : log'[i] = log[i]
  BY TypeParts DEF LogOK
<1>2. {log'[i].suite : i \in 1 .. (n + 1)} = {log[i].suite : i \in 1 .. n} \cup {l.suite}
  BY <1>1
<1>3. registerSpent' = registerSpent \cup l.suite
  BY <1>1, <1>2 DEF registerSpent
<1>4. registerAccepted' =
        {log'[i].version : i \in {k \in 1 .. (n + 1) :
           log'[k].disposition = "keep" /\ log'[k].mode = Gated}}
  BY <1>1 DEF registerAccepted
<1>5. registerAccepted =
        {log[i].version : i \in {k \in 1 .. n :
           log[k].disposition = "keep" /\ log[k].mode = Gated}}
  BY DEF registerAccepted
<1>6. registerAccepted' = registerAccepted \cup
              (IF l.disposition = "keep" /\ l.mode = Gated THEN {l.version} ELSE {})
  BY <1>1, <1>4, <1>5
<1> QED BY <1>3, <1>6

\* A line that is appended is a step of the register, or none.
LEMMA AppendRefines ==
  ASSUME TypeOK, LogInv, NEW l \in Line, log' = Append(log, l), Fits(l, Len(log))
  PROVE  [R!Next]_(R!vars)
<1> DEFINE n == Len(log)
<1>1. log \in Seq(Line) /\ n \in Nat /\ Len(log') = n + 1 /\ log'[n + 1] = l
      /\ \A i \in 1 .. n : log'[i] = log[i]
  BY TypeParts DEF LogOK
<1>2. l.version \in Version /\ l.suite \in SUBSET Seed /\ l.mode \in {Gated, Replay}
  BY DEF Line
<1>3. OpenLines(n) \subseteq 1 .. n
  BY DEF OpenLines
<1>4. l.replicates => l.disposition # "provisional"
  BY DEF Fits, Openable
<1>5. CASE l.mode = Replay
  <2>1. \A i \in 1 .. n : log[i].mode # Gated
    BY <1>5 DEF Fits, Gated, Replay
  <2>2. registerOpen = {} /\ registerOpen' = {}
    <3>1. \A i \in 1 .. (n + 1) : log'[i].mode # Gated
      BY <1>1, <1>5, <2>1 DEF Gated, Replay
    <3> QED BY <1>1, <1>3, <2>1, <3>1 DEF registerOpen, OpenLines
  <2>3. l.suite = {} /\ l.mode # Gated
    BY <1>5 DEF Fits, Screening, Gated, Replay
  <2>4. registerSpent' = registerSpent /\ registerAccepted' = registerAccepted
    BY <2>3, RegisterAfter
  <2> QED BY <2>2, <2>4 DEF R!vars
<1>6. CASE l.mode = Gated
  <2>1. \A i \in 1 .. n : log[i].mode = Gated
    BY <1>6 DEF Fits
  <2>2. registerOpen = {log[i].version : i \in OpenLines(n)}
    BY <1>3, <2>1 DEF registerOpen
  <2>3. registerOpen' = {log'[i].version : i \in OpenLines(Len(log))'}
    <3>1. \A i \in 1 .. (n + 1) : log'[i].mode = Gated
      BY <1>1, <1>6, <2>1
    <3>2. OpenLines(Len(log))' \subseteq 1 .. (n + 1)
      BY <1>1 DEF OpenLines
    <3> QED BY <3>1, <3>2 DEF registerOpen
  <2>4. CASE l.disposition = "provisional"
    <3>1. OpenLines(n) = {} /\ l.suite \cap registerSpent = {} /\ l.suite # {}
      BY <1>6, <2>4 DEF Fits, Openable, registerSpent, Excluded
    <3>2. registerOpen = {} /\ registerOpen' = {l.version}
      BY <1>1, <2>2, <2>3, <2>4, <3>1, OpenAfter
    <3>3. registerSpent' = registerSpent \cup l.suite /\ registerAccepted' = registerAccepted
      BY <2>4, RegisterAfter
    <3>4. l.suite \in (SUBSET (Seed \ registerSpent)) \ {{}}
      <4>1. l.suite \subseteq Seed \ registerSpent
        BY <1>2, <3>1
      <4> QED BY <3>1, <4>1
    <3>5. R!Open
      BY <1>2, <3>2, <3>3, <3>4 DEF R!Open
    <3> QED BY <3>5 DEF R!Next
  <2>5. CASE l.replicates
    <3>1. PICK k \in OpenLines(n) : log[k].version = l.version /\ log[k].suite = l.suite
      BY <2>5 DEF Fits, Resolving
    <3>2. OpenLines(n) = {k} /\ k \in 1 .. n
      BY <1>3, <3>1, OneOpen
    <3>3. registerOpen = {l.version} /\ registerOpen' = {}
      BY <2>2, <2>3, <2>5, <3>1, <3>2, OpenAfter
    <3>4. registerSpent' = registerSpent
      <4>1. l.suite \subseteq registerSpent
        BY <3>1, <3>2 DEF registerSpent
      <4> QED BY <4>1, RegisterAfter
    <3>5. CASE l.disposition = "keep"
      <4>1. registerAccepted' = registerAccepted \cup {l.version}
        BY <1>6, <3>5, RegisterAfter
      <4>2. R!Keep
        BY <3>3, <3>4, <4>1 DEF R!Keep
      <4> QED BY <4>2 DEF R!Next
    <3>6. CASE l.disposition # "keep"
      <4>1. registerAccepted' = registerAccepted
        BY <3>6, RegisterAfter
      <4>2. R!Revert
        BY <3>3, <3>4, <4>1 DEF R!Revert
      <4> QED BY <4>2 DEF R!Next
    <3> QED BY <3>5, <3>6
  <2>6. CASE ~l.replicates /\ l.disposition # "provisional"
    <3>1. OpenLines(Len(log))' = OpenLines(n)
      BY <2>6, OpenAfter
    <3>2. registerOpen' = registerOpen
      BY <1>1, <1>3, <2>2, <2>3, <3>1
    <3>3. l.suite = {} /\ l.disposition # "keep"
      BY <1>6, <2>6 DEF Fits, Screening
    <3>4. registerSpent' = registerSpent /\ registerAccepted' = registerAccepted
      BY <3>3, RegisterAfter
    <3> QED BY <3>2, <3>4 DEF R!vars
  <2> QED BY <2>4, <2>5, <2>6
<1> QED BY <1>2, <1>5, <1>6

\* Whatever leaves the log alone leaves the register alone.
LEMMA LogStaysRefines ==
  ASSUME log' = log
  PROVE  [R!Next]_(R!vars)
BY DEF R!vars, registerOpen, registerSpent, registerAccepted, OpenLines, Opens, Resolves

\* Only an invocation that holds its line changes the log.
LEMMA LogChanges ==
  ASSUME [Next]_vars
  PROVE  \/ log' = log
         \/ \E p \in Proc : pc[p] = "append" /\ log' = Append(log, line[p])
<1>1. ASSUME NEW p \in Proc, Invoke(p) \/ Step(p) \/ Kill(p)
      PROVE  log' = log \/ (pc[p] = "append" /\ log' = Append(log, line[p]))
  BY <1>1 DEF Invoke, Step, Kill, Lock, ReadLog, ReadRefused, ScreenRevert, ScreenProvisional,
       ScreenReplay, Confirm, ToAppend, BuildRefused, WriteSuite, WriteSuiteRefused,
       WriteSuiteFails, AppendLine, AppendFails
<1>2. Environment \/ UNCHANGED vars => log' = log
  BY DEF Environment, Measure, Play, EditMain, EditSnapshot, vars
<1>. QED BY <1>1, <1>2 DEF Next

\* The log, its lock and its invocations, killed or not, implement the atomic
\* register.
THEOREM Refinement == Spec => ImplementsRegister
<1>1. Init => R!Init
  BY DEF Init, R!Init, registerOpen, registerSpent, registerAccepted, OpenLines
<1>2. TypeOK /\ TransactionInv /\ [Next]_vars => [R!Next]_(R!vars)
  <2> SUFFICES ASSUME TypeOK, TransactionInv, [Next]_vars PROVE [R!Next]_(R!vars)
    OBVIOUS
  <2>1. ASSUME NEW p \in Proc, pc[p] = "append", log' = Append(log, line[p])
        PROVE  [R!Next]_(R!vars)
    <3>1. PICK l \in Line : l = line[p] /\ log' = Append(log, l) /\ Fits(l, Len(log))
      BY <2>1 DEF TransactionInv, LockInv, LineInv, Writing
    <3> QED BY <3>1, AppendRefines DEF TransactionInv
  <2>2. log' = log \/ \E p \in Proc : pc[p] = "append" /\ log' = Append(log, line[p])
    BY LogChanges
  <2> QED BY <2>1, <2>2, LogStaysRefines
<1> QED BY <1>1, <1>2, Transactions, PTL DEF Spec, ImplementsRegister, R!Spec

-----------------------------------------------------------------------------
(* What a gated keep rests on, and the suites of the log.                  *)

\* How an invocation comes to be writing its line: it was, or it has just built
\* it.  The log is then as it was.
Builds(q) == ScreenRevert(q) \/ ScreenReplay(q) \/ ScreenProvisional(q) \/ Confirm(q)
Stays(q) == pc'[q] = pc[q] /\ line'[q] = line[q] /\ arg'[q] = arg[q]

LEMMA WritingFrom ==
  ASSUME TypeOK, TransactionInv, [Next]_vars, NEW q \in Proc, Writing(q)'
  PROVE  log' = log /\ (Stays(q) \/ WriteSuite(q) \/ Builds(q))
<1>1. /\ pc \in [Proc -> {"idle", "lock", "read", "build", "suite", "append"}]
      /\ arg \in [Proc -> {NoArgument} \cup Argument] /\ line \in [Proc -> {NoLine} \cup Line]
  BY DEF TypeOK
<1>2. CASE Environment \/ UNCHANGED vars
  <2>1. UNCHANGED <<log, pc, line, arg>>
    BY <1>2 DEF Environment, Measure, Play, EditMain, EditSnapshot, vars
  <2>. QED BY <2>1 DEF Stays
<1>3. CASE Invoke(q) \/ Step(q) \/ Kill(q)
  <2>1. ~(Invoke(q) \/ Lock(q) \/ ReadLog(q))
    BY <1>1 DEF Invoke, Lock, ReadLog, Goto, Writing
  <2>2. ~Exit(q)
    BY <1>1 DEF Exit, Goto, Writing
  <2>3. Builds(q) \/ WriteSuite(q)
    BY SMTT(30), <1>3, <2>1, <2>2 DEF Step, Kill, ReadRefused, BuildRefused, WriteSuiteRefused, WriteSuiteFails, AppendLine,
         AppendFails, Builds
  <2>4. log' = log
    BY <2>3 DEF Builds, ScreenRevert, ScreenReplay, ScreenProvisional, Confirm, ToAppend, WriteSuite
  <2>. QED BY <2>3, <2>4
<1>4. ASSUME NEW p \in Proc, p # q, Invoke(p) \/ Step(p) \/ Kill(p)
      PROVE  Stays(q) /\ log' = log
  <2>1. Stays(q)
    BY ZenonT(60), <1>1, <1>4 DEF Stays, Invoke, Step, Kill, Lock, ReadLog, ReadRefused, ScreenRevert, ScreenProvisional,
         ScreenReplay, Confirm, ToAppend, BuildRefused, WriteSuite, WriteSuiteRefused,
         WriteSuiteFails, AppendLine, AppendFails, Goto, Exit
  <2>2. Writing(q)
    BY <2>1 DEF Stays, Writing
  <2>3. lock = {q}
    BY <2>2 DEF TransactionInv, LockInv, Writing
  <2>4. pc[p] # "append"
    BY <1>4, <2>3 DEF TransactionInv, LockInv
  <2>5. log' = log
    BY <1>4, <2>4 DEF Invoke, Step, Kill, Lock, ReadLog, ReadRefused, ScreenRevert, ScreenProvisional,
         ScreenReplay, Confirm, ToAppend, BuildRefused, WriteSuite, WriteSuiteRefused,
         WriteSuiteFails, AppendLine, AppendFails
  <2>. QED BY SMTT(30), <2>1, <2>5
<1>. QED BY <1>2, <1>3, <1>4 DEF Next

\* What was played for both roles is not played again.
LEMMA PlayedStays ==
  ASSUME TypeOK, [Next]_vars, NEW v \in Version, \A r \in Roles : played[v][r] # Missing
  PROVE  played'[v] = played[v]
<1>1. played \in [Version -> [Roles -> {Missing} \cup [suite : SUBSET Seed, tree : Tree]]]
  BY DEF TypeOK
<1>2. CASE played' = played
  BY <1>2
<1>3. ASSUME NEW w \in Version, NEW x \in Version, NEW role \in Roles, Play(w, role, x)
      PROVE  played'[v] = played[v]
  <2>1. w # v
    BY SMTT(30), <1>3 DEF Play
  <2>. QED BY <1>1, <1>3, <2>1 DEF Play
<1>4. ASSUME NEW p \in Proc, Invoke(p) \/ Step(p) \/ Kill(p) PROVE played' = played
  BY <1>4 DEF Invoke, Step, Kill, Lock, ReadLog, ReadRefused, ScreenRevert, ScreenProvisional,
       ScreenReplay, Confirm, ToAppend, BuildRefused, WriteSuite, WriteSuiteRefused,
       WriteSuiteFails, AppendLine, AppendFails, files
<1>5. played' = played \/ \E w, x \in Version, role \in Roles : Play(w, role, x)
  BY <1>4 DEF Next, Environment, Measure, EditMain, EditSnapshot, vars, files
<1>. QED BY <1>2, <1>3, <1>5

\* A confirmed keep stays so: the lines before it and its games are settled.
LEMMA ConfirmedStays ==
  ASSUME TypeOK, [Next]_vars, NEW l \in Line, NEW n \in 0 .. Len(log), Confirmed(l, n),
         log' = log \/ \E m \in Line : log' = Append(log, m)
  PROVE  Confirmed(l, n)'
<1>. SUFFICES ASSUME l.disposition = "keep", l.mode = Gated
              PROVE  /\ \E i \in OpenLines(n)' : \A f \in {"version", "parent", "tree", "parentTree", "suite", "look"} :
                           log'[i][f] = l[f]
                     /\ played'[l.version] =
                          [r \in Roles |-> [suite |-> l.suite, tree |-> IF r = "parent" THEN l.parentTree ELSE l.tree]]
  BY DEF Confirmed
<1>1. log \in Seq(Line)
  BY DEF TypeOK
<1>2. OpenLines(n)' = OpenLines(n) /\ \A i \in 1 .. n : log'[i] = log[i]
  <2>1. CASE log' = log
    BY <2>1 DEF OpenLines, Opens, Resolves
  <2>2. CASE \E m \in Line : log' = Append(log, m)
    BY <1>1, <2>2, PrefixStays
  <2>. QED BY <2>1, <2>2
<1>3. PICK i \in OpenLines(n) : \A f \in {"version", "parent", "tree", "parentTree", "suite", "look"} : log[i][f] = l[f]
  BY DEF Confirmed
<1>4. i \in 1 .. n
  BY DEF OpenLines
<1>5. \A f \in {"version", "parent", "tree", "parentTree", "suite", "look"} : log'[i][f] = l[f]
  BY <1>2, <1>3, <1>4
<1>6. l.version \in Version /\ l.suite \in SUBSET Seed /\ {l.tree, l.parentTree} \subseteq Tree \cup {Missing}
  BY DEF Line
<1>7. played[l.version] =
        [r \in Roles |-> [suite |-> l.suite, tree |-> IF r = "parent" THEN l.parentTree ELSE l.tree]]
  BY DEF Confirmed
<1>8. \A r \in Roles : played[l.version][r] # Missing
  BY <1>6, <1>7, GateAssumption DEF GateAssumption
<1>9. played'[l.version] = played[l.version]
  BY <1>6, <1>8, PlayedStays
<1>. QED BY <1>2, <1>3, <1>5, <1>7, <1>9

\* The line a confirmation builds.
LEMMA BuiltConfirmed ==
  ASSUME TypeOK, TransactionInv, NEW q \in Proc, Builds(q), log' = log, played' = played
  PROVE  Confirmed(line[q], Len(log))'
<1>0. \A l, n : Confirmed(l, n)' <=> Confirmed(l, n)
  BY SMTT(30) DEF Confirmed, OpenLines, Opens, Resolves
<1>1. pc[q] = "build" /\ line \in [Proc -> {NoLine} \cup Line] /\ log \in Seq(Line)
  BY DEF Builds, ScreenRevert, ScreenReplay, ScreenProvisional, Screens, Confirm, TypeOK
<1>2. CASE ScreenRevert(q) \/ ScreenReplay(q) \/ ScreenProvisional(q)
  <2>1. line'[q].disposition # "keep" \/ line'[q].mode # Gated
    <3>1. CASE ScreenRevert(q)
      BY <1>1, <3>1 DEF ScreenRevert, ToAppend, NewLine
    <3>2. CASE ScreenReplay(q)
      BY <1>1, <3>2 DEF ScreenReplay, ToAppend, NewLine, Gated, Replay
    <3>3. CASE ScreenProvisional(q)
      <4>1. PICK size \in Sizes :
              line' = [line EXCEPT ![q] = [NewLine(q, "provisional") EXCEPT !.suite = PlannedSuite(q, size),
                                             !.look = NextLook(seen[q]), !.size = size]]
        BY <3>3 DEF ScreenProvisional
      <4>2. line'[q] = [NewLine(q, "provisional") EXCEPT !.suite = PlannedSuite(q, size),
                                             !.look = NextLook(seen[q]), !.size = size]
        BY <1>1, <4>1
      <4>. QED BY <4>2 DEF NewLine
    <3>. QED BY <1>2, <3>1, <3>2, <3>3
  <2>2. Confirmed(line'[q], Len(log))
    BY <2>1 DEF Confirmed
  <2>. QED BY <1>0, <2>2
<1>3. CASE Confirm(q)
  <2>1. PICK k \in Confirms(q), disposition \in {"keep", "revert"} :
        ToAppend(q, [NewLine(q, disposition) EXCEPT
                       !.suite = log[k].suite, !.look = log[k].look, !.size = log[k].size])
    BY <1>3 DEF Confirm
  <2>. DEFINE l == [NewLine(q, disposition) EXCEPT !.suite = log[k].suite, !.look = log[k].look, !.size = log[k].size]
  <2>2. line'[q] = l
    BY <1>1, <2>1 DEF ToAppend
  <2>3. /\ l.version = arg[q].version /\ l.parent = arg[q].parent /\ l.mode = arg[q].mode
        /\ l.suite = log[k].suite /\ l.look = log[k].look
        /\ arg[q].mode = Gated => l.tree = versions[arg[q].version] /\ l.parentTree = versions[arg[q].parent]
    BY DEF NewLine
  <2>. HIDE DEF l
  <2>4. seen[q] = Len(log)
    BY <1>1 DEF TransactionInv, LockInv
  <2>5. k \in OpenLines(Len(log)) /\ log[k].version = arg[q].version /\ log[k].parent = arg[q].parent
    BY <2>4 DEF Confirms, Target
  <2>6. ASSUME arg[q].mode = Gated PROVE Frozen(k) /\ Played(k)
    BY <2>6 DEF Confirms
  <2>7. ASSUME arg[q].mode = Gated
        PROVE  /\ \A f \in {"version", "parent", "tree", "parentTree", "suite", "look"} : log[k][f] = l[f]
               /\ played[l.version] =
                    [r \in Roles |-> [suite |-> l.suite, tree |-> IF r = "parent" THEN l.parentTree ELSE l.tree]]
    <3>1. log[k].tree = l.tree /\ log[k].parentTree = l.parentTree
      BY <2>3, <2>5, <2>6, <2>7 DEF Frozen
    <3>2. played[l.version] \in [Roles -> {Missing} \cup [suite : SUBSET Seed, tree : Tree]]
      <4>1. log[k] \in Line
        BY <1>1, <2>5 DEF OpenLines
      <4>2. log[k].version \in Version
        BY <4>1 DEF Line
      <4>. QED BY <2>3, <2>5, <4>2 DEF TypeOK
    <3>3. /\ played[l.version]["parent"] = [suite |-> l.suite, tree |-> l.parentTree]
          /\ played[l.version]["candidate"] = [suite |-> l.suite, tree |-> l.tree]
      BY <2>3, <2>5, <2>6, <2>7, <3>1 DEF Played
    <3>4. played[l.version] = [r \in Roles |-> [suite |-> l.suite, tree |-> IF r = "parent" THEN l.parentTree ELSE l.tree]]
      BY <3>2, <3>3 DEF Roles
    <3>. QED BY <2>3, <2>5, <3>1, <3>4
  <2>8. Confirmed(l, Len(log))
    BY <2>3, <2>5, <2>7 DEF Confirmed
  <2>. QED BY SMTT(30), <1>0, <2>2, <2>8
<1>. QED BY <1>2, <1>3 DEF Builds

\* A line stays on disk, whatever happens next, if the disk does not fail.
LEMMA OnDiskStays ==
  ASSUME TypeOK, ~DiskMayFail, [Next]_vars, NEW l \in Line, OnDisk(l)
  PROVE  OnDisk(l)'
<1>. SUFFICES ASSUME l.suite # {} PROVE suites'[l.version] = l.suite
  BY DEF OnDisk
<1>1. /\ suites \in [Version -> {Missing, Broken} \cup SUBSET Seed]
      /\ suites[l.version] = l.suite /\ l.version \in Version /\ l.suite \in SUBSET Seed
  BY DEF TypeOK, OnDisk, Line
<1>2. suites[l.version] # Missing
  BY SMTT(30), <1>1, GateAssumption DEF GateAssumption
<1>3. ASSUME NEW p \in Proc, Invoke(p) \/ Step(p) \/ Kill(p)
      PROVE  \/ suites' = suites
             \/ \E content : /\ suites[arg[p].version] = Missing
                             /\ suites' = [suites EXCEPT ![arg[p].version] = content]
  <2>1. CASE WriteSuite(p)
    BY <2>1 DEF WriteSuite
  <2>2. CASE Kill(p)
    BY <2>2 DEF Kill
  <2>3. ~WriteSuiteFails(p) /\ ~AppendFails(p)
    BY DEF WriteSuiteFails, AppendFails
  <2>. QED BY <1>3, <2>1, <2>2, <2>3 DEF Invoke, Step, Lock, ReadLog, ReadRefused, ScreenRevert, ScreenProvisional,
       ScreenReplay, Confirm, ToAppend, BuildRefused, WriteSuiteRefused, AppendLine, files
<1>4. \/ suites' = suites
      \/ \E v, content : suites[v] = Missing /\ suites' = [suites EXCEPT ![v] = content]
  BY SMTT(30), <1>3 DEF Next, Environment, Measure, Play, EditMain, EditSnapshot, vars, files
<1>. QED BY <1>1, <1>2, <1>4

\* The line an invocation builds names the version it was called with, and its
\* suite is on disk unless it is about to be written.
LEMMA BuiltOnDisk ==
  ASSUME TypeOK, TransactionInv, SuitesInv, ~DiskMayFail, NEW q \in Proc, Builds(q)
  PROVE  /\ line'[q].version = arg'[q].version
         /\ pc'[q] = "append" => OnDisk(line[q])'
<1>1. /\ pc[q] = "build" /\ line \in [Proc -> {NoLine} \cup Line] /\ log \in Seq(Line)
      /\ pc \in [Proc -> {"idle", "lock", "read", "build", "suite", "append"}]
  BY ZenonT(60) DEF Builds, ScreenRevert, ScreenReplay, ScreenProvisional, Screens, Confirm, TypeOK
<1>2. arg' = arg /\ suites' = suites
  BY DEF Builds, ScreenRevert, ScreenReplay, ScreenProvisional, Confirm, ToAppend, files
<1>3. \A d : NewLine(q, d).version = arg[q].version /\ NewLine(q, d).suite = {}
  BY DEF NewLine
<1>4. CASE ScreenRevert(q) \/ ScreenReplay(q)
  <2>1. \E d : line'[q] = NewLine(q, d)
    BY <1>1, <1>4 DEF ScreenRevert, ScreenReplay, ToAppend
  <2>. QED BY <1>2, <1>3, <2>1 DEF OnDisk
<1>5. CASE ScreenProvisional(q)
  <2>1. PICK size \in Sizes :
          line' = [line EXCEPT ![q] = [NewLine(q, "provisional") EXCEPT !.suite = PlannedSuite(q, size),
                                         !.look = NextLook(seen[q]), !.size = size]]
    BY <1>5 DEF ScreenProvisional
  <2>2. line'[q] = [NewLine(q, "provisional") EXCEPT !.suite = PlannedSuite(q, size),
                                         !.look = NextLook(seen[q]), !.size = size]
    BY <1>1, <2>1
  <2>3. line'[q].version = arg[q].version
    BY <2>2 DEF NewLine
  <2>4. pc'[q] = "suite"
    BY <1>1, <1>5 DEF ScreenProvisional, Goto
  <2>. QED BY <1>2, <2>3, <2>4
<1>6. CASE Confirm(q)
  <2>1. PICK k \in Confirms(q), disposition \in {"keep", "revert"} :
        ToAppend(q, [NewLine(q, disposition) EXCEPT
                       !.suite = log[k].suite, !.look = log[k].look, !.size = log[k].size])
    BY <1>6 DEF Confirm
  <2>2. line'[q] = [NewLine(q, disposition) EXCEPT
                      !.suite = log[k].suite, !.look = log[k].look, !.size = log[k].size]
    BY <1>1, <2>1 DEF ToAppend
  <2>3. line'[q].version = arg[q].version /\ line'[q].suite = log[k].suite
    BY <2>2 DEF NewLine
  <2>4. seen[q] = Len(log)
    BY <1>1 DEF TransactionInv, LockInv
  <2>5. k \in 1 .. Len(log) /\ log[k].version = arg[q].version
    BY <2>4 DEF Confirms, Target, OpenLines
  <2>6. OnDisk(log[k])
    BY <2>5 DEF SuitesInv
  <2>. QED BY SMTT(30), <1>2, <2>3, <2>5, <2>6 DEF OnDisk
<1>. QED BY <1>4, <1>5, <1>6 DEF Builds

\* A line of the longer log was one already, or is the line of an invocation
\* that was about to append it.
LEMMA LinesOfTheLog ==
  ASSUME TypeOK, TransactionInv, [Next]_vars, NEW i \in 1 .. Len(log')
  PROVE  /\ log' = log \/ \E m \in Line : log' = Append(log, m)
         /\ \E l \in Line, n \in 0 .. Len(log) :
              /\ l = log'[i] /\ n = i - 1
              /\ \/ i \in 1 .. Len(log) /\ l = log[i]
                 \/ \E p \in Proc : pc[p] = "append" /\ l = line[p] /\ n = Len(log)
<1>1. log \in Seq(Line) /\ Len(log) \in Nat
  BY DEF TypeOK
<1>2. CASE log' = log
  <2>1. log[i] \in Line /\ i - 1 \in 0 .. Len(log) /\ i \in 1 .. Len(log)
    BY <1>1, <1>2
  <2>. QED BY <1>2, <2>1
<1>3. ASSUME NEW p \in Proc, pc[p] = "append", log' = Append(log, line[p])
      PROVE  /\ \E m \in Line : log' = Append(log, m)
             /\ \E l \in Line, n \in 0 .. Len(log) :
                  /\ l = log'[i] /\ n = i - 1
                  /\ \/ i \in 1 .. Len(log) /\ l = log[i]
                     \/ pc[p] = "append" /\ l = line[p] /\ n = Len(log)
  <2>1. line[p] \in Line
    BY <1>3 DEF TransactionInv, LockInv, Writing
  <2>2. Len(log') = Len(log) + 1
    BY <1>1, <1>3, <2>1
  <2>3. CASE i \in 1 .. Len(log)
    <3>1. log'[i] = log[i] /\ log[i] \in Line /\ i - 1 \in 0 .. Len(log)
      BY <1>1, <1>3, <2>1, <2>3
    <3>. QED BY <1>3, <2>1, <2>3, <3>1
  <2>4. CASE i = Len(log) + 1
    <3>1. log'[i] = line[p] /\ i - 1 = Len(log) /\ Len(log) \in 0 .. Len(log)
      BY <1>1, <1>3, <2>1, <2>4
    <3>. QED BY <1>3, <2>1, <3>1
  <2>. QED BY <1>1, <2>2, <2>3, <2>4
<1>. QED BY <1>2, <1>3, LogChanges

\* Both new parts of the invariant are inductive.
LEMMA KeepsStep ==
  ASSUME TypeOK, TransactionInv, KeepsInv, [Next]_vars
  PROVE  KeepsInv'
<1>1. ASSUME NEW i \in 1 .. Len(log') PROVE Confirmed(log[i], i - 1)'
  <2>1. log' = log \/ \E m \in Line : log' = Append(log, m)
    BY LinesOfTheLog
  <2>2. PICK l \in Line, n \in 0 .. Len(log) :
           /\ l = log'[i] /\ n = i - 1
           /\ \/ i \in 1 .. Len(log) /\ l = log[i]
              \/ \E p \in Proc : pc[p] = "append" /\ l = line[p] /\ n = Len(log)
    BY LinesOfTheLog
  <2>3. Confirmed(l, n)
    BY <2>2 DEF KeepsInv, Writing
  <2>4. Confirmed(l, n)'
    BY <2>1, <2>3, ConfirmedStays
  <2>. QED BY <2>2, <2>4 DEF Confirmed
<1>2. ASSUME NEW q \in Proc, Writing(q)' PROVE Confirmed(line[q], Len(log))'
  <2>1. log' = log /\ (Stays(q) \/ WriteSuite(q) \/ Builds(q))
    BY <1>2, WritingFrom
  <2>2. CASE Stays(q) \/ WriteSuite(q)
    <3>1. line'[q] = line[q] /\ Writing(q)
      BY <1>2, <2>2 DEF Stays, WriteSuite, Writing
    <3>2. line[q] \in Line /\ Len(log) \in 0 .. Len(log) /\ Confirmed(line[q], Len(log))
      BY <3>1 DEF TypeOK, KeepsInv, TransactionInv, LockInv
    <3>3. PICK l \in Line, n \in 0 .. Len(log) : l = line[q] /\ n = Len(log) /\ Confirmed(l, n)
      BY <3>2
    <3>4. Confirmed(l, n)'
      BY <2>1, <3>3, ConfirmedStays
    <3>5. l = line'[q] /\ n = Len(log')
      BY <2>1, <3>1, <3>3
    <3>. QED BY <3>4, <3>5 DEF Confirmed
  <2>3. CASE Builds(q)
    <3>1. played' = played
      BY <2>3 DEF Builds, ScreenRevert, ScreenReplay, ScreenProvisional, Confirm, ToAppend, files
    <3>. QED BY SMTT(30), <2>1, <2>3, <3>1, BuiltConfirmed
  <2>. QED BY <2>1, <2>2, <2>3
<1>. QED BY <1>1, <1>2 DEF KeepsInv

LEMMA SuitesStep ==
  ASSUME TypeOK, TransactionInv, SuitesInv, [Next]_vars
  PROVE  SuitesInv'
<1>. SUFFICES ASSUME ~DiskMayFail
              PROVE  /\ \A i \in 1 .. Len(log') : OnDisk(log[i])'
                     /\ \A q \in Proc : Writing(q)' =>
                          /\ line'[q].version = arg'[q].version
                          /\ pc'[q] = "append" => OnDisk(line[q])'
  BY DEF SuitesInv, Writing
<1>1. ASSUME NEW i \in 1 .. Len(log') PROVE OnDisk(log[i])'
  <2>1. PICK l \in Line : /\ l = log'[i]
                          /\ \/ i \in 1 .. Len(log) /\ l = log[i]
                             \/ \E p \in Proc : pc[p] = "append" /\ l = line[p]
    BY LinesOfTheLog
  <2>2. OnDisk(l)
    BY <2>1 DEF SuitesInv
  <2>3. OnDisk(l)'
    BY <2>2, OnDiskStays
  <2>. QED BY <2>1, <2>3 DEF OnDisk
<1>2. ASSUME NEW q \in Proc, Writing(q)'
      PROVE  line'[q].version = arg'[q].version /\ (pc'[q] = "append" => OnDisk(line[q])')
  <2>1. Stays(q) \/ WriteSuite(q) \/ Builds(q)
    BY <1>2, WritingFrom
  <2>2. CASE Stays(q)
    <3>1. line'[q] = line[q] /\ arg'[q] = arg[q] /\ pc'[q] = pc[q] /\ Writing(q)
      BY <1>2, <2>2 DEF Stays, Writing
    <3>2. PICK l \in Line : l = line[q]
      BY <3>1 DEF TransactionInv, LockInv
    <3>3. pc[q] = "append" => OnDisk(l)'
      BY <3>2, OnDiskStays DEF SuitesInv
    <3>. QED BY <3>1, <3>2, <3>3 DEF SuitesInv, OnDisk
  <2>3. CASE WriteSuite(q)
    <3>1. /\ line' = line /\ arg' = arg /\ Writing(q)
          /\ suites' = [suites EXCEPT ![arg[q].version] = line[q].suite]
      BY <2>3 DEF WriteSuite, Writing
    <3>2. line[q].version = arg[q].version /\ arg[q].version \in Version
      BY <3>1 DEF SuitesInv, TransactionInv, LockInv, Writing, Argument
    <3>3. suites'[line[q].version] = line[q].suite
      BY <3>1, <3>2 DEF TypeOK
    <3>4. line'[q] = line[q] /\ arg'[q] = arg[q]
      BY <3>1
    <3>5. suites'[line'[q].version] = line'[q].suite
      BY <3>3, <3>4
    <3>. QED BY <3>2, <3>4, <3>5 DEF OnDisk
  <2>4. CASE Builds(q)
    BY <2>4, BuiltOnDisk DEF OnDisk
  <2>. QED BY <2>1, <2>2, <2>3, <2>4
<1>. QED BY <1>1, <1>2

\* The whole invariant: what was frozen and played still stands when the line
\* that rests on it is appended, and ever after.
THEOREM Invariance == Spec => [](TypeOK /\ IInv)
<1>1. Init => KeepsInv /\ SuitesInv
  BY DEF Init, KeepsInv, SuitesInv, Writing
<1>2. TypeOK /\ TransactionInv /\ KeepsInv /\ SuitesInv /\ [Next]_vars => KeepsInv' /\ SuitesInv'
  BY KeepsStep, SuitesStep
<1>. QED BY <1>1, <1>2, Transactions, PTL DEF Spec, IInv

\* In gated mode nothing is kept by a screening: a keep resolves what was open
\* for it, and was played on exactly its suite and trees.
THEOREM KeptByConfirmation == Spec => []KeepsAreConfirmed
<1>1. IInv => KeepsAreConfirmed
  BY DEF IInv, KeepsInv, Confirmed, KeepsAreConfirmed
<1>. QED BY <1>1, Invariance, PTL

\* On a disk that does not fail, a kill at any point included, every suite the
\* log names stays as it was derived.
THEOREM SuitesStay ==
  ASSUME DiskMayFail = FALSE
  PROVE  Spec => []LoggedSuitesStay
<1>1. IInv => LoggedSuitesStay
  BY DEF IInv, SuitesInv, OnDisk, LoggedSuitesStay
<1>. QED BY <1>1, Invariance, PTL
=============================================================================
