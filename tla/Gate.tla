--------------------------------- MODULE Gate ---------------------------------
(***************************************************************************)
(* The decision gate (src/gate/decide.py, with the suite planning of       *)
(* src/gate/seeds.py): invocations of decide.py, each a transaction that   *)
(* reads the decision log, builds one line and appends it under a lock on  *)
(* decisions.lock.  Several invocations may run at once; any of them can   *)
(* be killed; the disk may fail; main/ and the snapshots can be edited     *)
(* between invocations and during one.                                     *)
(*                                                                         *)
(* The scores are data: a screening or a confirmation may come out any     *)
(* way, and only what the rule does with the verdict is kept.  A tree is   *)
(* its digest.  A result stands for the result file and its receipt; the   *)
(* profile is fixed, so a log line records only its mode.                  *)
(***************************************************************************)
EXTENDS Integers, Sequences, FiniteSets

CONSTANTS
  Proc,               \* the invocations that may run at once
  Version,            \* the snapshots under methods/versions
  Tree,               \* method-tree digests
  Missing,            \* no file
  Broken,             \* a suite file with other bytes than were meant for it
  Seed,               \* the seeds of the evaluation
  VisibleSeeds,       \* those of the visible suite
  Stream,             \* the keyed stream of seeds of a candidate and a look
  Sizes,              \* bound: the sizes a plan may ask for
  Pairs,              \* bound: the <<version, parent>> a caller may name
  Modes,              \* bound: the modes the callers use
  MaxLines,           \* bound: lines the callers may write
  DiskMayFail,        \* can a write or a sync fail?
  MayBeKilled,        \* can an invocation be killed?
  SnapshotsMayChange  \* does anyone edit a snapshot?

Gated == "gated"
Replay == "replay"

ASSUME GateAssumption ==
  /\ MaxLines \in Nat
  /\ \A suite \in SUBSET Seed : suite \notin {Missing, Broken}
  /\ Missing # Broken
  /\ Missing \notin Tree
  /\ Missing \notin [suite : SUBSET Seed, tree : Tree \cup {Missing}]
  /\ VisibleSeeds \subseteq Seed
  /\ Sizes \subseteq Nat \ {0}
  /\ Pairs \subseteq Version \X Version
  /\ Modes \subseteq {Gated, Replay}
  /\ {DiskMayFail, MayBeKilled, SnapshotsMayChange} \subseteq BOOLEAN

VARIABLES
  log,                \* decisions.jsonl
  tail,               \* how the file ends: "whole", "unterminated" or "garbled"
  suites,             \* results/<version>/replication/seeds.json
  visible,            \* results/<version>/visible_result.json: the tree measured
  played,             \* the confirmation results of each version and role
  versions,           \* methods/versions/<version>
  main,               \* methods/main
  lock,               \* the invocation that holds decisions.lock, if any
  pc,                 \* where each invocation is
  arg,                \* its command line
  seen,               \* how many lines of the log it read
  line                \* the line it is about to append

files == <<suites, visible, played, versions, main>>
vars == <<log, tail, suites, visible, played, versions, main, lock, pc, arg, seen, line>>

Roles == {"parent", "candidate"}
Argument == [version : Version, parent : Version, replicates : BOOLEAN, mode : {Gated, Replay}]
NoArgument == [version |-> Missing, parent |-> Missing, replicates |-> FALSE, mode |-> Replay]

\* tree and parentTree are the frozen digests, suite the seeds of the
\* confirmation, look its index: of gated lines only, as in the code.
Line == [number : Nat, version : Version, parent : Version, replicates : BOOLEAN,
         mode : {Gated, Replay}, disposition : {"keep", "revert", "provisional"},
         tree : Tree \cup {Missing}, parentTree : Tree \cup {Missing},
         suite : SUBSET Seed, look : Nat, size : Nat]
NoLine == <<>>

Init ==
  /\ log = <<>>
  /\ tail = "whole"
  /\ suites = [v \in Version |-> Missing]
  /\ visible = [v \in Version |-> Missing]
  /\ played = [v \in Version |-> [r \in Roles |-> Missing]]
  /\ versions \in [Version -> Tree]
  /\ \A v, w \in Version : versions[v] = versions[w] => v = w
  /\ main \in {versions[v] : v \in Version}
  /\ lock = {}
  /\ pc = [p \in Proc |-> "idle"]
  /\ arg = [p \in Proc |-> NoArgument]
  /\ seen = [p \in Proc |-> 0]
  /\ line = [p \in Proc |-> NoLine]

-----------------------------------------------------------------------------
(* Reading the log.                                                        *)

Opens(i) == log[i].disposition = "provisional"
Resolves(i) == log[i].replicates

\* The provisional lines among the first n that no replication has resolved.
OpenLines(n) ==
  {i \in 1 .. n : Opens(i) /\ \A j \in (i + 1) .. n : Resolves(j) => log[j].version # log[i].version}

\* get_open_provisional accepts the first n lines.
Coherent(n) ==
  \A i \in 1 .. n :
    /\ Resolves(i) => \E k \in OpenLines(i - 1) : log[k].version = log[i].version
    /\ Opens(i) => OpenLines(i - 1) = {}

\* read_log accepts the file.  A last line that lacks only its newline reads.
Readable == tail # "garbled" /\ \A i \in 1 .. Len(log) : log[i].number = i

-----------------------------------------------------------------------------
(* Suite planning (seeds.py).                                              *)

\* derive_seeds: the first size values of the stream that are seeds (a zero is
\* not one) and not excluded, each taken once.
DerivedSeeds(tree, look, size, exclude) ==
  LET s == Stream[tree, look]
      taken == {i \in DOMAIN s : s[i] \in Seed \ exclude /\ \A j \in 1 .. (i - 1) : s[j] # s[i]}
  IN  {s[i] : i \in {k \in taken : Cardinality({j \in taken : j < k}) < size}}

\* The visible seeds and those of every suite the first n lines derived.
Excluded(n) == VisibleSeeds \cup UNION {log[i].suite : i \in 1 .. n}

\* suite_seeds_in_log: every such suite is still on disk as it was written.
SuitesIntact(n) == \A i \in 1 .. n : log[i].suite # {} => suites[log[i].version] = log[i].suite

\* Mutant: the lines that kept are counted, not the confirmations.
NextLook_Keeps(n) == 1 + Cardinality({i \in 1 .. n : log[i].disposition = "keep"})
NextLook(n) == 1 + Cardinality({i \in 1 .. n : Resolves(i)})

-----------------------------------------------------------------------------
(* One invocation.                                                         *)

Goto(p, label) == pc' = [pc EXCEPT ![p] = label]

\* The process ends, and the lock with it.
Exit(p) ==
  /\ Goto(p, "idle")
  /\ arg' = [arg EXCEPT ![p] = NoArgument]
  /\ seen' = [seen EXCEPT ![p] = 0]
  /\ line' = [line EXCEPT ![p] = NoLine]
  /\ lock' = lock \ {p}

Running == {p \in Proc : pc[p] # "idle"}

Invoke(p) ==
  /\ pc[p] = "idle"
  /\ Len(log) + Cardinality(Running) < MaxLines
  /\ \E q \in Pairs, replicates \in BOOLEAN, mode \in Modes :
       arg' = [arg EXCEPT ![p] = [version |-> q[1], parent |-> q[2],
                                  replicates |-> replicates, mode |-> mode]]
  /\ Goto(p, "lock")
  /\ UNCHANGED <<log, tail, files, lock, seen, line>>

\* Mutant: the lock does not exclude.
Lock_Shared(p) ==
  /\ pc[p] = "lock"
  /\ lock' = lock \cup {p}
  /\ Goto(p, "read")
  /\ UNCHANGED <<log, tail, files, arg, seen, line>>

Lock(p) ==
  /\ pc[p] = "lock"
  /\ lock = {}
  /\ lock' = {p}
  /\ Goto(p, "read")
  /\ UNCHANGED <<log, tail, files, arg, seen, line>>

ReadLog(p) ==
  /\ pc[p] = "read"
  /\ Readable
  /\ Coherent(Len(log))
  /\ seen' = [seen EXCEPT ![p] = Len(log)]
  /\ Goto(p, "build")
  /\ UNCHANGED <<log, tail, files, lock, arg, line>>

ReadRefused(p) ==
  /\ pc[p] = "read"
  /\ ~(Readable /\ Coherent(Len(log)))
  /\ Exit(p)
  /\ UNCHANGED <<log, tail, files>>

\* Mutant: a replay line refuses nothing.
OneMode_Any(p) == arg[p].mode = Gated => \A i \in 1 .. seen[p] : log[i].mode = Gated
\* Gated mode takes a log of gated lines only, replay mode one without any.
OneMode(p) == \A i \in 1 .. seen[p] : log[i].mode = arg[p].mode

\* The two visible results carry receipts for the trees the snapshots hold
\* now, and main/ holds the candidate's.
Bound(a) ==
  /\ visible[a.parent] = versions[a.parent]
  /\ visible[a.version] = versions[a.version]
  /\ main = versions[a.version]

\* The line of invocation p, save for what a plan adds.
NewLine(p, disposition) ==
  LET a == arg[p]
      gated == a.mode = Gated
  IN  [number |-> seen[p] + 1, version |-> a.version, parent |-> a.parent,
       replicates |-> a.replicates, mode |-> a.mode, disposition |-> disposition,
       tree |-> IF gated THEN versions[a.version] ELSE Missing,
       parentTree |-> IF gated THEN versions[a.parent] ELSE Missing,
       suite |-> {}, look |-> 0, size |-> 0]

ToAppend(p, l) ==
  /\ line' = [line EXCEPT ![p] = l]
  /\ Goto(p, "append")
  /\ UNCHANGED <<log, tail, files, lock, arg, seen>>

\* The evidence of a screening is there: in gated mode bound to the trees, in
\* replay mode any two results.
Evidenced(a) ==
  IF a.mode = Gated THEN Bound(a) ELSE Missing \notin {visible[a.version], visible[a.parent]}

\* The screening does not build on a parent whose own decision is open.
Unstacked(p) == \A k \in OpenLines(seen[p]) : log[k].version # arg[p].parent

Screens(p) ==
  /\ pc[p] = "build"
  /\ ~arg[p].replicates
  /\ OneMode(p)
  /\ Unstacked(p)
  /\ Evidenced(arg[p])

\* The interval is below zero, which no open decision prevents; or, in gated
\* mode, the plan does not fit under the cap.
ScreenRevert(p) == Screens(p) /\ ToAppend(p, NewLine(p, "revert"))

\* Mutant: another open decision does not matter.
MayOpen_Always(p) == TRUE
MayOpen(p) == OpenLines(seen[p]) = {}

PlannedSuite(p, size) ==
  DerivedSeeds(versions[arg[p].version], NextLook(seen[p]), size, Excluded(seen[p]))
CanPlan(p, size) == SuitesIntact(seen[p]) /\ Cardinality(PlannedSuite(p, size)) = size

\* The plan fits: the suite is derived, and written before the line is.
ScreenProvisional(p) ==
  /\ Screens(p)
  /\ arg[p].mode = Gated
  /\ MayOpen(p)
  /\ \E size \in Sizes :
       /\ CanPlan(p, size)
       /\ line' = [line EXCEPT ![p] =
            [NewLine(p, "provisional") EXCEPT !.suite = PlannedSuite(p, size),
                                              !.look = NextLook(seen[p]), !.size = size]]
  /\ Goto(p, "suite")
  /\ UNCHANGED <<log, tail, files, lock, arg, seen>>

\* Replay mode: a clear win keeps, an inconclusive one is provisional.
ScreenReplay(p) ==
  /\ Screens(p)
  /\ arg[p].mode = Replay
  /\ \/ ToAppend(p, NewLine(p, "keep"))
     \/ MayOpen(p) /\ ToAppend(p, NewLine(p, "provisional"))

\* A screening that needs a confirmation and cannot open one.
ScreenBlocked(p) ==
  /\ Screens(p)
  /\ \/ ~MayOpen(p)
     \/ arg[p].mode = Gated /\ \E size \in Sizes : ~CanPlan(p, size)

\* The open line this invocation is to resolve.
Target(p) ==
  {k \in OpenLines(seen[p]) : log[k].version = arg[p].version /\ log[k].parent = arg[p].parent}

\* The open line carries a confirmation plan.
HasPlan(k) == log[k].look # 0

\* Mutant: what the open line froze is not compared with what is there.
Frozen_Unchecked(k) == TRUE
\* Neither the snapshots nor the screening evidence changed since line k.
Frozen(k) ==
  /\ log[k].tree = versions[log[k].version]
  /\ log[k].parentTree = versions[log[k].parent]
  /\ log[k].tree = visible[log[k].version]
  /\ log[k].parentTree = visible[log[k].parent]

\* Mutant: the open line's own suite is in the exclusion set.
ReDerives_AllLines(k) ==
  DerivedSeeds(log[k].tree, log[k].look, log[k].size, Excluded(Len(log))) = log[k].suite
\* The suite re-derives from the key, the frozen candidate, the look and the
\* lines before.
ReDerives(k) ==
  DerivedSeeds(log[k].tree, log[k].look, log[k].size, Excluded(k - 1)) = log[k].suite

\* Both results cover exactly the suite and are of the frozen trees.
Played(k) ==
  LET result == played[log[k].version]
  IN  /\ result["parent"] = [suite |-> log[k].suite, tree |-> log[k].parentTree]
      /\ result["candidate"] = [suite |-> log[k].suite, tree |-> log[k].tree]

\* The open line p resolves, if all that was frozen with it still holds.
Confirms(p) ==
  {k \in Target(p) :
     IF arg[p].mode = Gated
     THEN Bound(arg[p]) /\ HasPlan(k) /\ Frozen(k) /\ SuitesIntact(k) /\ ReDerives(k) /\ Played(k)
     ELSE \A r \in Roles : played[arg[p].version][r] # Missing}

\* In gated mode the line repeats the plan and the suite of the open one.
Confirm(p) ==
  /\ pc[p] = "build"
  /\ arg[p].replicates
  /\ OneMode(p)
  /\ \E k \in Confirms(p), disposition \in {"keep", "revert"} :
       ToAppend(p, [NewLine(p, disposition) EXCEPT
                      !.suite = log[k].suite, !.look = log[k].look, !.size = log[k].size])

\* Nothing is written.
BuildRefused(p) ==
  /\ pc[p] = "build"
  /\ \/ ~OneMode(p)
     \/ ~arg[p].replicates /\ (~Screens(p) \/ ScreenBlocked(p))
     \/ arg[p].replicates /\ Confirms(p) = {}
  /\ Exit(p)
  /\ UNCHANGED <<log, tail, files>>

\* Mutant: an existing suite file is written over.
WriteSuite_Over(p) ==
  /\ pc[p] = "suite"
  /\ suites' = [suites EXCEPT ![arg[p].version] = line[p].suite]
  /\ Goto(p, "append")
  /\ UNCHANGED <<log, tail, visible, played, versions, main, lock, arg, seen, line>>

\* write_suite creates the file, never opens an existing one.  A short write
\* goes unnoticed.
WriteSuite(p) ==
  /\ pc[p] = "suite"
  /\ suites[arg[p].version] = Missing
  /\ \E content \in {line[p].suite} \cup (IF DiskMayFail THEN {Broken} ELSE {}) :
       suites' = [suites EXCEPT ![arg[p].version] = content]
  /\ Goto(p, "append")
  /\ UNCHANGED <<log, tail, visible, played, versions, main, lock, arg, seen, line>>

WriteSuiteRefused(p) ==
  /\ pc[p] = "suite"
  /\ suites[arg[p].version] # Missing
  /\ Exit(p)
  /\ UNCHANGED <<log, tail, files>>

\* The write or the sync of the new suite fails: the file stays, and main()
\* has not learned that this call created it.
WriteSuiteFails(p) ==
  /\ DiskMayFail
  /\ pc[p] = "suite"
  /\ suites[arg[p].version] = Missing
  /\ \E content \in {line[p].suite, Broken} :
       suites' = [suites EXCEPT ![arg[p].version] = content]
  /\ Exit(p)
  /\ UNCHANGED <<log, tail, visible, played, versions, main>>

\* How the file ends when these bytes of a line go behind what is there.
TailAfter(written) ==
  IF written = "nothing" THEN tail
  ELSE IF tail = "whole" /\ written \in {"whole", "unterminated"} THEN written
  ELSE "garbled"

AppendLine(p) ==
  /\ pc[p] = "append"
  /\ log' = Append(log, line[p])
  /\ tail' = TailAfter("whole")
  /\ Exit(p)
  /\ UNCHANGED files

\* A short write, or a sync that fails after a whole one: the suite this call
\* created is removed, what reached the log stays.
AppendFails(p) ==
  /\ DiskMayFail
  /\ pc[p] = "append"
  /\ \E written \in {"nothing", "part", "unterminated", "whole"} :
       /\ tail' = TailAfter(written)
       /\ log' = IF written \in {"unterminated", "whole"} THEN Append(log, line[p]) ELSE log
  /\ suites' = IF line[p].disposition = "provisional" /\ arg[p].mode = Gated
               THEN [suites EXCEPT ![arg[p].version] = Missing] ELSE suites
  /\ Exit(p)
  /\ UNCHANGED <<visible, played, versions, main>>

\* A kill inside write_suite leaves a file without its bytes.
Kill(p) ==
  /\ MayBeKilled
  /\ pc[p] # "idle"
  /\ \/ UNCHANGED suites
     \/ /\ pc[p] = "suite"
        /\ suites[arg[p].version] = Missing
        /\ suites' = [suites EXCEPT ![arg[p].version] = Broken]
  /\ Exit(p)
  /\ UNCHANGED <<log, tail, visible, played, versions, main>>

-----------------------------------------------------------------------------
(* What the caller, the runner and the agent do between and meanwhile.     *)

\* A version is measured on the visible suite: once, unless someone who edits
\* snapshots measures again what they edited.
Measure(v) ==
  /\ visible[v] = Missing \/ SnapshotsMayChange
  /\ visible[v] # versions[v]
  /\ visible' = [visible EXCEPT ![v] = versions[v]]
  /\ UNCHANGED <<log, tail, suites, played, versions, main, lock, pc, arg, seen, line>>

\* The runner plays a suite with the tree of some version, once for each role.
Play(v, role, w) ==
  /\ suites[v] \notin {Missing, Broken}
  /\ played[v][role] = Missing
  /\ played' = [played EXCEPT ![v][role] = [suite |-> suites[v], tree |-> versions[w]]]
  /\ UNCHANGED <<log, tail, suites, visible, versions, main, lock, pc, arg, seen, line>>

EditMain ==
  /\ \E tree \in Tree : tree # main /\ main' = tree
  /\ UNCHANGED <<log, tail, suites, visible, played, versions, lock, pc, arg, seen, line>>

EditSnapshot ==
  /\ SnapshotsMayChange
  /\ \E v \in Version, tree \in Tree :
       tree # versions[v] /\ versions' = [versions EXCEPT ![v] = tree]
  /\ UNCHANGED <<log, tail, suites, visible, played, main, lock, pc, arg, seen, line>>
-----------------------------------------------------------------------------

\* A step of a running invocation.
Step(p) ==
  \/ Lock(p) \/ ReadLog(p) \/ ReadRefused(p)
  \/ ScreenRevert(p) \/ ScreenProvisional(p) \/ ScreenReplay(p)
  \/ Confirm(p) \/ BuildRefused(p)
  \/ WriteSuite(p) \/ WriteSuiteRefused(p) \/ WriteSuiteFails(p)
  \/ AppendLine(p) \/ AppendFails(p)

Environment ==
  \/ \E v \in Version : Measure(v)
  \/ \E v, w \in Version, role \in Roles : Play(v, role, w)
  \/ EditMain
  \/ EditSnapshot

Next ==
  \/ \E p \in Proc : Invoke(p) \/ Step(p) \/ Kill(p)
  \/ Environment

Spec == Init /\ [][Next]_vars

-----------------------------------------------------------------------------
(* Correctness.                                                            *)

\* Every variable stays in its range.
TypeOK ==
  /\ log \in Seq(Line)
  /\ tail \in {"whole", "unterminated", "garbled"}
  /\ suites \in [Version -> {Missing, Broken} \cup SUBSET Seed]
  /\ visible \in [Version -> Tree \cup {Missing}]
  /\ played \in [Version -> [Roles -> {Missing} \cup [suite : SUBSET Seed, tree : Tree]]]
  /\ versions \in [Version -> Tree]
  /\ main \in Tree
  /\ lock \in SUBSET Proc
  /\ pc \in [Proc -> {"idle", "lock", "read", "build", "suite", "append"}]
  /\ arg \in [Proc -> {NoArgument} \cup Argument]
  /\ seen \in [Proc -> Nat]
  /\ line \in [Proc -> {NoLine} \cup Line]

\* Whatever invocations overlap and die, the gate never refuses a log that it
\* wrote: the numbers are consecutive, at most one decision is open at a time
\* and every replication resolves one.  Only a failing disk garbles it.
LogReads == tail # "garbled" => Readable /\ Coherent(Len(log))

\* Every confirmation is played on seeds of its own: not the visible ones the
\* candidate was tuned on, and none that an earlier confirmation used.
SuitesAreFresh ==
  \A i \in 1 .. Len(log) : Opens(i) =>
    /\ log[i].suite \cap VisibleSeeds = {}
    /\ \A k \in 1 .. (i - 1) : Opens(k) => log[k].suite \cap log[i].suite = {}

\* No look index is used twice, so the keyed stream of a candidate is never
\* drawn from again under the same prefix.
LooksAreDistinct ==
  \A i, k \in 1 .. Len(log) :
    Opens(i) /\ Opens(k) /\ log[i].mode = Gated /\ log[k].mode = Gated /\ log[i].look = log[k].look
      => i = k

\* In gated mode nothing is kept by a screening: a keep resolves the decision
\* that was open for it, on the trees frozen when that one was opened, and
\* with both results played on exactly its suite.
KeepsAreConfirmed ==
  \A j \in 1 .. Len(log) :
    log[j].disposition = "keep" /\ log[j].mode = Gated =>
      \E i \in OpenLines(j - 1) :
        /\ \A f \in {"version", "parent", "tree", "parentTree", "suite", "look"} :
             log[i][f] = log[j][f]
        /\ played[log[j].version] =
             [r \in Roles |-> [suite |-> log[j].suite,
                               tree |-> IF r = "parent" THEN log[j].parentTree ELSE log[j].tree]]

\* A suite the log refers to stays on disk as it was derived, so that no later
\* screening is refused for it and an open decision can be confirmed.
LoggedSuitesStay == \A i \in 1 .. Len(log) : log[i].suite # {} => suites[log[i].version] = log[i].suite

\* The log with its transactions implements the atomic register.
registerOpen == {log[i].version : i \in {k \in OpenLines(Len(log)) : log[k].mode = Gated}}
registerSpent == VisibleSeeds \cup UNION {log[i].suite : i \in 1 .. Len(log)}
registerAccepted ==
  {log[i].version : i \in {k \in 1 .. Len(log) : log[k].disposition = "keep" /\ log[k].mode = Gated}}

R == INSTANCE DecisionRegister WITH
       open <- registerOpen, spent <- registerSpent, accepted <- registerAccepted

ImplementsRegister == R!Spec

\* A confirmation that is called again and again completes, once the runner
\* has played the suite, main/ stays the candidate and nothing is killed.
FairSpec ==
  /\ Spec
  /\ \A p \in Proc : WF_vars(Step(p))

OpenFor(q) == \E k \in OpenLines(Len(log)) : log[k].version = q[1] /\ log[k].parent = q[2]
CallConfirm(q) ==
  \E p \in Proc : Invoke(p) /\ arg'[p].replicates /\ <<arg'[p].version, arg'[p].parent>> = q
RightlyPlayed(q) ==
  /\ played[q[1]]["parent"] # Missing /\ played[q[1]]["parent"].tree = versions[q[2]]
  /\ played[q[1]]["candidate"] # Missing /\ played[q[1]]["candidate"].tree = versions[q[1]]

ConfirmationsComplete ==
  \A q \in Pairs :
    (/\ <>[](main = versions[q[1]] /\ RightlyPlayed(q))
     /\ <>[][Environment \/ \E p \in Proc : Invoke(p) \/ Step(p)]_vars
     /\ []<><<CallConfirm(q)>>_vars) => []<>~OpenFor(q)
=============================================================================
