---------------------------- MODULE PlainHelperInv ----------------------------
(***************************************************************************)
(* The inductive invariant of PlainHelper: what the files, the state the   *)
(* running command holds in memory and its program counter have to do with *)
(* each other.  PlainHelper_proofs proves it; here it can be model-checked.*)
(***************************************************************************)
EXTENDS PlainHelper

\* Where the command has not read the state yet, or is still repairing.
Unread == {"idle", "load"}

\* An init that found no state, up to the save of the first one.
Opening == {"stage", "commit", "init", "init_log", "init_save"}
OpeningNow == ~Initialized /\ pc \in Opening

\* Where evaluate is between its intent and the save of its candidate.
Registering == {"stage", "commit", "append", "save"}

\* Where nothing has been changed since load_state reconciled the disk.
Reconciled == {"init", "init_measure", "evaluate", "evaluate_from", "decide", "restore", "finalize",
               "finalize_keep", "status", "settle", "measure", "score"}

\* The saved state: no head means no state at all; the head and the pending
\* candidate are different recorded versions; what is recorded exists.
SavedInv ==
  /\ saved.head = None => saved = Blank
  /\ saved.head # None => /\ saved.digests[saved.head] # Missing
                          /\ saved.digests[First] # Missing
                          /\ saved.head # saved.pending
  /\ saved.pending # None => saved.digests[saved.pending] # Missing
  /\ saved.pending # First
  /\ \A v \in Versions : saved.digests[v] # Missing => versions[v] # Missing

\* At most one snapshot is unknown to the state, and then nothing is pending.
UnknownInv ==
  /\ \A v, w \in Unknown(saved) : v = w
  /\ saved.pending # None => Unknown(saved) = {}
  /\ ~Initialized => Snapshots \subseteq {First}
  /\ pc \notin Unread \cup {"repair", "append", "save"} /\ Initialized => Unknown(saved) = {}
  /\ pc \in {"append", "save"} => Unknown(saved) = {job.version}

\* The log: a block has a snapshot; only the first version is the baseline;
\* a version that reads kept has been decided.
LogInv ==
  /\ Declared \subseteq Snapshots
  /\ \A v \in Versions : log[v].status = "baseline" => v = First
  /\ Initialized => log[First].status = "baseline"
  /\ ~Initialized => log[First].status \in {"absent", "torn", "baseline"}
  /\ UndecidedNeverReadsKept

\* While it repairs, the command knows every snapshot and has adopted one.
Adopting ==
  /\ mem.head = saved.head
  /\ mem.pending \in AdoptedPending(saved)
  /\ \A v \in Versions :
       mem.digests[v] = IF v \in Unknown(saved) \ Broken THEN versions[v] ELSE saved.digests[v]

\* What the command holds in memory is what it last saved, except while
\* load_state has adopted a snapshot it has not saved yet.
MemInv ==
  /\ pc \in Unread => mem = Blank
  /\ pc \notin Unread \cup {"repair"} => mem = saved
  /\ pc = "repair" => Adopting
  /\ pc \notin Unread \cup Opening => Initialized

\* Each label's own facts about the job.
JobInv ==
  /\ pc # "idle" => job.cmd # "none"
  /\ pc \in {"evaluate", "evaluate_from"} => job.cmd \in {"evaluate", "evaluate_from"}
  /\ pc \in {"finalize", "finalize_keep", "deliver"} => job.cmd \in {"finalize", "finalize_keep"}
  /\ job.cmd = "decide" => job.version \in Versions /\ job.status \in {"kept", "reverted"}
  /\ job.cmd = "restore" => job.version \in Versions
  /\ pc \in Registering => job.cmd \in {"init", "evaluate", "evaluate_from"}
  /\ pc \in {"append", "save"} => job.cmd # "init"
  /\ pc \in {"init", "init_log", "init_save", "init_measure"} => job.cmd = "init"
  /\ pc \in {"init_log", "init_save"} => ~Initialized
  /\ pc \in {"stage", "commit"} => (Initialized <=> job.cmd # "init")
  /\ pc \in Registering \cup {"init_log", "init_save"} =>
       job.version \in Versions /\ job.tree \in Tree
  /\ pc \in {"stage", "commit"} => versions[job.version] = Missing
  /\ pc = "commit" => job.staged # Missing
  /\ pc \in Registering /\ Initialized => saved.pending = None
  /\ OpeningNow /\ pc \in Registering => job.version = First
  /\ pc \in {"init_log", "init_save"} => versions[First] # Missing
  /\ pc = "init_save" => log[First].status = "baseline"
  /\ pc \in {"measure", "score"} => job.version \in Versions
  /\ pc \in {"measure", "score"} /\ job.cmd \notin {"init", "evaluate", "evaluate_from"} =>
       saved.pending = job.version /\ job.status \in {"kept", "reverted"}
  /\ pc = "decide" => job.version \in Versions /\ job.status \in {"kept", "reverted"}
  /\ pc = "restore" => job.version \in Versions
  /\ pc = "settle" =>
       /\ job.version \in Versions
       /\ saved.pending = job.version
       /\ job.status \in {"kept", "reverted"}
  /\ pc \in {"settle_log", "note"} =>
       /\ job.version \in Versions
       /\ saved.pending = None
       /\ job.status \in {"kept", "reverted"}
       /\ job.version # First
       /\ saved.digests[job.version] # Missing
       /\ job.status = "kept" => saved.head = job.version
       /\ job.status = "reverted" => saved.head # job.version
  /\ pc = "settle_log" /\ job.status = "reverted" =>
       log[job.version].status \notin {"kept", "baseline"}

\* Once reconciled, the head's own block says that it is the head.
HeadInv ==
  pc \in Reconciled \cup Registering /\ Initialized =>
    log[saved.head].status = HeadStatus(saved.head)

\* What the ledger rests on.
LedgerInv == SavedInv /\ UnknownInv /\ LogInv /\ MemInv /\ JobInv /\ HeadInv

\* No snapshot, and so no block, has a higher number.
Newest(v) == \A w \in Snapshots : w <= v

\* What is not decided yet is the newest, and so is the version whose lines a
\* command is about to append.
LinesInv ==
  /\ LinesLandInTheirBlock
  /\ saved.pending # None => Newest(saved.pending)
  /\ Initialized => \A v \in Unknown(saved) : Newest(v)
  /\ pc \in Registering => Newest(job.version)
  /\ pc \in {"measure", "score"} => IsNewestBlock(job.version)
  /\ pc \in {"settle_log", "note"} => Newest(job.version)
  /\ pc \in {"save", "note"} => job.version \in Declared

\* A parent is an earlier version, and a block that names one names the state's.
ParentIn(parents, v) ==
  /\ {parents[v], log[v].parent} \ {None} \subseteq 0 .. (v - 1)
  /\ parents[v] # None /\ log[v].parent # None => parents[v] = log[v].parent
Traced(s) ==
  /\ s.intent.parent # None => s.intent.parent < s.intent.version
  /\ \A v \in Versions : ParentIn(s.parents, v)

\* What the state knows has a block, what has a parent the state knows, and a
\* snapshot it does not know has been announced in the intent.
ParentsInv ==
  /\ Traced(saved)
  /\ pc = "repair" =>
       /\ Traced(mem)
       /\ mem.intent = saved.intent
       /\ \A v \in Versions : mem.parents[v] # None => v \in Declared
  /\ \A v \in Versions : saved.parents[v] # None => saved.digests[v] # Missing
  /\ \A v \in Versions : saved.digests[v] # Missing => v \in Declared
  /\ Initialized => \A v \in Unknown(saved) : saved.intent.version = v
  /\ Initialized /\ pc \in Registering => saved.intent.version = job.version
  /\ pc = "save" => log[job.version].parent = saved.head

\* main/ stays what evaluate hashed until it is copied: then every digest is
\* that of its snapshot, and no two are the same.
HashedIsStaged == "stage" \notin EditsAt
SnapshotsInv ==
  HashedIsStaged =>
    /\ SnapshotsAreDistinct
    /\ \A v \in Versions : versions[v] # Unhashable
    /\ \A v \in Versions : saved.digests[v] # Missing => versions[v] = saved.digests[v]
    /\ pc \in {"stage", "commit"} => \A w \in Snapshots : versions[w] # job.tree
    /\ pc = "stage" => main = job.tree
    /\ pc = "commit" => job.staged = job.tree
    /\ pc \in {"append", "save", "init_log", "init_save"} => versions[job.version] = job.tree
    /\ pc \in {"init_log", "init_save"} => job.version = First

\* And until it is measured: what a measurement counts for is what it was of.
HashedIsMeasured == EditsAt \cap {"stage", "commit", "append", "save", "measure"} = {}
EvidenceInv ==
  HashedIsMeasured =>
    /\ EvidenceIsOfItsSnapshot
    /\ pc \in {"commit", "append", "save"} => main = job.tree
    /\ pc = "measure" /\ main \in Tree => versions[job.version] = main

\* Where a decision has been saved and the head's block says so.
Settled == {"note", "deliver", "swap", "swap_in"}
\* A command that got past load_state meets nothing torn, and a finalize ends
\* with nothing pending and a head that reads as it should.
DeliverInv ==
  /\ pc # "idle" => outcome = "none"
  /\ Initialized /\ pc \notin Unread \cup {"repair"} => Torn = {}
  /\ pc \in {"restore", "finalize_keep"} => job.cmd = pc
  /\ pc = "decide" /\ job.cmd # "decide" => saved.pending = job.version
  /\ pc \in Settled => saved.pending = None
  /\ job.cmd # "restore" /\ (pc \in Settled \/ (pc = "settle_log" /\ job.status = "reverted")) =>
       log[saved.head].status = HeadStatus(saved.head)
  /\ HashedIsStaged => FinalizeDelivers

IInv == LedgerInv /\ LinesInv /\ ParentsInv /\ SnapshotsInv /\ EvidenceInv /\ DeliverInv
=============================================================================
