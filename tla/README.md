# Provenance helper and decision gate: a TLA+ model

This directory holds a TLA+ development of the program under `src/`: the helper an agent runs
during an exam rollout to snapshot, measure and decide the versions of its policy
(`runbook/provenance.py`, on its own and with the gate mounted), the gate that turns paired measurements into
keep/revert decisions (`gate/decide.py`), the runner that makes the measurements
(`gate/evaluate_suite.py`), the tools that turn a finished rollout into a record and check it
(`profile/build_capsule.py`, `profile/verify_capsule.py`, `gate/trace_from_decisions.py`), and the audit that
runs the gate over a record's pairs (`gate/shadow_replay.py`). TLC checks the models on small
instances; TLAPS proves the central properties of the helper in both modes, the gate, the runner and the record for every instance.

## 1. The system

### Components, their state and their operations

| Component | State it keeps | Operations |
|---|---|---|
| Helper, plain mode (`runbook/provenance.py`) | `methods/main` (the working tree), `methods/versions/v<N>` (snapshots), `methods/experiment_log.md` (one block per version), `results/v<N>/` (measurements), `.provenance/state.json` (head, pending, intent, digests, parents), a lock | `init`, `evaluate`, `decide`, `restore`, `finalize`, `status`; each starts with `load_state`, which repairs what an abrupt stop left |
| Helper, instrument mode (same file) | the above, plus `gate/` (decision log, sealed suites and results), `confirming`, `settling`, `gate_blocked`, `unmeasurable`, the run window | the same commands with decisions delegated to the gate; settlement, safety margins, time budget |
| Gate (`gate/decide.py`) | a JSONL decision log under `flock`, one sealed suite file per provisional decision | one command: screening or, with `--replicates`, confirmation; gated (`--profile`) or replay mode |
| Suite planning (`gate/seeds.py`) | sealed suite files, created with `O_EXCL` | `derive_seeds`, `confirmation_size`, `write_suite`, `read_suite` |
| Runner (`gate/evaluate_suite.py`) | a result, its receipt and a safety report, each written to a temporary file and renamed into place | one evaluation of a tree on a suite; refuses an existing output before it evaluates; CPU and wall-clock limits |
| Task profile, digests, restore (`gate/task_profile.py`, `gate/treedigest.py`, `gate/restore.py`) | none; `restore` rebuilds `main/` through a staging directory | profile validation, tree digests, restore of a verified version |
| Trace converter (`gate/trace_from_decisions.py`) | none | decision log to trace |
| Record producer (`profile/build_capsule.py`) | none; writes the capsule | reads blocks, statuses, parents, scores, decisions |
| Record verifier (`profile/verify_capsule.py`) | none | recomputes and cross-checks a capsule |
| Shadow replay (`gate/shadow_replay.py`) | a shadow decision log | replays finished rollouts through the gate |
| Sealed evaluation, calibration, reports, cost, campaign scripts | files they write | batch computations |

### How they interact

* The agent calls the helper as a command, one at a time: `lock` refuses a second invocation. The
  agent also edits `main/` itself, and it (or the harness) can kill a command at any point.
* The helper runs the task's self-check (plain mode) or the runner (instrument mode) as a child
  process, and the gate as a child process in instrument mode. All communication is through files
  and exit codes.
* The gate reads the decision log and the evidence the runner published, may write a suite, and appends one line to
  the log, all under a lock file. A confirmation is a later invocation, after the runner has played the suite.
* The producer reads what the helper and the gate leave in the job directory; the verifier reads what the producer
  writes, against that directory; the converter reads the decision log alone. Each of the three re-states the gate's
  rules in code of its own, as each re-states the digest rules of a tree.
* The audit verifies a record, then calls the runner and the gate itself, pair after pair, in a work directory of its own.

### What is hard

* **Crash consistency.** A decision touches a directory, a text log and a JSON state. Every pair of
  writes is a window for a kill, every next command must close it, and the repair itself can be killed.
* **Order of durable writes.** "A decision saves the state before it rewrites the log" is what makes an
  undecided candidate never read as kept; the reverse order passes every sequential test.
* **Derived positions.** Score lines and notes are appended at the end of the log and belong to whichever
  block is last there.
* **Time of check and time of use.** `main/` is hashed, then copied, then measured; nothing keeps the agent
  from editing it in between.
* **Evidence of several files.** A measurement counts when its two or three files exist, and they are published one by one by a
  process that can die between them, while the helper that waits for it can die too and leave it running.
* **A decision made elsewhere.** In instrument mode the decision is the gate's line, and the helper's state, status, log
  lines and `main/` only follow it, each by a write of its own. The command that applies a line need not be the one that asked for it.
* **Four readers of one log.** The gate, the producer, the verifier and the converter must agree on what a log says, and the verifier
  must notice when a record says something else.
* **The gate's log.** At most one provisional decision may be open, no seed may be used twice, and a suite
  written by a process that dies before its line is appended must not be reused.

### What makes each component correct

* Helper: an undecided version never reads as kept; at most one version is undecided; every line lands in its
  own version's block; a measurement is of the snapshot it is filed under; no tree has two numbers;
  parents agree between state and log; `finalize` succeeds from every reachable state and what it calls finalized
  is what the producer needs; everything a command does takes effect at one instant.
* Gate: one open provisional at a time, resolved at most once, seeds of different looks disjoint, a look
  index never reused, a decision only on evidence of the version it names.
* Runner: the files of a unit are one evaluation's, or the unit does not count; what a stop left never refuses a
  retry; evidence that counts is never discarded or replaced. (The last holds as long as no runner outlives the helper that started it; see the
  failing runs.)
* Helper under the gate: the head is only ever the inherited version or one the gate kept on fresh seeds; the gate is asked once about a
  candidate and once to confirm it; every decided version has one ruling, the gate's where there is one; a settlement, once
  begun, is only completed; a blocked gate stays blocked until its line exists; `finalize` hands over a head within the safety margins.
* Producer, verifier, converter: what the protocol leaves is recorded and accepted; an accepted record is the one that
  would be built of the directory as it is now, its decisions follow from its evidence, and its submission was kept by a
  confirmation; the readers agree on every log one of them accepts.
* Audit: a version is evaluated once on a suite, as the record names it; the report says what the gate's log says.

## 2. Modules

| Module | What it is |
|---|---|
| `Ledger` | what the helper promises in either mode: a ledger of versions on which every operation is atomic |
| `Rollout` | what both modes share: the disk of one rollout, the start and end of a command, `load_state`, `init` and `evaluate` up to their state save, the refusals, edits and kills |
| `Rollout_proofs` | lemmas about `Rollout` that the proofs of both modes rest on |
| `PlainHelper` | `Rollout` plus the self-check measurement, `decide`, `restore`, `finalize`, the swap of `main/`; the properties; the refinement mapping to `Ledger` |
| `PlainHelperInv` | the inductive invariant `IInv`, as a model-checkable definition |
| `PlainHelper_proofs` | the theorems and their proofs |
| `MCPlainHelper` | the instance TLC runs |
| `Instrument` | `Rollout` plus everything the helper does under the gate; the properties; the refinement mapping to the same `Ledger` |
| `InstrumentInv` | its inductive invariant `IInv` |
| `Instrument_proofs` | its steps one by one, what each writes and what the gate's log is after it; then its theorems and their proofs |
| `MCInstrument` | the instance TLC runs |
| `DecisionRegister` | what the decision log promises: a register with at most one open decision, fresh seeds for each, acceptance only by closing one; every operation atomic |
| `Gate` | `decide.py` and the suite planning of `seeds.py`: concurrent invocations around one log; the properties; the refinement mapping to `DecisionRegister` |
| `GateInv` | its inductive invariant `IInv` |
| `Gate_proofs` | its theorems and their proofs |
| `MCGate` | the instances TLC runs: versions, pairs, seeds and a keyed stream |
| `Evidence` | what measuring promises: one evaluation counts for a unit of evidence, once and for good |
| `Runner` | `evaluate_suite.py` as processes, and the commands of the helper that discard what a stop left, launch them and wait |
| `RunnerInv` | its properties, the refinement mapping to `Evidence`, and the inductive invariant `IInv` |
| `Runner_proofs` | its theorems and their proofs |
| `MCRunner` | the instance TLC runs |
| `Trees` | a directory of a policy and the views the tools take of it: what each digest covers, what may be staged |
| `DecisionLines` | the gate's lines and the rules its readers apply: the gate's own verdict and disposition, the producer's, the verifier's and the converter's |
| `Capsule` | the producer (`ProducerRefuses`, `Produced`) and the verifier (`Errors`, `Verdict`) as operators over a job directory and a record |
| `Capsule_proofs` | lemmas about what `Capsule` computes: what a verifier without errors has established |
| `Record` | a rollout that leaves a job directory, alterations of the directory or of the record, the producer, the verifier; the properties |
| `RecordInv` | its inductive invariant `IInv`, and `HonestInv`, inductive with it, of a directory that nobody altered |
| `Record_proofs` | its theorems and their proofs |
| `MCRecord` | the instance TLC runs |
| `Shadow` | the audit of a verified record, pair by pair; the properties |
| `ShadowInv` | its inductive invariant `IInv` |
| `Shadow_proofs` | its theorems and their proofs |
| `MCShadow` | the rollouts it audits in TLC's run |

How they compose. In plain mode the helper calls neither the gate nor the runner, so `PlainHelper` and `Instrument` are two
completions of `Rollout`. `Instrument` uses the gate as one atomic append per call and the runner as the
publication of a whole unit of evidence or of less: that is what `Gate` is proved to implement (`DecisionRegister`, whatever invocations
overlap and die) and what `Runner` is proved to implement (`Evidence`). Both helpers implement the same `Ledger`.
`Record` and `Shadow` extend `Capsule`, which extends `Trees` and `DecisionLines`; `Shadow` uses the gate and the
runner one step at a time too, with every outcome `Gate` and `Runner` allow.

### State and actions against the code

`main`, `versions`, `evidence` hold, per directory, the *method-tree digest* of what is in it: `Tree` is
a set of digests, `Missing` no directory, `Unhashable` a directory the digest refuses (`method_files`).
`log` maps each version to its block: status (`"torn"` when the block lost its status line), parent,
and the set of lines appended to it, each tagged with the version it is *about*, so that a line in the wrong
block is visible. `saved` is `state.json`, `mem` the dictionary the running command holds, `pc` and `job` its
place and arguments. One action makes one durable change; the labels of `pc` sit where the code has its
`checkpoint(...)` calls or, between two of them, where one write ends and the next begins. `Stop` ends
the command at any of them with the disk as it is; `StopInAppend` leaves a block that lost its last lines.

`load_state` is `Load` (digests and adoption, in memory), `RepairBlock`, `RepairStatus`, `RepairHead` (log
writes, killable one by one) and `LoadDone` (the state save). `finalize` decides the pending
candidate through `cmd_decide`, whose own `load_state` finds nothing left to repair; the model goes to
`"decide"` directly. `init` on an initialized rollout ends in `cmd_status`, which changes nothing further.

In `Gate` an invocation of `decide.py` is a member of `Proc` and goes through the transaction of `main`: `Invoke` (the
command line), `Lock` (`flock`, which blocks), `ReadLog` or `ReadRefused` (`read_log`, `get_open_provisional`), one
of `ScreenRevert`, `ScreenProvisional`, `ScreenReplay`, `Confirm`, `BuildRefused` (`build_gated_line`,
`build_replay_line`), `WriteSuite` and its failures (`write_suite`), `AppendLine` or `AppendFails` (`append_line` and the
handler in `main` that unlinks the suite). `Kill` ends it anywhere, releasing the lock as the kernel does. `log` is
the sequence of lines, each a record of the fields the rules read; `tail` says whether the file ends in a whole line, a line that
lacks its newline, or the start of one. `suites`, `visible` and `played` are the evidence under `results/`:
a visible result or a confirmation result stands for the result and its receipt, as the gate requires both, and carries what the receipt
binds it to (tree and suite). `Stream` is the HMAC stream of a candidate and a look, any sequence of numbers, zero and
repetitions included; `DerivedSeeds` is what `derive_seeds` takes from it.

Left out of `Gate`: the scores and the interval (a screening may come out below, inconclusive or clear whenever its
evidence is there, a plan may ask for any of `Sizes` or not fit), the check that a stored interval or plan is recomputed to the
same numbers, held-out pairs, other profiles (one profile is fixed, so a line records only its mode), and symlinked or
non-canonical locators. The evidence is read in one step: `EditMain`, `EditSnapshot`, `Measure` and `Play` happen between
any two steps of an invocation, but not between two of the files one `build` step reads.

In `Runner` the units are the visible result of a version and the two results of its confirmation; `files` says for each file of a unit
which evaluation it holds or names (a receipt and a safety report carry the digest of the result). `helper` is the
command that needs a measurement: it looks whether there is one (`Look`), lists an incomplete unit (`Discard`) and removes it file by
file (`Unlink`), starts a process (`Launch`) or skips a unit that is complete (`SkipLaunch`), the parent's unit before the
candidate's, waits for all it started (`Wait`) and records a failure (`Record`). `runner` is one record per process:
`Check` or `Refuse` (existing outputs), `Evaluate`, `PublishResult`, `ReadDigest` (the result is read back from the disk for the
receipt), `PublishReceipt`, `PublishSafety`, `Exit`, or `Fail` where the code exits with an error. `KillRunner` kills one process;
`KillHelper` kills the command together with its processes, or, when `OrphansSurvive`, without some of them.

Left out of `Runner`: what the child interpreter does under its limits and how its games are validated (one step, `Evaluate`, or a
`Fail`), the temporary files, the budget hook called after the last publication, what follows for the
version from a failed measurement or confirmation (`Instrument` has it), and which of several versions is measured. The
existence of the outputs is read in one step.

Left out of `Rollout` and `PlainHelper`: wording, sanitizing, timestamps, the printed time line, cache exclusion
and file copying inside a tree (a tree is its digest), and a power failure (the code does not sync, and a kill of the process loses no
completed write).

In `Instrument`, `gated` holds the fields that the gate adds to `state.json` (`unmeasurable`, `confirming`,
`gate_blocked`, `settling` with the ruling to be written, and whose saved proposal is to keep); they are saved
with every write, so memory and disk never differ in them. `decisions` is the gate's log reduced to what `gate_state` reads of it;
`Kind(v)` is that function. `visible` and `fresh` say per version which units are whole, and whether the
safety report is within the margins. `rulings` holds the lines that a settlement appends to a block, each with who ruled and which proposal it
records; `frame` holds what `replace_main` and `settle` return to. `decide_with_gate` is `StayBlocked`,
`ApplyConfirmation`, `ApplyScreening`, `OpenConfirmation`, `AgentReverts`, `ProposeKeep`, `MeasureHead`,
`RefuseKeep`, `SaveProposal` and `GateScreens`, in the order of its early returns; `finish_confirmation` is
`FinishConfirmation`, `Play`, `BlockGate` and `GateConfirms`; `settle` and `finish_settlement` are `Settle` (the save that
decides), `SettleStatus`, `SettleLines`, `SettleMain`, `ClearSettlement`. `load_state` completes an interrupted settlement through
`ResumeSettlement`, before the repair of the head's status. `Walk` is the safety walk of `finalize`. `StopInRun` is a
kill while the runner works, which may have published a unit by then; `LoseEvidence` damages a unit between commands.
Left out: the refusals before the first command (missing mounts, a changed instrument lock, a malformed profile), which
change no state; the arithmetic of the window and of the preview, which is a nondeterministic "no time" before the
gate is asked; symlinks. A run of the runner that outlives a killed helper is in `Runner`, not here.

In `Record` a rollout grows a version at a time (`Inherit`; `Try`, what the agent decides by itself: anything without a
gate, under one only to give a candidate up; `Screen` and `Confirm` under a gate) and is
handed in with `main/` a version that stands. Its `job` has the snapshots, the blocks of the log (version, parent, status, the
word its declaration closes with, score), the decision log or none, the results with their receipts, `main/` and the
reward. `Alter` changes one place of the directory, before or after the record is built; `Reword` changes one field of
the record. `Build` and `Verify` apply `Capsule`, whose errors carry the codes of the verifier. A measurement is an integer
estimate and the interval is the estimate give or take `Spread`, so the rules for `verdict` and `disposition` are computed, by the gate's rule when a
line is written and by each reader's own rule when it is read. A digest is what it covers (`Trees`): the method
view of a tree is its Python files, the full view everything, and both refuse a link. Left out: the prose beyond these fields, trajectories, trace exports,
freeze digests and holdouts, which are carried along or compared by digest without a rule, locator conventions, and
the field-by-field schema beyond what the other checks rest on.

In `Shadow` an audit verifies the record (`VerifyRecord`) and goes through its pairs: `StageParent`,
`StageCandidate` (which compare the staged tree with the record), `Restore`, the two visible evaluations, `Screen`, the two
evaluations of the suite, `Confirm`; each may end the pair with a row in the report on disk. An evaluation that failed for a reason of the
policy's is remembered and never repeated; one that failed for another is made again by the next pair, and a
unit left without its receipt fails for good. `Damage` edits the job while it is audited, `Kill` ends the audit, which is never resumed. Left out: `--pair`, the inputs
manifest, the container's command line.

## 3. Runs

TLC runs each configuration to the end of its state space in under five minutes.

| Run | Asks | Instance and bounds |
|---|---|---|
| `plain` | `IInv`, `UndecidedNeverReadsKept`, `EvidenceIsOfItsSnapshot`, `FinalizeDelivers`, `ImplementsLedger`, `EventuallyDelivered` | v0 and v1, two trees, all commands and options, failing self-checks, kills, edits at any time but during an evaluation; fair |
| `plain_two_candidates` | `OneUndecided`, `LinesLandInTheirBlock`, `SnapshotsAreDistinct`, `ParentsAgree` | v0 to v2, three trees, the commands that make and decide versions, kills, edits between commands |
| `gate_concurrent` | `LooksAreDistinct`, `LoggedSuitesStay`, `ImplementsRegister` | two invocations, three versions in a chain, four seeds of which one visible, three lines, kills |
| `gate_faults` | `IInv`, `LogReads`, `KeepsAreConfirmed` | one invocation at a time, both modes, failing disk, kills, edits of snapshots and new measurements, three lines |
| `gate_liveness` | `ConfirmationsComplete` | two invocations, one candidate, three lines, kills; fair |
| `runner` | `IInv`, `CompleteIsCoherent`, `RetriesAreNotRefused`, `WrittenOnce`, `EvidenceIsFinal` | four processes, all commands, failing disk, kills that leave no process behind |
| `runner_orphans` | `CommandsEnd` | three processes, measurements and confirmations, kills that may leave processes behind; fair |
| `runner_orphan_rewrites` | finds a violation of `WrittenOnce` | three processes, kills that may leave processes behind |
| `instrument` | `IInv`, `OnlyConfirmedStand`, `RulingsAreTheGates`, `AskedOnce`, `SettlementStands`, `BlockedUntilResolved`, `ImplementsLedger` | v0 and v1, two trees, all commands that change state, kills at every label, edits between commands and before a confirmation, failing runs, a gate that may refuse, no time |
| `instrument_losses` | `FinalizedIsDelivered`, `EventuallyDelivered` | v0 and v1, two trees, `init`, `evaluate --from`, `decide`, `finalize`, kills at the labels of its configuration, failing runs, lost and unsafe evidence; fair |
| `record` | `HonestRolloutsVerify`, `AcceptedRebuilds`, `AcceptedDecisionsFollow`, `SubmissionStands`, `ReadersAgree` | three modes, up to three versions, three policies (one too large), two scores, two alterations of a rollout of one version, one of a larger, but none of a replay of three |
| `shadow` | `EvaluatedOnce`, `EvaluatedAsRecorded`, `ReportFollowsTheGate` | three rollouts of three candidates: a chain, a fan, and a chain whose root is the task's starter; failing evaluations and gate, kills, edits of snapshots |

**Why these bounds are enough to be interesting.** `MaxVersion` is the number of candidates after v0. One candidate
already meets every window between two writes of every command and their repairs; two are needed for a line to land in
another version's block, for a tree to come back under a second number and for a parent to differ. Two trees let
`main/` hold a snapshot or what is not one; three let it hold a third thing. `EditsAt` names the places in a command (besides between
commands) where the agent may edit `main/`. The proofs are for every such set; `plain` takes every place
but those of an evaluation under way (`stage` to `measure`): an edit at `stage` is a divergence below, and one from
`commit` to `measure` files the edited tree's score under the snapshot, because the self-check runs on `main/`
(`EvidenceIsOfItsSnapshot` fails there). In the gate two
invocations suffice for every race on the log, since a transaction touches nothing shared outside the lock but its
files; three lines are the shortest log with a decision opened, resolved and another opened (so with a second suite
and a second look). With two sizes nothing new happens, because a plan's size only matters against the seeds left; the
four seeds leave two suites of one. A confirmation takes two processes, so four let it be retried whole, or in part around a
measurement, and three are enough for an orphan and the process that replaces it; a command that would need more processes than are left is not issued, so that no wait is for a process that the bound withholds. In
`Instrument` one candidate goes through the whole life of a decision (screened, opened, blocked, retried, confirmed, settled) with
a kill at each of its labels; a second would repeat it with another parent. `KillsAt` in `instrument_losses` names the labels
whose kill leaves something for the next command to complete; `instrument` has them all. A record
of three versions is the smallest with a stacked screening, a parent that is not v0 and two versions of one tree. An audit of
three candidates is the smallest in which a pair left open by a failure is followed by one of the same parent and by
one of the failed candidate. Deadlock is checked
except in the runs of the runner, where the processes are used up and nothing obliges anyone to issue a command.
Kills, edits, losses and disk failures are unbounded in number, alterations are not. Symmetry is used where trees, policies and
invocations are only compared for equality, and never with a liveness property.

**What the failing run shows.** `runner_orphan_rewrites`: outputs are looked for only before the evaluation and then renamed over whatever is there,
and the helper's lock falls with the helper although its runners go on; so an orphan and the runner of the next
command publish into one unit, and can leave a result with the other's receipt.

**Fairness.** `plain` and `instrument_losses` ask weak fairness of the running command only, and that the agent runs `finalize`
again when it was killed: `EventuallyDelivered` is conditional on kills and edits ending and on `finalize` being
called, which is what the instructions to the agent ask for; nothing in the code retries by itself. Under the gate its conclusion has
two exceptions that the code means to stay: a blocked gate, which only an explicit `decide` retries, and an open
confirmation whose visible evidence was lost, which the gate refuses. `gate_liveness`
asks weak fairness of each invocation that runs: a process the kernel schedules takes its next step, and `flock`
grants a free lock to one that waits for it. `runner_orphans` asks weak fairness of the running command and of every
runner: a process takes its next step, and an evaluation is limited by its CPU and wall-clock limits. No fairness is
asked of kills or failures. The property of `gate_liveness` has as antecedents what the code cannot bring about: the
suite is eventually played with the right trees, `main/` stays the candidate, kills and disk failures end, and someone
calls the confirmation again and again.

### Divergences met while modelling that are not runs

Each was found by reading or by a counterexample, and is kept here so that the models' exceptions can be understood.

* *A kept version without its score.* `measure` writes its result file and then the score line; after a kill in between the version counts as
  measured and can be kept without a score line, where a comment in `cmd_decide` says that a kept version carries its score.
* *An edit between digest and copy.* `evaluate` hashes `main/` and then copies it; an edit in between leaves a snapshot whose digest is not
  the recorded one, and every later command refuses it as edited (`provenance.py`, `cmd_evaluate` and `load_state`).
* *A suite without a line.* A suite whose write or sync fails stays on disk, because the clean-up in `decide.py`'s `main` only knows suites whose
  creation returned; `write_suite` opens with `O_EXCL`, so the version cannot be screened again.
* *A result without a receipt.* The runner publishes the result before the receipt; a disk that refuses the receipt makes it exit 1 with its
  result written, where its docstring says that only exit 0 writes anything. `RetriesAreNotRefused` shows that this does no harm.
* *A parent lost to the safety walk.* A version adopted after a kill between its block and the state save has no entry in
  `parents`; the walk of `finalize` then goes on at v0 and skips safe ancestors in between (the runbook promises the nearest safe ancestor).
* *Kept twice.* When an honest gated rollout keeps a version whose tree an earlier version has, that was reverted or not decided,
  the verifier holds the first version of the class responsible and reports `protocol:kept_against_verdict` or
  `decision:missing_for_kept_version`. `HonestRolloutsVerify` states this exception.
* *What the verifier does not see.* A decision log that appears after a record was built without one, and directories
  under `versions/` that are not versions: the exceptions of `AcceptedRebuilds`.
* *Where the readers differ.* The converter accepts a confirmation smaller than its plan, which the verifier reports
  (`protocol:replication_reduction`), and a log whose lines state different units, which the producer refuses: the exceptions of `ReadersAgree`.
* *An audit does not get over an open decision.* When an evaluation fails between a pair's screening and its confirmation, the decision stays open in the
  audit's log, and every later pair that would need one is refused; the docstring of `shadow_replay.py` describes pairs as independent.
* *`restore.py` is two renames.* It removes `main/` and then renames the staged copy into place; a kill in between leaves
  no `main/`, where the contract of the decision log speaks of one rename. The next restore makes it good.

## 4. What is proved

`PlainHelper_proofs` proves, for every set of trees, every `MaxVersion`, every subset of commands
and options, and with edits at any set of places in a command:

* `Typed`: the type invariant;
* `Invariance`: `TypeOK /\ IInv`, inductive;
* `KeptMeansDecided`: a version that reads kept has been decided (`UndecidedNeverReadsKept`);
* `AtMostOneUndecided`: `OneUndecided`;
* `LinesLand`: `LinesLandInTheirBlock`; `ParentsAgreement`: `ParentsAgree`;
* `Distinct`: `SnapshotsAreDistinct`; `FinalizeHandsOver`: `FinalizeDelivers`, when nobody edits `main/` between its digest and its
  copy (`HashedIsStaged`: `"stage" \notin EditsAt`); `OwnEvidence`: `EvidenceIsOfItsSnapshot`, when nobody edits it between its
  digest and its measurement (`HashedIsMeasured`: no edits from `stage` to `measure`);
* `Refinement`: `Spec => ImplementsLedger`, the helper with its kills and repairs implements the atomic ledger.

The only assumption is `RolloutAssumption`: `MaxVersion` is a natural number, the special values are not trees,
and the bounds are of their kinds. The two hypotheses on edits are needed: the divergences above say what an edit does there, and the code
cannot see it. Edits at every other place are covered, so that of the evaluation's own steps `FinalizeHandsOver` only excludes the copy.

The invariant has two halves. `LedgerInv` is inductive by itself and is what the ledger rests on. It has six parts. `SavedInv`: what the state records exists and the head is not pending.
`UnknownInv`: at most one snapshot is unknown to the state, none while something is pending, and only
between the rename and the state save or before the repair of the next command. `LogInv`: blocks have
snapshots, only v0 is baseline, and the safety property itself. `MemInv`: the memory of a command is what it last saved,
except that a repairing command has adopted an unknown snapshot. `JobInv`: what each program point knows about the
command's arguments. `HeadInv`: once reconciled, the head's block says so. The safety property alone is not
inductive: to see that saving a decision before rewriting the log cannot endorse an undecided version, one needs that the
decided version is the pending one (`JobInv`, `MemInv`), that nothing else is unknown (`UnknownInv`) and
that repairing the head's status only ever endorses a recorded, non-pending version (`SavedInv`).

Five more parts, each inductive on top of `LedgerInv` and of those before it, hold the other properties. `LinesInv`: the pending, the unknown and the
registered version is the newest snapshot, and at each append the last block is that of the version the line is about; an append goes to whichever block is
last, so nothing less is stable. `ParentsInv`: an unknown snapshot is the one the intent announces, and has no
parent in the state yet, so that the parent a repair writes cannot contradict one that is there; it needs `Newest` for a parent to be
an earlier version. `SnapshotsInv`: every recorded digest is its snapshot's, so nothing is `Broken` and no tree that was compared with the recorded
digests has a snapshot. `EvidenceInv`: what is about to be measured in `main/` is the version's snapshot.
`DeliverInv`: past `load_state` no snapshot has a torn block, a finalize that decides decides what is pending, and after a decision or at the
delivery the head reads as it should. It excludes one by one what could refuse a finalize. A restore is the exception
to the last clause: the head's block is left to the next command, which is why `Deliverable` asks for another command. The `plain` run checks the whole `IInv`.

The refinement step is a case split on what changed: steps that leave state, snapshots and log
alone stutter; the rename of a staged copy is `Inherit` or `Register`; the state save of `init` is `Open`, of a decision `Keep`
or `Revert`, of a restore `Restore`; adoption and repairs stutter because the set of undecided versions and the set of
endorsed versions do not change.

`Instrument_proofs` proves, for every set of trees, every `MaxVersion`, every subset of commands, kills at any set of places and
edits at any set of places (one theorem excepted, below), with or without failing runs, refusals of the gate and lost or unsafe evidence:

* `Typed`: the type invariant; `Invariance`: `IInv` (whose first part it is), inductive;
* `ConfirmedStand`: `OnlyConfirmedStand`; `RulingsFollowTheGate`: `RulingsAreTheGates`; `GateAskedOnce`: `AskedOnce`;
  `FinalizeHandsOver`: `FinalizedIsDelivered`; `BlockedStays`: `BlockedUntilResolved`;
* `SettlementCompletes`: what ends a settlement empties it with the status and the line of its ruling written;
  `SettlementHolds`: `SettlementStands`, which adds that `main/` is then the head, if the agent edits nothing between the last
  swap of a settlement and the save that clears it (`"settle_clear" \notin EditsAt`, as in the run; the code cannot see such an edit, and
  the settlement is complete all the same);
* `Refinement`: `Spec => ImplementsLedger`, with the gate in the loop the helper implements the same atomic ledger.

The assumptions are `RolloutAssumption` and `InstrumentAssumption` (the bounds are of their kinds). The invariant relates four
records of one decision, each written by a step of its own: the line in the gate's log, the settlement in the state file, the status and line
in the helper's log, and `main/`. `DecisionsInv` has the gate's log in one of its four forms per version (nothing, a reverting
screening, an open provisional, a provisional and its confirmation); without it one more screening of a settled version could not be excluded.
`GatedInv` says whose the open or blocking line is, and that its proposal was saved before the gate was asked. `SettlingInv`
says that a settlement agrees with the gate's line, and that its ruling is not yet, or exactly once, in the log; `RulingsInv` that every other decided
version has one ruling. `EndorsedInv` extends the property of the head to intents and recorded parents, because `finalize` walks to them.
`ReconciledInv`, `RegisterInv`, `DecideInv`, `FrameInv` say what each program point knows, in particular that no command gets past
`load_state` with a settlement open unless it is completing it. `SavedInv`, `UnknownInv`, `LogInv` and `MemInv` are those of plain mode, with what
the gate adds. The proof has one lemma per part, over tables of which step writes which variable, and it shows one thing that was not expected: outside a settlement the repair of the head's status
(`RepairHead`) never fires under the gate (`NoHeadRepair`). The refinement splits on what changed, as in plain mode; a ledger
decides where the state file begins a settlement, so that applying it is a stutter.

`Gate_proofs` proves, for any set of invocations, versions, trees and seeds, any stream and plan sizes, either mode,
and with kills, failing writes and edits of every file:

* `Typed`: the type invariant; `Invariance`: `TypeOK /\ IInv`, inductive;
* `LogAlwaysReads`: `LogReads`; `FreshSuites`: `SuitesAreFresh`; `DistinctLooks`: `LooksAreDistinct`;
* `KeptByConfirmation`: `KeepsAreConfirmed`; `SuitesStay`: `LoggedSuitesStay`, when `DiskMayFail = FALSE` (a failed sync of a whole line
  unlinks the suite the line names, see the hazards);
* `Refinement`: `Spec => ImplementsRegister`, concurrent, killed and failing invocations together implement the atomic register.

The assumption is `GateAssumption`: nothing is asked of the stream, planned sizes
are positive, and the special values are not trees, suites or results.

The invariant has three parts. The first, `TransactionInv`, is about one predicate, `Fits(l, n)`: line `l` may follow the first `n` lines (its number, its mode, a
provisional line only when nothing is open, on unused seeds and with the next look, a replication only of what is
open, on its suite). `LogInv` says every line fitted those before it; `LineInv` that the line an invocation has
built still fits the log as it is now. That needs `LockInv`: from the read to the append the invocation holds the lock alone, and the
log is as long as what it read. Without the lock `LineInv` fails at the first other append. The safety properties follow from
`LogInv` alone; distinct looks need in addition that a replication lies between two openings (`LooksGrow`). The
refinement is a case split on the kind of line appended (`AppendRefines`); all other steps leave the log, and so the register, alone.
`KeepsInv` says of every gated keep, in the log or being written, that an open line froze what it repeats and that both of its games
were played on that suite and those trees (`Confirmed`); it is stable because results are played once, so an edit after the comparison
cannot undo it, and a line keeps what was open before it. `SuitesInv` says that the suite of every line is on disk, for a line being written from the
moment it may be appended; it is stable because a suite is only ever created, and it is stated for a disk that does not fail.
The `gate_faults` run checks the whole `IInv`.

`Runner_proofs` proves, for any number of processes, any subset of commands and of faults, when no runner outlives its helper:

* `Invariance`: `IInv` (whose first part is the type invariant), inductive;
* `EvidenceIsCoherent`: `CompleteIsCoherent`; `RetriesAndSuccesses`: `RetriesAreNotRefused`, and that a success recorded by the command is evidence (`SuccessIsEvidence`);
* `EvidenceIsWrittenOnce`: `WrittenOnce`; `Refinement`: `Spec => EvidenceIsFinal`, the publication file by file implements `Evidence`.

The hypothesis of each theorem besides `RunnerAssumption` is `OrphansSurvive = FALSE`; `runner_orphan_rewrites` shows that it is needed. The
invariant says that a live process is a child of the running command, launched for a unit the command has prepared
(`LiveAreChildren`, `ChildrenAreTheirUnits`), so that at most one process works on a unit; what the preparation has established
(`Preparing`: at the launch the unit is empty); what such a process has published so far, which is then exactly what the
unit holds (`Published`); and that the files of a unit are one evaluation's (`OneRun`). The properties follow from
`Published` and `OneRun`; the refinement is a case split on whether a unit becomes complete, which only the publication of its last
file does.

`Record_proofs` proves, for any number of versions, any policies, trees, seeds, scores and spread, in all three modes, and for any number of
alterations of the directory before and after the record is built and of the record itself:

* `Typed`: the type invariant; `Invariance`: `IInv`, inductive;
* `AcceptedIsRebuilt`: `AcceptedRebuilds`; `AcceptedFollows`: `AcceptedDecisionsFollow`; `AcceptedStands`: `SubmissionStands`;
* `HonestInvariance`: `IInv /\ HonestInv`, inductive; `AllReadAlike`: `ReadersAgree`; `HonestIsAccepted`: `HonestRolloutsVerify`.

The assumption is `RecordAssumption` (the versions a rollout may reach are versions, the scores integers, and `None` is none of
the values it stands beside). `IInv` is small, because the verifier trusts nothing: the directory and record have their types, the job has results only where a
rollout leaves them, an untouched record is the producer's of the directory it was built from (`RecordIsProduced`), and a verdict is
the verifier's of what is there (`VerdictIsOfThese`). `TypeOK` ranges over infinite sets and is only proved; the other parts were also checked by
TLC on the instance of the run. The rest is about `Capsule` (`Capsule_proofs`). A verifier that reports no file errors
has compared every result the record names with the directory (`NoFileErrors`), and what the producer writes depends on nothing
else (`ReadAlike`), so the record it accepts is rebuilt. For the decisions: every entry claims a line of the log by its
number, each line is claimed once, nothing lies between an open decision and its confirmation (`NothingBetween`), and two increasing enumerations of
the same lines are equal (`IncreasingIsUnique`), so that entries and log agree line by line; the verifier's own rule for verdict and
disposition is then shown to be the gate's (`LineFollows`), case by case of the two pieces of code. The class of the
submission is recomputed by the verifier, from which `AcceptedStands` follows.

The last two need to know what a rollout leaves, which `HonestInv` (in `RecordInv`, also checked by TLC on the instance of the run)
says of a directory that nobody altered. The versions are an initial segment, a block each, in order; only the last
block may be open, and a block's status and closing word agree (`BlockFollows`). Every snapshot has its visible result, with the score on
its block (`SnapshotFollows`). Every line names the results that are still there and follows from them by the gate's rule; a confirmation comes next
to the provisional screening it resolves and takes over its frozen fields, and nothing else comes next to one; the last line about a version says what its
block says (`LineFollowsRollout`). That is inductive because a provisional line leaves its block open, and an open block stops
`MayTry` until `Confirm`; the results of a confirmation go to places no earlier line names. From it: at most one decision is open at any line, the one
before a confirmation (`OnlyTheLastIsOpen`), so the converter's search finds it (`RolloutConverts`); and what the converter
accepts, the other two read alike, whatever log it is (`ConvertedFollowsTheRules`, `ConvertedIsConsistent`). The verifier's
checks are then gone through one by one (`HonestLineage`, `HonestSubmission`, `HonestDecisions`, `HonestFiles`): all come out empty but
the two of `HonestConduct` that speak of the submitted version, and these need two versions with `main/`'s method tree, since
`main/` is one that stands, while the record submits the first.

`Shadow_proofs` proves, for any job directories, any starter tree, projection allowed or not, and with kills, failing gate calls, failing
evaluations and edits of the audited job:

* `Invariance`: `IInv` (whose first part is the type invariant), inductive;
* `Once`: `EvaluatedOnce`; `StagedAsRecorded`: `EvaluatedAsRecorded`; `ReportFollows`: `ReportFollowsTheGate`.

The assumption is `JobsAssumption`: a job directory has a tree or nothing under each version and a log of blocks. Nothing else is asked of
the rollout, because the audit begins only if the verifier reports no error: that no two ordinals are equal gives one pair per candidate
(`PairsOfARecord`), and that a version is never its own parent (`RecordTells`) keeps the two evaluations of a suite in different units.
The invariant then says which pairs the log can have lines about (`Reached`: the one being audited only while it waits for its
confirmation, and then it is open), what the row being filled already says (`RowInv`), and that every evaluation that told something left
its failure or its evidence in the unit that every later pair looks into (`EvaluationInv`). Rows of earlier pairs stand because a line
never is about another candidate (`RowsStay`), and a version that blocks a later pair can only be one whose row says it was left
(`OpenWasLeft`). The whole `IInv` was also checked by TLC on the instance of the `shadow` run.

Most of what is proved is also model-checked (section 3); the type invariants, `SettlementCompletes` and
`SuitesAreFresh` are only proved, being parts of the checked `IInv` or consequences of it.

Model-checked only: liveness (`EventuallyDelivered` in both modes, `ConfirmationsComplete`, `CommandsEnd`), which is out of
reach of the prover used, as is ENABLED.

## 5. Plan

Done: (1) `Ledger`, `Rollout`, `PlainHelper` and their proofs; (2) `DecisionRegister`, `Gate` and their proofs;
(3) `Evidence`, `Runner` and their proofs; (4) `Instrument`; (5) `Trees`, `DecisionLines`, `Capsule`, `Record`: the producer, the verifier and the converter;
(6) `Shadow`; the proofs of `Instrument`, `Record`, `Shadow` and the remaining ones of `Gate` and `PlainHelper`.

Left, in this order:

7. The campaign runner `run-ab.sh`: its lock directory, stage admission and resume.
8. The planned size of a confirmation (`confirmation_size`) against a reference definition.

### Not modelled, and why

* `task_profile.py`: validation of one document that stays fixed during a rollout, with no state.
* Sealed evaluation, calibration, reports, cost, profile generation and figure scripts: batch arithmetic and formatting with no state between steps.
* The container and gateway scripts: they start processes. The studies: recorded data.
* Within modelled parts: holdouts, trajectories and freeze digests of a record; `--pair` of the audit; `restore.py` and `treedigest.py`
  beyond the step and the views the other modules use; the cases named as left out in section 2.
