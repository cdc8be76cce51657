# Verification of the Hermes second brain

TLA+ modules, TLC configurations and TLAPS proofs for the parts of this
repository whose correctness depends on order: databases shared by several
processes, leases, outboxes and files that have to agree after a crash.
Source paths below are relative to `server/second-brain/` unless they start
with another top-level directory; `lifecycle.py`, `dreaming/...` and so on live
in `src/hermes_second_brain/`.

## 1. Inventory

The repository is a snapshot of one server: a Python package ("second brain"),
the plugins and scripts around it, and a coding-agent driver (`coder-stack`).
All durable state is in SQLite files, spool directories and private text files.
The processes are cron jobs, CLI calls and plugin threads, and they meet only in
that state: there is no resident server that could order them.

| component | state | operations | what is hard | what makes it correct |
|---|---|---|---|---|
| lifecycle store (`lifecycle.py`) | tables `lifecycle_intents`, `lifecycle_jobs`, `lifecycle_transitions` | capture and advance intents; enqueue, start, heartbeat, checkpoint, resume, verify, complete, fail, retry, cancel jobs; detect stale ones | the clock is read before the write lock is awaited; workers come back late; calls are repeated | one live lease per job, generations fence old workers, the attempt budget holds, verdicts are final |
| Dream sweep (`dreaming/runner.py`, `store.py`, `artifacts.py`) | Dream database, staging directory, published files, `DREAMS.md`, outbox to the lifecycle store, lease `dream-sweep` | one sweep: recover, scan, Light/REM/Deep, stage, commit, publish, drain outbox, prune | death between any two transactions or file moves; exceptions in handlers; sessions that grow while they are read | commits are all or nothing over database and files, nothing of a dead run survives, nothing of a committed one is lost |
| report delivery (`operations.py`, `cli.py`, `store.py`) | table `reports` | claim for a day, claim, snapshot, acknowledge, release | stdout and the acknowledgement are not one step; claims expire under live owners; two programs with different rules share the table | one Liefer-ID, one text; delivered means written; no day left without a report |
| Dream ingestion, scoring, model, retrieval (`dreaming/*.py`) | none of its own | read sessions, rank, call the model | arbitrary answers | – (their answers are inputs of the sweep) |
| nightly launcher and worker (`scripts/dream_launcher.py`, `dream_nightly.py`) | `nightly.pid.json` | start one worker, heartbeat, release | check-then-unlink on a stale pid file | at most one worker |
| OpenViking sync (`state.py`, `sync.py`, `scanner.py`, `ov_adapter.py`) | table `resources` | scan, claim batch, upload, mark synced or failed, tombstones, receipts | files change between scan and upload; lease expiry; late results | what counts as synced is what was uploaded |
| queue spool (`queue_spool.py`) | spool directory, `.processing.<pid>` files, quarantine | claim by rename, import, recover, quarantine | crash between import and unlink, pid reuse, check-then-replace | no event lost, imports idempotent |
| improvement proposals (`improvement.py`, `review_runner.py`) | proposals and their transitions | propose, review, approve, apply, canary, keep, roll back, expire | a batch of reviews applied while proposals move on | nothing is applied without approval |
| process observatory (`server/plugins/process-observatory`, `observatory.py`) | bounded queue, writer thread, spool quotas, metrics database | emit, flush, stop, import | overflow, writer that stops, quotas that delete what is being written | every accepted event is written or counted as dropped |
| context inbox (`context_inbox.py`, `temporary_memory.py`) | events, notifications, briefs, expiring memory | rank, claim alerts, mark emitted, claim brief | claims expiring while their owner prints | an alert is not shown twice without cause and never lost |
| context sources (`context_sources/*.py`) | vault database: cursor, generations, derivatives | scan a page, commit it, publish changes to the inbox, tombstone | edits between pages, overlapping or killed runs, two databases | nothing listed is lost, nothing listed is tombstoned |
| personal messaging (`personal_messaging.py`) | action intents and audit trail, staged attachments | prepare, confirm, claim, send, finish, reconcile, purge | death or ambiguity between send and result | at most one dispatch, true verdicts, attachments kept while needed |
| coder flow and runner (`coder-stack/bin`) | source lock, journal, process groups, circuit breaker | plan, implement, review, gate, shut down | signals and timeouts against child processes | one flow per source, no process group left behind |
| readers, collectors, CLI queries, installers, vendored plugins | none that several processes change together | I/O and parsing | – | – |

Interactions: conversations in the Hermes profile databases are read by the
sweep; a committed sweep leaves a report row (delivered by the morning report
or the CLI), an import file (picked up by OpenViking sync, which acknowledges
it) and, through its outbox, captured intents in the lifecycle store; operators
and workers move intents and jobs there. Spools carry events from plugins into
the context and metrics databases.

`PROJECT.json` lists every component with its status, and under `hazards` every
place found so far where a test would hardly reach, with the properties that
cover it or the reason why none does yet.

## 2. Modules

| module | models | states and actions |
|---|---|---|
| `FencedWork` | abstract | what the job table promises: `Post`, `Take`, `Release`, `Finish`, `Drop`; no leases, clocks or keys |
| `Lifecycle` | `lifecycle.py` | the three tables; one action per mutating method |
| `DreamSweep` | `runner.py` `_execute`, `store.py`, `artifacts.py` | sessions, database, files, intents, lease, and a program counter per sweeper; one action per transaction or file operation |
| `DreamReports` | report claims of `store.py`, `operations.py`, `runner.py`, `cli.py` | report rows and a program counter per invocation |
| `ResourceSync` | `sync.py`, `state.py`, `scanner.py`, `ov_adapter.py` | files, table `resources`, OpenViking's copy, and a program counter per sync; one action per transaction or `ov` command |
| `ActionStore` | `ActionStore`, `execute_intent`, `record_external_result` of `personal_messaging.py` | intents, staging directories, executors, janitors |
| `SourceScan` | `context_sources/{runner,store}.py`, the reminders adapter, `apply_source_changes` | listing, cursor, vault, inbox, and a run per scanner |
| `InboxQueue` | `queue_spool.py`, the alerts of `context_inbox.py` and `cli.py`, `context_watch.py`, `context_cycle.sh` | spool files, inbox rows, notification claims, and a run per process |
| `RunnerHandoff` | the process groups of one stage: `coder-stack/bin/hermes-coder-flow`, `hermes-coder` | group leaders and descendants, the runner, the socket, the flow |

`MC<Module>` holds the TLC constants of a module and `<Module>Proofs` its
theorems. Definitions whose comment begins "Wrong variant" are not part of any
specification: each is a plausible mistake in the definition after it, used to
show that the property it is paired with in `PROJECT.json` would notice.

The components meet in data that one of them leaves for another. `DreamSweep`
holds both ends of its two hand-overs (the staging outbox with the lifecycle
store's intents, the publication with its files), `SourceScan` those of the
vault and the inbox, `InboxQueue` those of the spool and the inbox, and
`RunnerHandoff` is the composition of two programs over a channel.

### Lifecycle

Every public method runs in one `BEGIN IMMEDIATE` transaction, so it is one
action. `_now()` is called before the transaction waits for the lock (busy
timeout 5 s), so an action uses a time from `Clocks` that lags the real `clock`
by at most `MaxLag`. A keyed call found in the transition table, a repeated
capture or enqueue, and a call that raises are stuttering steps. Texts,
timestamps, checkpoints and evidence are reduced to what guards read. `grant`
and `workers` are history variables: the expiry last promised to each process,
and who acted in the current generation. A process may quote any generation
ever issued (job results publish them) but only its own owner label.

`Abstract == INSTANCE FencedWork` maps a job's budget, generation, owner while
active and final state to the abstract variables; `FencedWork` is its
specification as a property.

### DreamSweep

Each sweeper runs `_execute`: `Acquire`; then `Rollback` and `MarkAbandoned`
(`rollback_abandoned_mutations`), `CleanStaging`, and, if a publication is
pending, `PublishReport`, `UpdateDreams`, `PublishImport`, `Acknowledge`; then
the outbox (`ListStaging`, `CaptureIntent`, `MarkStaged`, `StagingFails`,
`StagingDone`); then `Begin`, `Scan`, `Light`, `RemDeep`, `StageReport`,
`StageImport`, and `CommitPublication` or `CommitNoop`, the publication again,
the outbox again, `Finish`, `PruneRuns`, `PruneReports`, `Release`. `Raise`
sends it to the handler (`CleanStaged`, `UndoRows`, `FinishFailed`); `Crash`
ends it anywhere. `Grow` lets a session get a message at any time.

- Both callers pass `max_rounds=1`, so a run that is not a dry run has one round.
- `acquire_lease` never takes a lease from a live pid, so owner and generation
  collapse to "the live process that holds it"; a dead holder's row is free.
- `Light` is one step although it upserts one candidate per transaction: a
  death between two of them leaves what a smaller model answer would.
- What the model answers, how batches are cut and how candidates score are
  arbitrary choices; `Scores` is what the fingerprint sees of a score.
- An exception in `start_run` is outside the `try` and ends the process: `Crash`.

### DreamReports

Each invocation claims once with a claim owner of its own, may render (morning
report only), save the snapshot, write and acknowledge, and may raise or die
anywhere. The morning report claims within its local day and supersedes what is
left open of it; `dream-report --claim` takes the newest of any day. Time is
counted in units against which the lock wait is short (claims last 300 s).
Retention of report rows is in `DreamSweep`, not here.

### ResourceSync

A sync runs `Start`, `ListFiles` (or `ListInterrupted`, `RootMissing`),
`ReadFiles` (or `FileVanishes`), `UpsertScan`, `MarkMissing`, then batches:
`Claim`, and for each row of the batch `Stat`, `Remove`, `Write` or `Add`,
`SetTags` (each of which may be `CommandFails`), `Wait` where the manifest waits
for the index, and `Result` (`MarkSynced`, `MarkFailed`) under the fence of owner
and status. `Lapse` ends a lease while its owner still runs, `Indexed` ends the
lock OpenViking holds on a text it is indexing, `Die` ends a sync anywhere.

- A text is a version number, and an edit never brings an earlier text back, so
  equal hashes mean equal texts.
- The waiting of a manifest is chosen when a sync starts; both values are checked.
- One source, no dry runs or receipts; the filters of the scanner decide which
  files exist here.

### ActionStore

`Prepare`, `Stage` and `Insert` create an intent (`create_intent`). An executor
runs `Load`, `Verify` (or `Expire`), `Claim`, `Check`, `Send` and `Post` or
`Connector`, `Record`, `Finish`, `PurgeStaged`; the agent that calls the Slack
connector answers through `RecordExternalResult`. Janitors run `ReconcileStale`,
`PurgeTerminal` with `PurgeOne` and `Sweep`. Preparers, executors and janitors
die anywhere.

- Time is kept as what the code tests: the distance of an intent to its expiry,
  and the age of its claim, its verdict and its directory, each up to the bound
  it is compared with. The second of expiry is a state of its own, since
  `verify_executable` and `claim` read it differently.
- Nothing bounds the time from the first copied file to the inserted row, and
  `--retention-seconds` may be 1. A sweep takes away the files of a preparation
  that lasts as long as the retention: staging fails, or the check before sending
  does. `slow` is a history variable that collects such intents, and
  `StagedWhilePending` speaks of the others.
- A bridge may have delivered a message whose answer says that it failed or never
  comes: `Answers` lists what each outcome may look like to the executor.

### SourceScan

A run of `scan_one` is `ReadCursor`, `Scan` (the adapter's page against the
listing as it is now), `Commit` (or `Conflict`, when the cursor moved), then
`ReadPending`, `ApplyChanges`, `MarkPublished`. `Edit` changes the source at any
time, `Fail` ends a run that raises or is killed after its 55 seconds.

- The cursor is a signature and an offset; the signature is a hash of the whole
  output of the source's command, here the listing itself. The contacts,
  calendar and notes adapters have the same rule.
- A generation is reduced to whether one is open and which rows it has seen.
- Every record carries the dates the adapter reads. Retention is left out.
- Records stay in their list. The inbox identifies an event by platform, list and
  record (`context_inbox.py:1127`), so it can be keyed by the record here; what a
  move to another list does is among the hazards left out (section 6).
- `overtaken` is a history variable: the records a commit changed between another
  run's reading of the pending rows and its mark. `mark_published` then marks a
  text that was never applied (`context_sources/store.py:350`). A record leaves the
  set when its row is pending and nobody carries an older state of it.
  `PublishedMeansApplied` and `EditsArrive` speak of the other records: for an
  overtaken one both fail, and what it said is lost until its row changes again.

### InboxQueue

A run of the watcher or of the cycle script is `List` (with the recovery of
files of dead pids), and per file `Take`, `Import`, `Unlink`; then `Rank`,
`FindCandidates`, `ClaimAlerts`, `PrintAlerts`, `MarkEmitted` and, under the
watcher, which captures the output of `context-alerts` and writes it itself,
`Show`. `context-alerts` alone begins at `StartAlerts`. A run raises or dies
anywhere; `PutBack` returns its file when it raises. `Lapse` ends a claim of 30 s.
The watcher and the cycle do their work in child processes, and `Abandons` kills
the parent alone: the child ends its import (`ImportAlone`), ranks, claims, fails
to print because nobody reads its pipe (`BrokenPipe`), or marks what it had already
printed, which nobody will show. `cut` collects those alerts and the ones whose
watcher ended just before it wrote them.

- Each run has a pid of its own (reuse is among the hazards left out, section 6).
- Not modelled: the legacy single-file spool, `--initialize`, reminders, habits,
  the daily brief.

### RunnerHandoff

The runner's `Popen`, `ModelStarted` or `RegistrationFailed`, `StopChild`,
`ModelStopped`, `ChainOver`, `Acknowledge`, `Close`, `Exit`; the watcher thread's
`Watch`; the flow's receiver `Receive`, `EndOfFile`; its `Request`, `Answered`,
`StopGroup`, `KillGroup`, `TermRunner`, `KillRunner`, `Drain`, `Finish`; the
processes' own `LeaderExits`, `FamilyEnds`, `ChildEnds`; and the deaths
`RunnerDies`, `FlowDies`. A leader is none, live, a zombie or reaped; `family` are
the groups with living descendants.

- The identity test (kernel start time of the leader) and the signal are one
  step; a zombie keeps its identity, as on Linux; KILL always works.
- Frames are written whole and arrive in order; a timeout may pass at any time.
- The next child follows whatever became of the last: which vendor is tried when
  is left open.

## 3. What the runs check

| run | bounds | shows |
|---|---|---|
| `lifecycle_safety` | 1 job, 2 processes, 1 key, leases of 1 or 2, budgets 1 and 3, 7 time units, lag 1 | `IInv`, `ExclusiveLease`, `OneWorkerPerGeneration`, refinement of `FencedWork` |
| `lifecycle_shared` | 1 job linked to 1 intent, 1 process, 2 keys, 2 contents; fair | `IntentStepwise` with keys shared by both kinds of rows; `ExpiredIsReaped` |
| `dream_safety` | 2 sweepers, 1 session growing once, 1 candidate in 2 wordings and 2 scores, 1 insight, 3 runs, 2 faults | `ImportLast`, `PublicationIsWhole`, `NoResidue`, `ReinforcedOnce`, `OutboxIsHonest`, `PublishedEvidenceStays` |
| `dream_delivered` | the same with one wording and score, 2 runs; fair | `TypeOK`, `CheckpointIsHonest`, `PublicationDelivered`, `IntentDelivered` |
| `dream_rollback` | 1 sweeper, 1 session, 1 insight, 2 runs, 1 fault | finding 1: `RollbackSparesCommitted` |
| `reports_shared` | 2 morning invocations, 1 CLI claim, 2 reports, 2 texts, 2 days | `TypeOK`, `OneTextPerReport`, `DeliveredWasWritten`, `DayIsNotLost` |
| `sync_fenced` | 2 syncs, 1 file, 2 texts, 1 fault, with and without waiting; fair | `TypeOK`, `LatestClaimDecides`, `CatchesUp` |
| `actions` | 1 intent of any kind, 2 executors, 2 janitors, expiry 2, stale 1, retention 2, 3 deaths; fair | `TypeOK`, `AtMostOnce`, `VerdictHonest`, `StagedWhilePending`, `NothingLeftBehind` |
| `scan_shared` | 2 runs, 2 records on pages of 1, 2 edits, 1 full run, 1 fault; fair | `TypeOK`, `ReconciledIsStored`, `PublishedMeansApplied`, `TombstonesOnlyAbsent`, `EditsArrive` |
| `scan_deleted` | 1 run at a time, 2 edits, no faults | finding 2: `CompletedIsWhole` |
| `inbox_alerts` | 2 events, any two kinds, 2 runs of any of the commands, 1 fault; fair | `TypeOK`, `NothingLost`, `RepeatedOnlyAfterLapse`, `EveryEventIsHandled` |
| `runner_handoff` | 2 process groups, 2 faults; fair | `TypeOK`, `CleanMeansGone`, `ShutdownHeeded` |

Why the bounds are enough to mean something. In `lifecycle_safety` a job can be
started, lost, stalled, retried and started again up to three times, with a
lease of each length expiring under either process and a late clock reading at
every call. In the sweep, a first run can commit, a second fail in its handler
or die after any step, and a third recover it and go on; the run counter limits
`Begin` only, so the last sweep still recovers. Two faults allow a fault during
the recovery from a fault. For reports, three invocations over two reports of
one day or of two reach every order of claim, takeover, supersession, release
and late acknowledgement of two claimants, with a third interfering.

In `sync_fenced` one sync can stall with its claim while the file changes and the
other scans, claims and uploads the new text; the rows of a batch do not touch
each other, so one file is enough for what is said of each. In `actions` the
slow executor, the one that finds its intent claimed, the reconciling janitor
and the purging one are all present, with a death of each, and a preparation may take as long as the
retention or longer; intents share nothing but the janitor's lists, and the proof covers any number. In
`scan_shared` a listing of two pages is the smallest that can be interrupted by
an edit, and the second edit undoes or overtakes the first while the other run
still holds a page of the older listing. In `inbox_alerts` two events of
different kinds pass through one run, and a run dies, or dies but for its child,
is recovered by the second and repeated; with the fault spent, the rest must still
be handled. The specification is symmetric in the events, so of two mixes of kinds
that only swap them one is enough (`MixesOnce`). In
`runner_handoff` the second group is what is still running, unregistered or
unreadable when the first has been released, and the second fault may hit the
flow after the runner.

`CHECK_DEADLOCK FALSE` is set where the bounded clock, the end of all
invocations, of the intent's life or of the stage stops the model; sweeps,
syncs, scans and watchers never stop. Symmetry is used for processes in safety
runs only.

Fairness. Each liveness property assumes that a schedule goes on, that
processes once started take their steps, and that faults, which are bounded and
never fair, come to an end.

- `ExpiredIsReaped`: time passes and `lifecycle stale` is run again and again;
  the code offers the command and leaves the schedule to cron. No worker is
  obliged to do anything. Which jobs it must reach is said by the leases that were
  promised (`Silent`), not by the query of the detector.
- `PublicationDelivered`, `IntentDelivered`: the nightly schedule starts sweeps
  again. Sessions may grow or not.
- `CatchesUp`: files change a bounded number of times, syncs are started again and leases lapse with time. What
  OpenViking indexes need not finish.
- `NothingLeftBehind`: time passes, executions and purges under way proceed, and
  `reconcile-stale` and `purge-terminal` are run again and again. The latter two
  are strongly fair: they are commands of a schedule, which may find nothing to
  do in between. Nobody is obliged to execute an intent.
- `EditsArrive`: runs of the scanner take their steps; the watcher starts one
  every five minutes.
- `EveryEventIsHandled`: runs take their steps, claims lapse, and the watcher
  (`context_watch.py`, run on an interval) is started again and again, even
  if other commands are always running when it is: strong fairness.
- `ShutdownHeeded`: flow, teardown in the runner and its watcher thread take
  their steps. Models need not end by themselves, and the timeout of an attempt
  need not pass: only the request ends the child.

## 4. Findings

1. `dream_rollback`. `commit_without_publication` leaves its run "running"
   until `finish_run`; after a death in between, the next sweep takes the run
   for abandoned and deletes rows that it had committed, insights of earlier
   runs it re-attributed among them (`dreaming/store.py:1580`).
2. `scan_deleted`. A record that is deleted between the page that stored it and
   the closing page of its generation is never tombstoned: the changed listing
   restarts the paging, but in the generation that has already seen the row
   (`context_sources/store.py:237`; README line 392 says "Completed
   reconciliation generations propagate source tombstones into the inbox"). The
   row stays live until the source changes again.

The modules also state these, which TLC refutes. They are not in a run; each can
be put as INVARIANT or PROPERTY into the named cfg.

| statement | cfg | what happens |
|---|---|---|
| `ReplayIsNoOp` (`Lifecycle`) | `lifecycle_safety` | the lease fence is evaluated before the key is looked up, so repeating a keyed `fail_job`, `complete_job` or `retry_job` raises instead of replaying (`lifecycle.py:709`; the docstring, line 7, promises a no-op) |
| `FreshWhenMutated` (`Lifecycle`) | `lifecycle_safety` | freshness is compared with a time read before the lock was awaited (`lifecycle.py:413`); `ExclusiveLease` and the theorems show that this never lets two workers in |
| `PublishedIsNotFailed` (`DreamSweep`) | `dream_safety` | when draining the outbox raises after the publication is in place, the handler marks the published run failed (`dreaming/runner.py:513`) |
| `SupersededByNewer` (`DreamReports`) | `reports_shared` | while `dream-report --claim` holds the newest report, a morning claim takes an older one and supersedes the newest (`dreaming/store.py:1266`) |
| `TombstoneMeansMissing` (`ResourceSync`) | `sync_fenced` | a listing that was interrupted, or a file that vanished while it was read, looks like a file that is gone (`scanner.py:90`); `CatchesUp` shows that a later scan repairs it |
| `SyncedMeansSent` (`ResourceSync`) | `sync_fenced` with `Waiting = {FALSE}`, 1 sync, no faults | without `wait_for_indexing`, the lock found by `stat` may be that of an earlier text, whose upload is then taken for this one's (`ov_adapter.py:47`) |
| `EmittedMeansShown` (`InboxQueue`) | `inbox_alerts` | the watcher dies after `context-alerts` marked its captured alerts and before it writes them (`scripts/context_watch.py:105`), or between the child's flush and its mark: they are never shown |
| `NoOrphan` (`RunnerHandoff`) | `runner_handoff` | a runner killed between `Popen` and the frame of the start leaves a group the flow never heard of (`coder-stack/bin/hermes-coder:1143`; the comment at 1923 says that an uncleanly terminated runner cannot do so) |
| `AllGone` (`RunnerHandoff`) | `runner_handoff` | the failure that a runner reports for a child it could not register is passed over while another group is registered (`coder-stack/bin/hermes-coder-flow:1208`) |

## 5. What is proved

Every safety property and every action property of the passing runs is a theorem.
Each holds for any sets of processes and rows (the files of `ResourceSync` and
the invocations of `DreamReports` are finitely many) and any values of the
numeric constants, from the assumptions the module states about them
(`ConstantsAssumption`, `SweepAssumption`, `ReportsAssumption`, `SyncAssumption`,
`ActionAssumption`, `ScanAssumption` and `NothingApart`, `QueueAssumption`,
`HandoffAssumption`). Faults are bounded only by the constant.

`LifecycleProofs`: `InvariantHolds`, `TypeCorrect`, `LeaseExclusion`,
`GenerationFencing`, `AttemptsBounded`, `PromisesKept`, `RowsAgree`,
`VerdictsAreFinal`, `IntentsMoveStepwise`, and `Implements` (every behaviour of
`Lifecycle` is one of `FencedWork` under the mapping). That two promises never run at once follows only
if a running promise is the one the table records (`PromiseKept`), which needs
the columns to agree with the state (`RowConsistent`), and the fence by
generation needs to know that whoever holds the row is the only one who acted in
its generation (`WorkersKnown`). `IInv` is their conjunction. It is split per
job (`RowInv`), so that each action needs one lemma about one row; `OneJobStep`
lifts it to the table. Why a late clock is harmless can be read off
`HeartbeatStep`, `StartStep` and `DetectStep`: a reading is never ahead of the
clock, so a lease seen as expired is expired. `IntentsMoveStepwise` needs that an
intent is marked ended exactly in its two last states (`IntentConsistent`) and
one lemma, `OneIntentStep`, for the two methods that write intents, whatever key
they were given.

`DreamSweepProofs`: `TypeCorrect`, `SweepsAlone`, `ImportComesLast`,
`PublicationsWhole`, `OnePublication`, `NothingResidual`, `ReinforcementCounts`,
`CheckpointsHonest`, `OutboxesHonest`, `PublishedEvidenceKept`. `IInv` has four
parts. `Typed` gives the types. `Alone` says that whoever works holds the lease
and that nobody else has locals, so a step has to be followed for one sweeper
only (`MyStep`). `Data` says what the three stores and the history tell of each
other whoever works: runs are started in order (`InOrder`), a publication belongs
to a committed run (`Lives`), every row belongs to a committed run or to one
still marked running (`RowsOwned`), and the properties above. `Place` says what the
sweeper may rely on where it is: the run it has in hand and whether its rows are
gone (`InHand`), what earlier runs left open (`LeftOpen`), which files are staged
or in place (`FilesAt`), and that what it read is what is registered (`HeldAt`).
The properties lean on each other through it. A publication stays whole
(`PublicationIsWhole`) because `CleanStaging` runs when the only files that
matter belong to `Pending`, and `undo` is reached only by a run that is not
committed. Reinforcement is exact because the run that commits is newer than
every committed one (`Newest`), which is `InOrder` with `LeftOpen`: no sweep
begins a run while another is open. `NoResidue` is `RowsOwned` at a place where
the only running run is the sweeper's own. That `reinf` never exceeds the number
of runs (in `TypeOK`) is a consequence of `ReinforcedOnce` and of `Unseen`, a
candidate nobody has seen having no count.

`DreamReportsProofs`: `TypeCorrect`, `OneText`, `DeliveredAfterWrite`, `OneWrite`, `NoDayLost`.
`Inv` says what each stage of an invocation knows (`Placed`, `Frozen`,
`Written`), that a report never retried belongs to one invocation (`Single`), and
that supersession stays within a day (`DayKept`). Claims share one lemma
(`ClaimKeeps`), whichever program makes them. The bound on writes in `TypeOK` is a
count: a report has been written at most as often as there are invocations past
their write (`After`), of which there are finitely many.

`ResourceSyncProofs`: `TypeCorrect`, `LatestDecides`. `IInv` adds to the types
that a sync has uploads under way only between its claim and its marks (`Quiet`),
and that an upload whose claim is not the row's last, or whose text is not the
recorded one, does not own the row (`Fenced`): the fence of `mark_synced` then
refuses exactly the late results. A row has an owner exactly while it is in
progress (in `TypeOK`), which is what makes the owner a fence.

`ActionStoreProofs`: `TypeCorrect`, `SentAtMostOnce`, `VerdictIsHonest`,
`FilesWait`. `IInv` has one half per intent (`FlowInv`), which relates the row,
the requests that left and the executor at work, and one half about files
(`FilesInv`), which relates a staged directory to whoever may purge it: a
janitor's list is older than the row it may meet, and only the age of the
directory keeps the two apart, unless the preparation was as slow as the retention
is long (`slow`).

`SourceScanProofs`: `TypeCorrect`, `ReconciledStored`, `PublishedApplied`,
`TombstonesAbsent`. `IInv` says that a stored cursor vouches only for rows that
are in the vault as it listed them (`Stored`), that what a run carries to the
inbox agrees with the vault unless the record was overtaken by another commit
(`Carried`), and that it marks only what it has applied (`ReadyToMark`). The theorem on tombstones
needs `Stored`: a batch that closes a generation tombstones what its listing does
not have, and no older page is left to contradict it. Besides the types of the
constants, `NothingApart` says that the mark of "no value" is no listing, row or
event.

`InboxQueueProofs`: `TypeCorrect`, `NothingIsLost`, `ShownOnceUnlessLapsed`.
`FileInv` says of each run which file it may unlink (one that is in the inbox, or
in quarantine; an orphan may unlink none), `AlertInv` of each alert who may still
print it.

`RunnerHandoffProofs`: `TypeCorrect`, `CleanIsClean`. `IInv` follows a
registered group through the channel: it is gone, or a frame about it is on its
way, or the flow knows it (`WireInv`); the runner acknowledges only when it has
nothing left (`RunnerInv`); and once the stream is drained, what is not gone and
not to be stopped has been counted as a failure (`FlowInv`).

Only model-checked: the liveness properties (`ExpiredIsReaped`,
`PublicationDelivered`, `IntentDelivered`, `CatchesUp`, `NothingLeftBehind`,
`EditsArrive`, `EveryEventIsHandled`, `ShutdownHeeded`). They rest on fairness, and
so on ENABLED, which the prover does not handle. The two findings are
counterexamples and stay with TLC as well.

## 6. Not modelled

- Dry runs, `mark_publication_synced`, `prune_publications` and the migration
  of legacy rows in the Dream store; model and retrieval calls.
- Texts, formats, redaction, logging and layout anywhere.
- Most of the repository by size is the vendored `hermes-lcm`, auto-title and
  similar plugins, which have repositories of their own; collectors of mail and
  Signal, installers and readers are I/O and parsing.
- The source adapters with high-water cursors (messages, photos, safari,
  composio, safe_import), and retention in the vault.
- Of the coder flow: the source lock, the sequence of stages, the worktree and
  its snapshots, the journal and the doctor; of the runner: the choice of vendor
  and the circuit breaker.
- The components marked `not_modelled` in `PROJECT.json`, each with its reason.

Hazards known and outside the models:

- Reuse of a dead process's pid: the sweep lease (`dreaming/store.py:2089`) would
  look held, a file of the queue would not be recovered, and a stopped group's
  number could belong to another.
- Staged files changed by hand between commit and publication
  (`dreaming/artifacts.py:423`), and both Dream commits resetting
  `staging_state` of a candidate whose outbox row is staged
  (`dreaming/store.py:1399`).
- The legacy spool, which is renamed under a plugin that may be writing it, and
  a failing first file that ends the watcher's run before the others
  (`queue_spool.py:61`).
- `rank_all` between the reading of an event and the writing of its rank, while
  a tombstone arrives; retention in the vault of rows not yet published.
- A reminder that moves to another list: `conversation_id` is the hash of the list
  (`context_sources/adapters/reminders.py:89`) and part of the event's identity
  (`context_inbox.py:1127`), so it becomes a second event and the old one stays.
- The creation of the handle key with `O_EXCL` and a death before it is written
  (`personal_messaging.py:1441`).
- The observatory (`server/plugins/process-observatory/__init__.py`): an
  oversize event is counted both as dropped and as written (377-383, 518-520);
  an unlink that fails while quotas are enforced (601-610); an exception after
  the file is in place (553-563); a second STOP of an earlier `stop`, and a full
  queue whose writer is stopping (327).

## 7. Plan

1. `Observatory`: queue, writer, `flush` and `stop`; spool quotas; import.
2. The rest of the coder flow: the source lock and the sequence of stages with
   the recovery of a flow that died.
3. `Improvement` with the review runner's batches; `Nightly`: launcher and worker
   over the pid file; the daily brief's claim.
4. The acknowledgement of published imports, composing `ResourceSync` with
   `DreamSweep`'s published runs.

Proofs to add: an abstract specification of a publication (committed, then
visible, then acknowledged) that `DreamSweep` implements, with the refinement
proved as for `FencedWork`; the same for one dispatch of an intent in `ActionStore`.
