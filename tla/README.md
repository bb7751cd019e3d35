# Formal models of zotero-summarizer

zotero-summarizer reads research feeds and a Zotero library, ranks papers with a
trained gate and an LLM, shows a daily slate in a web client that also works
offline, and writes what the user approves back to Zotero. This directory holds
TLA+ models of the parts of it where several actors share state, the TLC
configurations that check them on small instances, and TLAPS proofs of the
invariants that matter most.

Paths below are relative to `src/zotero_summarizer/` unless they start with
`frontend/`.

## 1. Inventory

The program is a FastAPI server (event loop plus threads), an optional daemon
(`feeds serve`) that may be a process of its own, a React client installed as a
PWA, and three databases: `triage_history.db` and `corpus_cache.db` of the
application and Zotero's own SQLite file.

| Component | State it keeps | Operations | Hard behaviour | What makes it correct |
|---|---|---|---|---|
| Offline sync (`services/sync`, `storage/_repo_sync.py`, `frontend/src/offlineStore.js`, `syncClient.js`) | IndexedDB: papers, outbox, acknowledged receipts, sequence. Server: values with revisions, receipts by UUID | queue an edit, resolve a conflict, push, pull, decide | two tabs on one outbox, two devices, lost answers, requests that outlive a 15 s deadline, replays | an edit is decided once, none is forgotten, no foreign edit is overwritten without a trace, drafts keep their order |
| Pending changes (`services/zotero/pending.py`, `storage/_repo_pending.py`, `integrations/zotero_write.py`) | rows with a status; Zotero items, notes, Inbox | queue, edit, reject, apply, retry, leave the Inbox | two databases without a common transaction, crash between them, overlapping requests, partial failure | final statuses stay, applied means written, written gets recorded, Inbox only when nothing is open |
| Triage jobs (`services/triage/triage_jobs.py`, `_execution.py`, `storage/_repo_jobs.py`, `services/lifecycle.py`) | job records in memory and on disk, results, stop events | start, cancel, read, save, shut down, resume | threads that outlive their task, stale cache fills, crash between result and snapshot, failing writes | one job at a time, nothing committed after the end, no repetition beyond a restart, jobs settle |
| Feed materialization (`services/library/review_materialize.py`, `services/triage/daily_actions.py`, `storage/feeds_history.py`) | a card's decision, its reserved Zotero key, its siblings in other feeds | Add, Trash, Apply all | Zotero commit before the application's commit; newest intent wins | at most one Zotero item per paper; a Trash is never overtaken by an older Add |
| Verdicts and label mirrors (`services/golden/verdict_effects.py`, `storage/label_mirrors.py`) | verdicts, comments, label changes, mirror receipts | decide, mirror, retract, reconcile | effects after the commit, failed mirrors | Zotero ends with the newest verdict; a deletion is redelivered until acknowledged |
| Feed tick (`services/triage/feeds`) | processed items, read marks | one tick: pick, dedup, gate, triage, record, mark read | two ticking processes, crash between phases | an item is triaged once and not lost |
| Classifier gate (`services/triage/feeds/_gate.py`) | the live gate, the training flag | schedule, train, install, rescore | unlocked flag, install before rescore | the newest inputs win; the slate is scored by one model |
| Deep review, review fleet, single flight (`services/library/_flight.py`, `deep_review.py`, `review_fleet/fleet.py`) | one running slot per cache, progress | start, poll, re-claim | a foreign job holds the slot | the fleet ends, and does not blame foreign jobs on its items |
| Research sessions (`services/search/session.py`) | one JSON file per session | save, merge, stamp, delete | worker saves against user stamps | a stamp survives, a deleted session stays deleted |
| Daily slate, interleaving (`services/triage/daily_select`, `storage/interleave.py`, `services/model/team_draft.py`) | the day's log | select, draft, claim | one claim per day | each paper once, roles filled |
| Golden data and models (`services/golden`, `services/model`) | CSV files, artifacts | label, train, evaluate | - | numerical |
| Corpus, migrations, repositories (`storage`) | caches, schema | index, search, migrate | - | rebuilt from Zotero |
| Integrations, LLM, setup, benchmark, research feed, API, CLI, MCP, pages | little or none | - | - | adapters and batch code |

Components interact through the application's database far more than by calls:
a tick writes the cards the slate shows; a verdict, made online or through
`services/sync`, triggers the mirrors and a materialization; triage jobs queue
pending changes in the transaction that inserts their result.

`PROJECT.json` lists every component with what is modelled of it, and every
hazard at its line with the properties that cover it.

## 2. Plan

Done:

1. `OfflineSync` with the abstract `FieldRegister`, the proof that the one
   implements the other, and of its safety: the protocol with the most actors and
   the fewest tests that interleave them.
2. `PendingChanges` and its proofs: the only path by which reviewed changes reach
   Zotero.
3. `TriageJobs` and its proofs: memory, disk and threads.
4. `FeedMaterialization` and its proofs: Add, Trash, verdicts and apply-all
   across the two databases.
5. `FeedTick` and its proofs: the loops that tick and the phases of a tick.
6. `ReviewFleet` and its proofs: the pool of reviews and the fleet that waits for
   them.
7. `SearchSessions` and its proofs: one file between a worker and clicks.
8. `LabelMirror` and its proofs: verdicts, their tags and the reconciliation.

Left:

9. Pure operators (team draft, slot allocation, exclusive tag changes) against
   reference definitions.
10. The retraining of the gate, whose control is a flag, a thread and a swapped
    reference.

The modules do not extend one another: the components meet in the database and
each module has the part of it that its actors share. `LabelMirror` starts where
`FeedMaterialization` ends, with a paper that has an item; `FeedTick` produces
the cards `FeedMaterialization` acts on; `ReviewFleet` reviews the papers of
`FeedTick` and of `Library` alike.

## 3. Modules

### OfflineSync

One key is one field (verdict or note) of one paper. The server's values carry a
revision; the body of a mutation never changes, so requests carry UUIDs.

| Code | Model |
|---|---|
| IndexedDB `papers`, `outbox`, `acked`, `mutation_sequence` | `paper`, `outbox`, `ack`, `seq` |
| `queueMutation`, `resolveConflict` (two transactions) | `QueueMutation`, `ChooseResolution` then `WriteResolution` |
| `syncNow`: push batches, then pull | `StartSync`, `SendPush`, `ReceiveResults`, `PullSnapshot`, `ApplyPull` |
| the loop of `push` in `services/sync/service.py`, one transaction per mutation | `ServePush`, one step per mutation |
| `apply_sync_mutation` | `Known`, `ResolutionAccepted`, `Decide` |
| an aborted `fetch` whose request runs on, a request that fails | `AbortSync` with `orphans`, `LoseRequest` |
| online routes | `OnlineWrite` |

`FieldRegister` is what a user may rely on: an edit is made, then applied or
refused once, in one step. `ImplementsRegister` says `OfflineSync` implements it.

### PendingChanges

Every database transaction is a step: read the rows, write Zotero, mark the
applied rows, mark each refused row, look for complete items, remove them from
the Inbox. A payload stands for the tags or the note of a change. `BreakOff` ends
a request whose update or read fails after Zotero's commit, `Crash` ends all of
them. `delivered` is a history variable: what was ever written for a row. What the
writer makes of a payload it has written before (tags are a set, a note is
compared with those of the item) is not modelled.

### TriageJobs

`mem` and `db` are the two records of a job; `write` is the snapshot being
written under `TRIAGE_START_LOCK`, taken inside the lock. A worker runs batches
of `Width` items; an item's stages are the points where its thread looks at the
stop event. `Shutdown` cancels tasks the way the event loop does, `Exit` ends
the process at any point, `Restart` marks, caches and resumes. Reading, the LLM
and the planning of changes have no effect on the state and are one stage.

### FeedMaterialization

One paper with its sibling rows. Each request (`req`) is a thread with what it
has read; each of its transactions on the application's database is a step that
waits for `lock`. `CheckIntent`, `WriteItem` and `CommitItem` are the three parts
of `materialize_row` under `BEGIN IMMEDIATE`: the check of the current intent,
Zotero's commit, the application's commit. `Superseded` is
`current_materialization_intent`, `Raise` is where an exception leads (an Add and
a verdict park the row, the others end), `TimesOut` the busy timeout of a writer
that waits for the lock. Two positive priorities and the rejection are told
apart; the paper is always reviewed, and every user's comment is the same.

`outcome` and `detected` are `final_outcome` and whether `outcome_detected_at` is
set: `WithAppOutcome` is an outcome the application records of itself, `CommitItem`
schedules one to be observed in Zotero and leaves `detected` alone, as
`record_materialization` does, `Due` is `due_outcome_checks` and `Observe` the
daemon's look at the item. `refused` is a history variable: the rows the newest
verdict was given to take back, which are all rows for a label and one row for a
Trash or a rejection on the review page.

### FeedTick

An item is a row of `rss_items`; `row` is its decision in
`processed_feed_items`, `read` its read mark, `loop` the local variables of the
tick each loop is in, `lock` the exclusive transaction on the lock database.

| Code | Model |
|---|---|
| `run_daemon_loop`, `triage_backlog.start_drain` | `StartLoop`, `StartTick`, `EndTick` |
| `_tick_lock` (no waiting: the second tick raises) | `LockFree` in `StartTick`, freed by `EndTick` or `Die` |
| the picker: unread items of shuffled feeds dealt round robin | `Orders`, `Before`, `Batch`, `Pick` |
| `filter_unprocessed`, `clear_error_rows`, `select_stale_unread_to_mark` | `Seen`, `Cleared`, `Prepare` |
| `dedup_against_processed`, library dedup, gate and triage | `DedupProcessed`, `DedupLibrary`, `Triage` |
| one transaction with `INSERT OR IGNORE`, then `mark_processed_read` | `Record`, `MarkRead` |

A batch is a set with an order of feeds, from which the order of its items
follows. `Guidless` items are those whose stored key the tick cannot compute
again.

### ReviewFleet

`running` is the job table, `work` the pool's queue with the workers that have a
thread, `cache` the file of reviews with the version of the settings each was
made under. `Start` is `deep_review.start` with its two ends, a submission and a
failing setup. A worker's `Check` and `Write` are two steps because
`publishable_entry` reads the cache outside of the lock of the write. The fleet
is one thread: `Batch` and `Poll` are `_run_batched_review`, used twice,
`Acquire` is `_acquire_missing_pdfs`, `Propose` is `_propose_for_item`.

### SearchSessions

`file` is the session's JSON, `worker` and `click` have the copies that threads
work on. A worker's saves are `SaveMerge` and take over the stamps found in the
file (`Merged`); a click holds the session's lock from `Add` to `Stamp`, with
Zotero's commit (`WriteItem`) in between. `Unions` are what a later find may do
to the list: new candidates come in, and two turn out to be one work. `deleted`
is in memory only, as in the code, and a restart forgets it.

### LabelMirror

One paper that has an item in Zotero and up to two verdict rows. `row` joins
`label_verdicts` and its newest change; `Newest` is the change that speaks for
the paper. A request is `Submit`, `Effects`, `Mirror`, `MirrorDone`: the verdict
is committed first, and the tag follows in a transaction of its own
(`WriteTag`, `Acknowledge`). A pass is one `reconcile_label_verdicts`, one step
per read: `States`, `ReadTag`, the retry of a retraction (`Retry`, `RetryDone`,
`Confirm`) or `SetFromTag`, then `States2`, `Verdicts`, `ReadTag2`,
`RetractRemoved`. `hand` and `by` are history variables: whether the tag is as a
user left it in Zotero, and whether the one a pass has read was.

The modules whose names begin with `MC` add the model values and symmetry sets
TLC needs. Definitions introduced by "A slip" are mutations of the definition
after them; the checks replace one by the other to show that a property can
fail.

## 4. What is checked

| Run | Question | Bounds |
|---|---|---|
| `sync_devices` | two tabs on one outbox, beside a second device that edits the same field | 2 + 1 tabs, 3 mutations, batches of 2 |
| `sync_live` | every edit is answered, the device converges, with an online edit and an abort, a request that outlives its client or a lost answer | 2 fields, one gated, 2 mutations, 1 online write, 1 fault |
| `pending_queue` | overlapping apply requests, partial failure, retry and a crash | 2 rows on 2 items, 2 requests, 1 crash or broken-off request |
| `feed_safety` | Add, Trash, verdicts, reviews and apply-all race for one paper, with lost commits, timeouts and a stop | 2 sibling rows, 3 requests of which 2 at once, 1 failure |
| `feed_outcome` | finding: an outcome that is scheduled is never observed | the same |
| `jobs_safety` | cancellation, a full cache, a failing write, a restart | 2 jobs of 2 concurrent items, 1 job kept, 1 restart, 1 failing write |
| `jobs_live` | jobs settle | 1 job of 2 items, 1 restart |
| `tick_safety` | daemon and drain tick over copies of a paper, with an error and a death | 3 items in 2 feeds, 2 of them copies and 1 without a guid, batches of 2, 1 error, 1 death |
| `review_fleet` | a fleet and another review share pool and cache, with an edit, a failing setup, hanging reviews and restarts | 2 papers, 1 with a PDF, 2 threads, 1 poll of patience, 1 other start, 1 run, 1 edit, 1 setup failure |
| `search_session` | worker, clicks, deletion and a restart on one session | 3 candidates, 2 of them one work, 2 workers, 2 clicks, 2 rounds, 1 restart |
| `label_mirror` | verdicts race with a reconciliation, edits in Zotero, failures and a restart | 2 priorities, 2 requests, 1 pass, 4 revisions, 2 edits, 1 restart |
| `mirror_typed` | finding: a verdict typed again is deleted by the reconciliation | the same |

Why the bounds suffice: every property names at most two mutations (rows, jobs)
and one interfering write, so three mutations leave room for a bystander, and two
rows or jobs are the pair the property is about. One fault, crash or restart is
what each of them needs to go wrong; the retry that follows it is unbounded.
Three tabs with a fault are beyond TLC: `sync_live` has the faults, with one tab
and an online edit in the place of the second device, and checks the refinement
and the foreign edits once more; the theorems hold for all of it at once. One
value besides "deleted" is enough for the register because equal values are the
only comparison the server makes. `MaxServerWrites`, `MaxFaults`, `MaxRows`,
`MaxCrashes`, `MaxJobs`, `MaxRestarts`, `MaxFailures`, `MaxAtOnce`, `MaxErrors`,
`MaxDeaths`, `MaxStarts`, `MaxRuns`, `MaxEdits`, `MaxSetupFailures` and
`MaxRevision` bound counters only; nothing else refers to them (`MaxRounds`,
`BatchSize`, `BatchWait`, `TopN`, `DeepSize` and `PoolSize` are limits of the
code). Three requests about a paper are one that leaves something behind (a parked row, a lost record) and two that race for
it; retractions and review decisions are single transactions and unbounded. Three
items in batches of two make copies meet in one batch and in two; two loops are
the pair the lock separates. Two workers of a paper need one that the fleet
starts and one of somebody else. Four revisions are a verdict, its retraction,
and one more of either on the other key. Passes and daemons run again and again.

`TypeOK` is a theorem of every module; `jobs_safety` checks it as well, where the
records have the most fields.

The properties, by the damage they exclude:

- `ImplementsRegister`: a replay, a retry or a request that outlived its client
  decides an edit again or changes a decision.
- `AcksNameAppliedReceipts`: a device vouches for an edit the server never
  applied, and is refused from then on.
- `NoEditForgotten`: an edit leaves the outbox unanswered.
- `ForeignEditsSurface`: a device overwrites somebody else's edit without a trace:
  its user was not shown it, and no edit of the device met a conflict that names
  it and whose row is still on the device or has been resolved. That the user is
  told before the overwrite is more than the code does (section 5). Stated of
  devices with one tab and of fields the review gate does not guard; for the
  others the overlay of section 5 leaves no trace at all.
- `DraftsApplyInOrder`: an older draft of a field overtakes a newer one. Stated of
  fields the review gate does not guard: an edit it refuses stays in the outbox,
  and a later push, of this or another tab, may send it after its successor.
- `FinalStatusesStick`, `AppliedRowsWereDelivered`, `DeliveriesAreRecorded`,
  `InboxCheckedAgainstQueue`: the queue and Zotero drift apart in ways the
  bookkeeping promises to exclude. `DeliveriesAreRecorded`: a row that was written
  to Zotero stays pending with no request left to mark it, and is written again by
  the next apply; after a crash or a request that broke off it does, and the
  property says that nothing else has this effect. Rows queued between the check
  for the Inbox and the removal are not looked at again, in the code as in
  `InboxCheckedAgainstQueue`.
- `RejectedPapersStayOut`, `LabelsAreCurrent`: the Add of a paper goes through
  after its user rejected it, or with a label given up meanwhile.
- `OneItemPerRow`, `SiblingsShareOneItem`, `RecordedItemsExist`: retries, lost
  commits and siblings leave Zotero with duplicates or the application with keys
  of items that do not exist. A sibling added after a lost commit does create a
  second item; the property excludes only that without a failure.
- `OutcomesAreObserved`: a late Trash or priority decides the outcome of an item
  that is to be observed in Zotero, or keeps it from being observed; or it is
  recorded twice. `ScheduledOutcomesAreDue`, that every scheduled outcome can be
  observed, is violated (section 5).
- `RejectionClearsTheQueue`: what the newest verdict took back stays queued for the
  next apply-all: any row of the paper after a "dont_read" label, the row itself
  after a Trash or a rejection on the review page. The siblings of that row do stay
  queued in the code, until an apply-all finds the verdict and cancels them.
- `NoLateResult`, `OneJobAtATime`, `ReportsAreBacked`, `ResultsAreNotRepeated`,
  `EndedJobsStay`, `CancellationHolds`: a job reports what did not happen, or
  works when it should not.
- `OneTriagePerPaper`, `NoPaperIsLost`: two copies of a paper are both triaged,
  or each is dropped as the copy of the other. The second holds as long as no
  triage or lookup failed, see section 5.
- `ReadItemsWereDecided`, `EveryItemIsRead`: a death between record and mark
  loses an item; the bounded picker is stuck behind items it never marks.
- `OneReviewPerPaper`, `DigestsAreKept`: two reviews of a paper race for the
  cache and a placeholder replaces a digest. A paper whose running job a failing
  setup has overwritten is excepted from both, see section 5.
- `FleetEnds`: a review that hangs keeps the fleet, and every later run, waiting.
- `OneItemPerCandidate`: two clicks, or a click and a save of the worker, file a
  candidate twice. Each restart between Zotero's commit and the stamp allows one
  item more, and candidates that may be folded into another are excepted.
- `NothingSavedIsLost`: an older copy of the session removes a stamp or a deep
  review, or reopens a review that is over.
- `ReviewEnds`: a worker stops without a word and the client polls for ever.
- `AcknowledgedRetractionsAreGone`, `ReturnsByHandOnly`: a verdict taken back
  stays in Zotero with nobody to remove it, or comes back from its own old tag.

### Fairness

`sync_live` assumes that each tab keeps taking its steps: the client retries a
sync on focus, on coming online and on every edit, and the server answers each
request in a thread of its own. Nothing is assumed of the user. `jobs_live`
assumes that the event loop runs its tasks, that `asyncio.Lock` serves waiters in
their order (strong fairness of `SaveJob`: the lock is free again and again, not
always), that threads end, and that a stopped server is started again.
`tick_safety` assumes that a running loop goes on and that somebody starts the
daemon again: it ends with the first tick that has an error, and until the user or
a supervisor of the process starts it, new items just wait. The drain is started
on request only. `review_fleet` assumes only that the fleet's thread
runs: reviews may hang. `search_session` assumes that the worker runs on and that
a click that wrote to Zotero ends, nothing of clicks and deletions to come.

`CHECK_DEADLOCK FALSE` is used where the system may rest: every row closed, every
job over.

## 5. Where the code and its documents differ

Two disagreements are runs that expect a violation:

- `mirror_typed`: typing again a label that came from Zotero changes only where
  the verdict came from. The trigger on `label_verdicts` logs changes of the
  label, so a reconciliation that holds an older list of verdicts sees nothing
  new and deletes the verdict when the tag is gone, although
  `services/golden/user_labels.py` says a typed verdict is never deleted.
- `feed_outcome`: `record_materialization` (`storage/feeds.py` l. 402) schedules the
  check of an item's outcome, as its docstring says, but leaves
  `outcome_detected_at` as it is. Parking a row and a Today priority set it, and
  the check and the record of its result both ask for it to be NULL: a row that
  was parked or prioritised before its Add stays "pending" for ever.

The following are behaviours of the models, seen while they were written. No run
is kept for them; the properties of section 4 are stated so as to exclude them.

- Offline sync (`frontend/src/offlineStore.js` l. 248): `applyPull` keeps a pending
  edit on display but takes over the revisions of the snapshot. Draft A is queued,
  somebody else edits the field, a pull brings that edit in beneath A, draft B is
  queued on top of it, and one push sends both: A meets a conflict, B is applied
  over the foreign edit, and only then does the answer tell the user.
  `docs/functional-audit.md` l. 122 says that an intervening canonical edit cannot
  grant an overwrite; of the predecessors a push names that is so, but the pull
  does grant it. With two tabs B may overwrite an online edit that no conflict
  names. A verdict the
  review gate refuses does the same in one tab: it stays pending and masks what
  the next pulls bring. It may also be accepted later than its successor and win.
- Pending changes (`services/zotero/pending.py` l. 371): a row rejected or edited
  during an apply is written as it was read; the queue shows it rejected, or
  applied with the edited payload.
- Triage jobs (`services/triage/triage_jobs.py` l. 258): when the last save of a
  job fails, the job is over in memory and running on disk; no job can be started
  and this one cannot be cancelled. (`services/lifecycle.py` l. 261): a crash
  after the last item and before the last save leaves a job interrupted for good
  with its failed items never retried.
- Feed materialization (`services/golden/label_verdicts.py` l. 67): an Add reads
  the verdict, finds none of the user's, and writes its provisional one in a
  second transaction; a verdict given in between is replaced, although
  `set_label_verdict` says this never happens. Trash and a rejection on the review
  page (`services/triage/daily_actions.py` l. 443, `services/library/review.py`
  l. 145) leave the approved rows of the paper in other feeds queued.
- Feed tick (`services/triage/feeds/_tick_dedup.py` l. 91): of two copies the one
  whose triage failed is left for the next tick, but the other is recorded as its
  duplicate, a decided row that then drops the first: the paper is never judged.
  An item without a guid is recorded under its stored key and looked up under a
  hash of it, so its error row is never cleared and later verdicts are ignored.
- Deep review (`services/library/deep_review.py` l. 485): a failing setup marks
  running papers as failed too; another review of the paper may then start, and
  its placeholder may replace the digest of the first. The fleet's branch for a
  start that was not accepted is dead: `accepted` is false only for an empty list.
- Search sessions: a candidate folded into its twin may be found again later, and
  then without its stamp (`services/search/session.py` l. 91); a crash between
  Zotero's commit and the stamp makes the next click create a second item; a
  restart leaves a session "reviewing" for ever.
- Label mirror (`services/golden/verdict_effects.py` l. 166): a request whose
  verdict was superseded delivers an acknowledged retraction again and removes a
  tag set by hand since.

## 6. What is proved

`OfflineSync_proofs` proves, for any devices, tabs, keys, mutations and bounds,
`TypeCorrect`, `AcksAreSound`, `NothingForgotten`, `Refinement`, `DraftsInOrder`
and `ForeignEditsSeen`. Every step leaves the body of an issued mutation and the
receipt of a decided one alone (`Frozen`). `IInv` adds that messages carry issued
mutations of their own device and that a push accounts for every mutation it was
sent: it is still to be served, was refused or is decided (`TabOK`). From there
the refinement is a case analysis: `QueueMutation` and `WriteResolution` make an
edit, `ServePush` and `ServeOrphan` decide the first mutation of their push or
replay a receipt, an online write is one, and all else stutters.

`DraftsInOrder` needs a second invariant (`OrderInv`), that whatever precedes a
draft on its way to the server is decided or ahead of it in the same message: a
sync reads the outbox in sequence order (`Listed`), cuts it into batches
(`Batches`), an aborted push runs on with its tail, and an edit that is no longer
pending was decided.

`ForeignEditsSeen` needs a third (`SeenInv`). A revision is *vouched for* when a
write based on it would overwrite no foreign value that has not surfaced. Every
revision that may become a base - on display, of an undecided edit, of a receipt,
in the `last_applied` of a push - is vouched for, or an undecided edit of the
field is ahead: wherever the later edit travels, that one is decided before it
(`Blocks`). This is what keeps the overlay of `applyPull` from losing an edit
without a trace: it renews the revision beneath a pending edit without showing
the value, but that edit was never sent (`Placed`) and meets a conflict before a
later one is decided. The decision of any mutation makes the field's value
surface (`DecisionSeen`): it conflicts, or writes, or finds a vouched base. A
conflict the gate could not refuse keeps its row until it is resolved
(`Rejections`, `ConflictKept`), so there is something left to tell; the theorem
does not say that it is told in time. With a second tab `Placed` fails, with the
gate `Replied` does; both are exempted in the property, and section 5 has what
then happens.

`TriageJobs_proofs` proves, for any items, pool width, cache size and bounds,
`TypeCorrect`, `OneJob`, `Reports`, `NoLate`, `NotRepeated`, `EndedStay` and
`CancellationStays`: every property of the module but the liveness. A job is
*unfinished* while some copy of its record - in memory, in the table, in a write
that has begun - runs or can be resumed. The invariant says that at most one job
is unfinished (`Exclusive`), that it is among the `Keep` newest, so it is never
dropped from the cache, and that no stale read of it exists (`Held`); `Local`
says, of each job for itself, how the copies of its record agree with one another
and with the place of its worker. `OneJobAtATime` alone is not inductive: what
keeps a second start out is the record of the first, in whichever place it is.

`PendingChanges_proofs` proves, for any items, payloads, requests and bounds,
`TypeCorrect`, `Delivered`, `DeliveriesStayRecorded`, `InboxChecked` and
`StatusesStick`. The assumptions are those of the module: notes are payloads,
the payloads are finite, the bounds are numbers.

The invariants are not inductive alone. `AppliedRowsWereDelivered` needs that
the rows a request is about to mark were delivered (`DoneRowsWereDelivered`);
`InboxCheckedAgainstQueue` needs that a request never saw a row number beyond
the last one (`SeenBefore`) and that unused numbers hold no row (`Unused`);
`DeliveriesAreRecorded` needs that what a request is about to mark are rows of the
queue (`HeldRows`).
`IInv` is their conjunction with `TypeOK`. Two lemmas carry the case analysis:
`RowsStep` says how one row may change in a step, `RequestsStep` how one request
may. Each invariant then follows from them rather than from the thirteen actions
again, and `StatusesStick` from `RowsStep` alone.

`FeedMaterialization_proofs` proves, for any rows, keys, requests and bounds,
`TypeCorrect`, `OneItem`, `RecordedItems`, `OneItemForSiblings`,
`OutcomesObserved`, `RejectedStayOut`, `LabelsStayCurrent` and `RejectionsClear`.
The assumptions: the bounds are numbers, and the value that stands for NULL is
neither a key, a row, a request, an item nor a verdict.

The argument follows the code's: `Holding` says that a request between its check
and its commit owns the write lock, that no row of the paper has an item, and
that the intent it checked still holds; `Reserved` that the key it carries is the
one planned for its row; `Written` that before the commit its item exists. With
them, what Zotero holds is tied to the rows: an item whose row is not recorded
has that row's planned key (`ItemsArePlanned`), so a second attempt writes no
second item, and as long as nothing broke off every item is recorded or about to
be (`ItemsAreTraced`), so siblings do not get two. All steps but two are
`Orderly`: they write nothing to Zotero, change rows and verdict only while
nobody else holds the lock, and take no request into the locked part. One lemma
(`OrderlyKeeps`) shows that such a step keeps the invariant; taking the lock and
writing the item have their own. `RejectedStayOut` and `LabelsStayCurrent` follow
from `Holding` at `WriteItem`.
`RejectionsClear` adds `QueueOK`, proved on top of that invariant: a queued row
that the newest verdict took back is on its way to being cleared by a request that
has not ended. `OutcomesObserved` follows from the same case analysis: an orderly
step touches the outcome of a row with an item in `Observe` alone.

`FeedTick_proofs` proves, for any items, feeds, loops, batches and bounds,
`TypeCorrect`, `OneTriage`, `ReadDecided`, `TicksExclude`, `DecisionsAreFinal`
and `PapersAreKept`.
The inductive invariant says of the loop that holds the lock what its phase
relies on (`TickOK`): its items have no row yet (`Unrecorded`), no two that are
kept are copies of one another and none is a copy of a judged item (`Apart`), and
before the mark every verdict is in the table (`Recorded`). Only the holder is in
the middle of a tick, so a step of another loop leaves all of this alone.

`PapersAreKept` needs more (`LostInv`): while no error happened, every row, and
every decision about to become one, stands for a copy that was judged or that the
tick still keeps. The critical step is the one that drops copies within a batch:
of all copies in it the first in round-robin order is kept, and that there is a
first is an instance of the well-foundedness of the numbers (`LeastValue`,
`FirstOfBatch`). An item dropped against the table has a row of a copy, and the
invariant passes on what that row stands for.

`ReviewFleet_proofs` proves, for any papers, pool and bounds, `TypeCorrect`,
`OneReview` and `DigestsStay`. `Alone` is `OneReviewPerPaper`, `Dated` that no
review is newer than the settings, `WorkerOK` that a worker about to write a
placeholder still finds no digest, which holds because nobody else writes that
paper. The pool is a sequence: `Enumerated` and `Removed` say what `SetToSeq` and
`RemoveAt` do to it.

`SearchSessions_proofs` proves, for any candidates, threads and bounds,
`TypeCorrect`, `OneItem`, `NothingLost` and `OneWorker`. `Held` ties the lock to
the click in its critical part, whose copy is the file's; `Alone` says that one
worker at most is at work and that the session is then under review, or deleted;
`Shelf` that the worker's copy has every deep review of the file and lists all its
candidates but for folded ones; `Erased` that a deleted session has no file;
`Counted` that a candidate has no more items than a stamp, or a click about to
stamp it, and the restarts in between account for.

`LabelMirror_proofs` proves, for any priorities, requests, passes and bounds,
`TypeCorrect`, `RetractionsAcknowledged` and `ByHandOnly`. `Log` says that
the newest change carries the last revision and no receipt is ahead of it,
`LockOK` that who holds the writer lock has delivered that change, and `PassOK`
that what a pass concludes from its reads holds of the tag as long as no verdict
was committed since - which is why `expected_revision` suffices.

The assumptions of each module are those it declares: finite sets where a
cardinality is taken, bounds that are numbers, and values for "nobody" and "no
paper" outside of the sets they are added to.

Every invariant and every action property of a passing run is a theorem, and so
is the refinement. Model-checked only: the liveness properties (`EditsAreAnswered`,
`DevicesConverge`, `JobsSettle`, `EveryItemIsRead`, `FleetEnds`, `ReviewEnds`),
since `ENABLED` and fairness are beyond the prover, and the two properties
the code violates (`TypedVerdictsStay`, `ScheduledOutcomesAreDue`).

## 7. Not modelled

- Inside modelled components: the response cache and paper lists the client
  keeps for offline reading, the planner that chooses which changes to queue, the
  backup and lock retries of the Zotero writer, what the work on an item computes.
- In `FeedMaterialization`: papers without a review, marking feed items read,
  the review and full text copied to the new item, legacy key aliases, the golden
  CSV, and `materialize_pick`, which nothing calls.
- In `FeedTick`: Zotero feeds as a source, review mode and dry runs, what the
  refresh of a feed does besides bringing items, the outcome checks and the
  reviews started after a tick, the drain's cap on ticks.
- In `ReviewFleet`: the selection from the reading queue, an extractor that is
  switched off, paper renderings and the border cache, which use the same latch.
- In `SearchSessions`: federation, scoring and ranking; any candidate may be
  found, reviewed or chosen.
- In `LabelMirror`: comments and the notes that mirror them, the training rows,
  aliases of legacy feed keys.
- The classifier gate, the slate's team draft and slot allocation.
- Most of the repository by size is code without shared state: tools and
  benchmarks, prompts and parsers of model answers, embeddings, training and
  calibration, renderers, clients of remote services, one-off setup and
  migrations, adapters (API, CLI, MCP) and the pages of the client.
