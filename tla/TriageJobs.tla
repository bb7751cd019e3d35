----------------------------- MODULE TriageJobs -----------------------------
(***************************************************************************)
(* On-demand triage jobs (services/triage/triage_jobs.py, _execution.py,   *)
(* storage/_repo_jobs.py, the job part of services/lifecycle.py).          *)
(*                                                                         *)
(* A job summarises a set of Zotero items.  Its record lives twice: in     *)
(* memory, changed freely on the event loop, and in the database, written  *)
(* as snapshots under TRIAGE_START_LOCK.  A worker takes the items batch   *)
(* by batch; the items of a batch run concurrently in threads, which look  *)
(* at the job's stop event before each blocking call and after it, and     *)
(* commit their result and its review rows in a transaction of their own.  *)
(* The process may be shut down or crash anywhere; at startup unfinished   *)
(* jobs are resumed.                                                       *)
(***************************************************************************)
EXTENDS Naturals, FiniteSets

CONSTANTS
    Items,       \* Zotero items
    Width,       \* items in progress at once (_effective_concurrency)
    Keep,        \* size of the in-memory cache (20 in the code)
    MaxJobs,     \* bound: jobs ever started
    MaxRestarts, \* bound: shutdowns and crashes
    MaxFailures  \* bound: failing database writes of a job record

ASSUME WidthType  == Width \in Nat \ {0}
ASSUME KeepType   == Keep \in Nat \ {0}
ASSUME BoundsType == MaxJobs \in Nat /\ MaxRestarts \in Nat /\ MaxFailures \in Nat

VARIABLES
    phase,     \* of the server process: "up", "stopping" or "down"
    count,     \* jobs started so far; job numbers follow started_at
    mem,       \* state().triage_jobs
    db,        \* table triage_jobs
    write,     \* the write in progress under TRIAGE_START_LOCK
    worker,    \* per job: where run_triage_job_worker is
    stage,     \* per job and item: where the item is
    committed, \* per job and item: results inserted into triage_results
    fetched,   \* per job: row read by a GET that has not cached it yet
    restarts,  \* number of restarts so far
    failures   \* number of failed writes so far

vars == <<phase, count, mem, db, write, worker, stage, committed, fetched,
          restarts, failures>>

Jobs == 1..MaxJobs

Live     == {"running", "cancelling"}
Terminal == {"completed", "failed", "cancelled"}

\* An error not about an item is filed under "job".
Job == [status: Live \cup Terminal \cup {"interrupted"}, keys: SUBSET Items,
        results: SUBSET Items, errors: SUBSET (Items \cup {"job"})]

NoJob == [status |-> "absent"]

NewJob(keys) == [status |-> "running", keys |-> keys, results |-> {}, errors |-> {}]

NoWrite == [who |-> "nobody"]

Write == [who: {"start", "cancel", "worker"}, job: Jobs, row: Job]

\* "scheduled": the task is created.  "begin", "outcome" and "end" are the
\* three places where the worker saves the record; "abort" and "drain" wait
\* for the threads after an exception and after a cancellation of the task.
Worker == [pc: {"none", "scheduled", "begin", "open", "loop", "outcome",
                "abort", "drain", "end"},
           todo: SUBSET Items, stop: BOOLEAN]

NoWorker == [pc |-> "none", todo |-> {}, stop |-> FALSE]

\* "work" stands for the calls without effect on the state: reading the item,
\* the LLM pipeline and planning the changes.
Waiting  == {"commit", "insert", "work"}
Outcomes == {"ok", "error", "stopped"}
Stages   == {"idle", "begin", "inserted"} \cup Waiting \cup Outcomes

TypeOK ==
    /\ phase \in {"up", "stopping", "down"}
    /\ count \in 0..MaxJobs
    /\ mem \in [Jobs -> Job \cup {NoJob}]
    /\ db \in [Jobs -> Job \cup {NoJob}]
    /\ write \in Write \cup {NoWrite}
    /\ worker \in [Jobs -> Worker]
    /\ stage \in [Jobs -> [Items -> Stages]]
    /\ committed \in [Jobs -> [Items -> Nat]]
    /\ fetched \in [Jobs -> Job \cup {NoJob}]
    /\ restarts \in Nat
    /\ failures \in Nat

AllIdle == [i \in Items |-> "idle"]

Init ==
    /\ phase = "up"
    /\ count = 0
    /\ mem = [j \in Jobs |-> NoJob]
    /\ db = [j \in Jobs |-> NoJob]
    /\ write = NoWrite
    /\ worker = [j \in Jobs |-> NoWorker]
    /\ stage = [j \in Jobs |-> AllIdle]
    /\ committed = [j \in Jobs |-> [i \in Items |-> 0]]
    /\ fetched = [j \in Jobs |-> NoJob]
    /\ restarts = 0
    /\ failures = 0

\* Jobs whose worker task has begun and is not done.
Active == {j \in Jobs : worker[j].pc \notin {"none", "scheduled"}}

\* The cache keeps its newest jobs and the active ones.
Trimmed(cache) ==
    [j \in Jobs |->
        IF \/ Cardinality({k \in Jobs : k > j /\ cache[k] # NoJob}) < Keep
           \/ j \in Active
        THEN cache[j] ELSE NoJob]

LockFree == write = NoWrite

-----------------------------------------------------------------------------
(* Requests.                                                               *)

\* A slip: a job that is being cancelled does not block the next one.
RunningBlocks == {"running"}

\* The statuses that keep a new job from starting.
Blocking == {"running", "cancelling"}

Blocked(j) == mem[j].status \in Blocking \/ db[j].status \in Blocking

\* A slip: the number of the previous job.
LastId == count

NewId == count + 1

\* The checks, the registration in memory and the snapshot to be written all
\* happen under the lock.
StartJob(keys) ==
    /\ phase = "up"
    /\ LockFree
    /\ count < MaxJobs
    /\ keys # {}
    /\ \A j \in Jobs : ~Blocked(j)
    /\ count' = count + 1
    /\ mem' = Trimmed([mem EXCEPT ![NewId] = NewJob(keys)])
    /\ write' = [who |-> "start", job |-> NewId, row |-> NewJob(keys)]
    /\ UNCHANGED <<phase, db, worker, stage, committed, fetched, restarts, failures>>

\* A slip: a job that ended can be cancelled.
AnyButCancelled == {"running", "interrupted", "cancelling", "completed", "failed"}

Cancellable == {"running", "interrupted", "cancelling"}

\* A slip: the job is reported cancelled at once.
CancelledAtOnce(j) == "cancelled"

\* While the worker is active its threads must drain first.
CancelStatus(j) == IF j \in Active THEN "cancelling" ELSE "cancelled"

CancelJob(j) ==
    LET cached == mem[j] # NoJob
        row    == [(IF cached THEN mem[j] ELSE db[j]) EXCEPT !.status = CancelStatus(j)]
    IN  /\ phase = "up"
        /\ LockFree
        /\ (IF cached THEN mem[j] ELSE db[j]).status \in Cancellable
        /\ mem' = IF cached THEN [mem EXCEPT ![j] = row]
                            ELSE Trimmed([mem EXCEPT ![j] = row])
        /\ worker' = IF j \in Active THEN [worker EXCEPT ![j].stop = TRUE] ELSE worker
        /\ write' = [who |-> "cancel", job |-> j, row |-> row]
        /\ UNCHANGED <<phase, count, db, stage, committed, fetched, restarts, failures>>

\* A job that left the cache is read from the database ...
ReadJob(j) ==
    /\ phase = "up"
    /\ mem[j] = NoJob
    /\ db[j] # NoJob
    /\ fetched[j] = NoJob
    /\ fetched' = [fetched EXCEPT ![j] = db[j]]
    /\ UNCHANGED <<phase, count, mem, db, write, worker, stage, committed, restarts, failures>>

\* ... and cached when the read returns.
CacheJob(j) ==
    /\ fetched[j] # NoJob
    /\ mem' = Trimmed([mem EXCEPT ![j] = fetched[j]])
    /\ fetched' = [fetched EXCEPT ![j] = NoJob]
    /\ UNCHANGED <<phase, count, db, write, worker, stage, committed, restarts, failures>>

-----------------------------------------------------------------------------
(* Writing the job record.                                                 *)

\* Where the worker goes on after a save.
AfterSave(pc) ==
    CASE pc = "begin"   -> "open"
      [] pc = "outcome" -> "loop"
      [] pc = "end"     -> "none"
      [] OTHER          -> pc

\* _persist_job takes the lock, then its snapshot.
SaveJob(j) ==
    /\ worker[j].pc \in {"begin", "outcome", "end"}
    /\ LockFree
    /\ write' = [who |-> "worker", job |-> j, row |-> mem[j]]
    /\ UNCHANGED <<phase, count, mem, db, worker, stage, committed, fetched, restarts, failures>>

Saving(j) == write # NoWrite /\ write.who = "worker" /\ write.job = j

WriteDone ==
    LET j == write.job
    IN  /\ write # NoWrite
        /\ db' = [db EXCEPT ![j] = write.row]
        /\ worker' = CASE write.who = "start" /\ phase = "up" ->
                              [worker EXCEPT ![j].pc = "scheduled"]
                       [] write.who = "worker" ->
                              [worker EXCEPT ![j].pc = AfterSave(@)]
                       [] OTHER -> worker
        /\ write' = NoWrite
        /\ UNCHANGED <<phase, count, mem, stage, committed, fetched, restarts, failures>>

\* The write raises.  The request fails with it; the worker ends the job as
\* failed, or ends without having saved how the job ended.
WriteRaises ==
    LET j == write.job
    IN  /\ write # NoWrite
        /\ failures < MaxFailures
        /\ failures' = failures + 1
        /\ write' = NoWrite
        /\ IF write.who = "worker" /\ worker[j].pc = "begin"
           THEN mem' = [mem EXCEPT ![j].status = "failed", ![j].errors = @ \cup {"job"}]
           ELSE mem' = mem
        /\ worker' = CASE write.who = "worker" /\ worker[j].pc = "begin" ->
                              [worker EXCEPT ![j].pc = "end"]
                       [] write.who = "worker" /\ worker[j].pc = "outcome" ->
                              [worker EXCEPT ![j].pc = "abort", ![j].stop = TRUE]
                       [] write.who = "worker" /\ worker[j].pc = "end" ->
                              [worker EXCEPT ![j] = NoWorker]
                       [] OTHER -> worker
        /\ UNCHANGED <<phase, count, db, stage, committed, fetched, restarts>>

-----------------------------------------------------------------------------
(* The worker.                                                             *)

\* A slip: a resumed job starts over.
AllKeys(r) == r.keys

\* remaining_keys: only successes are skipped.
Remaining(r) == r.keys \ r.results

StartWorker(j) ==
    /\ worker[j].pc = "scheduled"
    /\ \/ /\ mem[j] = NoJob
          /\ worker' = [worker EXCEPT ![j] = NoWorker]
          /\ UNCHANGED mem
       \/ /\ mem[j] # NoJob
          /\ mem[j].status \in {"cancelled", "cancelling"}
          /\ mem' = [mem EXCEPT ![j].status = "cancelled"]
          /\ worker' = [worker EXCEPT ![j].pc = "end"]
       \/ /\ mem[j] # NoJob
          /\ mem[j].status \notin {"cancelled", "cancelling"}
          /\ mem' = [mem EXCEPT ![j].status = "running", ![j].errors = {}]
          /\ worker' = [worker EXCEPT ![j] =
                [pc |-> "begin", todo |-> Remaining(mem[j]), stop |-> FALSE]]
    /\ UNCHANGED <<phase, count, db, write, stage, committed, fetched, restarts, failures>>

\* get_zotero_reader_or_raise
OpenLibrary(j) ==
    /\ worker[j].pc = "open"
    /\ \/ worker' = [worker EXCEPT ![j].pc = "loop"] /\ UNCHANGED mem
       \/ /\ worker' = [worker EXCEPT ![j].pc = "end"]
          /\ mem' = [mem EXCEPT ![j].status = "failed", ![j].errors = @ \cup {"job"}]
    /\ UNCHANGED <<phase, count, db, write, stage, committed, fetched, restarts, failures>>

\* The next batch, in whatever order the items were given.
StartBatch(j) ==
    /\ worker[j].pc = "loop"
    /\ stage[j] = AllIdle
    /\ ~worker[j].stop
    /\ \E B \in SUBSET worker[j].todo :
        /\ B # {}
        /\ Cardinality(B) = Width \/ (B = worker[j].todo /\ Cardinality(B) < Width)
        /\ stage' = [stage EXCEPT ![j] = [i \in Items |-> IF i \in B THEN "begin" ELSE "idle"]]
        /\ worker' = [worker EXCEPT ![j].todo = @ \ B]
    /\ UNCHANGED <<phase, count, mem, db, write, committed, fetched, restarts, failures>>

\* _record_outcome.  Once a cancellation is requested nothing is recorded.
Recorded(r, i, outcome) ==
    IF r.status = "cancelling" THEN r
    ELSE CASE outcome = "stopped" -> r
           [] outcome = "ok"      -> [r EXCEPT !.results = @ \cup {i}]
           [] outcome = "error"   -> [r EXCEPT !.errors = @ \cup {i}]

RecordOutcome(j, i) ==
    /\ worker[j].pc = "loop"
    /\ stage[j][i] \in Outcomes
    /\ mem' = [mem EXCEPT ![j] = Recorded(@, i, stage[j][i])]
    /\ stage' = [stage EXCEPT ![j][i] = "idle"]
    /\ worker' = [worker EXCEPT ![j].pc = "outcome"]
    /\ UNCHANGED <<phase, count, db, write, committed, fetched, restarts, failures>>

\* A slip: a job with errors is completed.
CompletedAnyway(r) == IF r.status = "cancelling" THEN "cancelled" ELSE "completed"

FinalStatus(r) ==
    CASE r.status = "cancelling" -> "cancelled"
      [] r.status = "running"    -> IF r.errors = {} THEN "completed" ELSE "failed"
      [] OTHER                   -> r.status

FinishLoop(j) ==
    /\ worker[j].pc = "loop"
    /\ stage[j] = AllIdle
    /\ worker[j].todo = {} \/ worker[j].stop
    /\ mem' = [mem EXCEPT ![j].status = FinalStatus(mem[j])]
    /\ worker' = [worker EXCEPT ![j].pc = "end"]
    /\ UNCHANGED <<phase, count, db, write, stage, committed, fetched, restarts, failures>>

\* The task group ends only after its threads: then the exception or the
\* cancellation is turned into a status.
FinishDrain(j) ==
    /\ worker[j].pc \in {"abort", "drain"}
    /\ ~Saving(j)
    /\ \A i \in Items : stage[j][i] \notin Waiting
    /\ mem' = IF worker[j].pc = "abort"
              THEN [mem EXCEPT ![j].status = "failed", ![j].errors = @ \cup {"job"}]
              ELSE [mem EXCEPT ![j].status =
                      IF @ = "cancelling" THEN "cancelled" ELSE "interrupted"]
    /\ stage' = [stage EXCEPT ![j] = AllIdle]
    /\ worker' = [worker EXCEPT ![j].pc = "end"]
    /\ UNCHANGED <<phase, count, db, write, committed, fetched, restarts, failures>>

-----------------------------------------------------------------------------
(* The items of a batch.                                                   *)

Reach(j, i, s) == stage' = [stage EXCEPT ![j][i] = s]

Stopped(j) == worker[j].stop

BeginItem(j, i) ==
    /\ stage[j][i] = "begin"
    /\ worker[j].pc \in {"loop", "outcome"}
    /\ Reach(j, i, IF Stopped(j) THEN "stopped" ELSE "work")
    /\ UNCHANGED <<worker, committed>>

\* The summary is there, or the item fails; a stop wins over both.
FinishWork(j, i) ==
    /\ stage[j][i] = "work"
    /\ \/ Stopped(j) /\ Reach(j, i, "stopped")
       \/ ~Stopped(j) /\ (Reach(j, i, "commit") \/ Reach(j, i, "error"))
    /\ UNCHANGED <<worker, committed>>

\* The summary's deadline: no more items are begun.
Deadline(j, i) ==
    /\ stage[j][i] = "work"
    /\ worker[j].pc \in {"loop", "outcome"}
    /\ Reach(j, i, "error")
    /\ worker' = [worker EXCEPT ![j].stop = TRUE]
    /\ UNCHANGED committed

\* The thread looks at the stop event once more, then enters the transaction.
EnterInsert(j, i) ==
    /\ stage[j][i] = "commit"
    /\ Reach(j, i, IF Stopped(j) THEN "stopped" ELSE "insert")
    /\ UNCHANGED <<worker, committed>>

\* insert_result: the result and its pending changes, or neither.
InsertResult(j, i) ==
    /\ stage[j][i] = "insert"
    /\ \/ Reach(j, i, "inserted") /\ committed' = [committed EXCEPT ![j][i] = @ + 1]
       \/ Reach(j, i, "error") /\ UNCHANGED committed
    /\ UNCHANGED worker

ReturnItem(j, i) ==
    /\ stage[j][i] = "inserted"
    /\ worker[j].pc \in {"loop", "outcome"}
    /\ Reach(j, i, IF Stopped(j) THEN "stopped" ELSE "ok")
    /\ UNCHANGED <<worker, committed>>

ItemStep(j, i) ==
    /\ \/ BeginItem(j, i) \/ FinishWork(j, i) \/ Deadline(j, i)
       \/ EnterInsert(j, i) \/ InsertResult(j, i) \/ ReturnItem(j, i)
    /\ UNCHANGED <<phase, count, mem, db, write, fetched, restarts, failures>>

-----------------------------------------------------------------------------
(* The process.                                                            *)

\* An orderly shutdown cancels the event loop's tasks.  A task that has not
\* begun never does; one past its last decision goes on.
Shutdown ==
    /\ phase = "up"
    /\ restarts < MaxRestarts
    /\ phase' = "stopping"
    /\ worker' = [j \in Jobs |->
          CASE worker[j].pc = "scheduled" -> NoWorker
            [] worker[j].pc \in {"begin", "open", "loop", "outcome"} ->
                  [worker[j] EXCEPT !.pc = "drain", !.stop = TRUE]
            [] OTHER -> worker[j]]
    /\ UNCHANGED <<count, mem, db, write, stage, committed, fetched, restarts, failures>>

\* The process ends, after a shutdown or by a crash; a write in progress is
\* lost (if it was not, it was done before).
Exit ==
    /\ phase # "down"
    /\ restarts < MaxRestarts
    /\ phase' = "down"
    /\ restarts' = restarts + 1
    /\ mem' = [j \in Jobs |-> NoJob]
    /\ write' = NoWrite
    /\ worker' = [j \in Jobs |-> NoWorker]
    /\ stage' = [j \in Jobs |-> AllIdle]
    /\ fetched' = [j \in Jobs |-> NoJob]
    /\ UNCHANGED <<count, db, committed, failures>>

\* A slip: a requested cancellation is forgotten by a restart.
AllInterrupted(s) == IF s \in Live THEN "interrupted" ELSE s

\* A slip: the rows are left as the last process wrote them.
AsWritten(s) == s

\* mark_running_triage_jobs_interrupted
StatusAfterRestart(s) ==
    CASE s = "cancelling" -> "cancelled"
      [] s = "running"    -> "interrupted"
      [] OTHER            -> s

\* completed: the items recorded either way.
Completed(r) == Cardinality(r.results \cup (r.errors \cap Items))

Resumable(r) == r.status = "interrupted" /\ Completed(r) < Cardinality(r.keys)

\* Startup, before any request is served: unfinished jobs are marked, the
\* newest are cached and the resumable ones of those run again.
Restart ==
    LET marked  == [j \in Jobs |-> [db[j] EXCEPT !.status = StatusAfterRestart(@)]]
        cache   == Trimmed(marked)
        resumed == {j \in Jobs : Resumable(cache[j])}
        Run(f)  == [j \in Jobs |-> IF j \in resumed THEN [f[j] EXCEPT !.status = "running"] ELSE f[j]]
    IN  /\ phase = "down"
        /\ phase' = "up"
        /\ db' = Run(marked)
        /\ mem' = Run(cache)
        /\ worker' = [j \in Jobs |-> IF j \in resumed THEN [NoWorker EXCEPT !.pc = "scheduled"]
                                                      ELSE NoWorker]
        /\ UNCHANGED <<count, write, stage, committed, fetched, restarts, failures>>

-----------------------------------------------------------------------------
WorkerStep(j) ==
    \/ StartWorker(j) \/ SaveJob(j) \/ OpenLibrary(j) \/ StartBatch(j)
    \/ FinishLoop(j) \/ FinishDrain(j)
    \/ \E i \in Items : RecordOutcome(j, i)

Request ==
    \/ \E keys \in SUBSET Items : StartJob(keys)
    \/ \E j \in Jobs : CancelJob(j) \/ ReadJob(j) \/ CacheJob(j)

Next ==
    \/ Request
    \/ WriteDone \/ WriteRaises
    \/ \E j \in Jobs : WorkerStep(j) \/ \E i \in Items : ItemStep(j, i)
    \/ Shutdown \/ Exit \/ Restart

Spec == Init /\ [][Next]_vars

\* The event loop runs every task, asyncio.Lock serves its waiters in turn,
\* threads end, and a server that stops is started again.
Fairness ==
    /\ WF_vars(WriteDone)
    /\ \A j \in Jobs : WF_vars(WorkerStep(j)) /\ SF_vars(SaveJob(j))
    /\ \A j \in Jobs, i \in Items : WF_vars(ItemStep(j, i))
    /\ WF_vars(phase = "stopping" /\ Exit)
    /\ WF_vars(Restart)

FairSpec == Spec /\ Fairness

-----------------------------------------------------------------------------
(* Properties.                                                             *)

\* services/triage/README.md: a status that says the job is over is published
\* only when its threads have drained: no result is committed for a job that
\* memory shows as anything but running or cancelling (cancel_triage_job,
\* _run_job, run_blocking).
NoLateResult ==
    [][\A j \in Jobs : committed'[j] # committed[j] => mem[j].status \in Live]_vars

\* Two jobs never work on items at once, whatever starts, cancellations,
\* failing writes and restarts come together (run_triage_job's two checks).
OneJobAtATime ==
    \A j, k \in Jobs :
        (stage[j] # AllIdle /\ stage[k] # AllIdle) => j = k

\* What a job reports is in the database: a reported success was committed,
\* and a completed job has one for every item, in memory as on disk.
ReportsAreBacked ==
    \A j \in Jobs : \A r \in {mem[j], db[j]} \ {NoJob} :
        /\ \A i \in r.results : committed[j][i] > 0
        /\ r.status = "completed" => r.results = r.keys

\* An item whose success the database remembers is never summarised again,
\* and in the life of one process no item is (Remaining, StartBatch): every
\* duplicate result costs a restart.
ResultsAreNotRepeated ==
    /\ [][\A j \in Jobs, i \in Items :
            committed'[j][i] # committed[j][i] => i \notin db[j].results]_vars
    /\ [](\A j \in Jobs, i \in Items : committed[j][i] <= 1 + restarts)

\* A job that ended stays as it ended, through stale reads into the cache,
\* repeated cancellations and restarts.
EndedJobsStay ==
    [][\A j \in Jobs : db[j].status \in Terminal => db'[j].status = db[j].status]_vars

\* A cancellation the database knows of is never undone, by a worker's later
\* snapshot or by a restart.
CancellationHolds ==
    [][\A j \in Jobs :
        db[j].status = "cancelling" => db'[j].status \in {"cancelling", "cancelled", "failed"}]_vars

\* A job does not stay running or cancelling for ever, whatever restarts
\* come (and no write fails).
JobsSettle ==
    \A j \in Jobs : db[j].status \in Live ~> db[j].status \notin Live
=============================================================================
