-------------------------- MODULE TriageJobs_proofs --------------------------
(***************************************************************************)
(* Proofs about TriageJobs, for any items, width, cache size and bounds.   *)
(*                                                                         *)
(* A job is unfinished while some copy of its record (memory, table, the   *)
(* write in progress) says it runs or can be resumed.  At most one job is  *)
(* unfinished (Exclusive), and it never leaves the cache (Held).  The rest *)
(* of the invariant, Local, speaks of one job at a time: how the copies of *)
(* its record and the place of its worker agree.                           *)
(***************************************************************************)
EXTENDS TriageJobs, FiniteSetTheorems, TLAPS

Open(r) == r.status \in Live \/ Resumable(r)

InFlight(j) == write # NoWrite /\ write.job = j

Unfinished(j) == Open(mem[j]) \/ Open(db[j]) \/ (InFlight(j) /\ Open(write.row))

Present(j) == mem[j] # NoJob \/ db[j] # NoJob \/ InFlight(j)

\* Fewer than Keep newer jobs exist: the cache has room for j.
Recent(j) == Cardinality({k \in Jobs : k > j /\ Present(k)}) < Keep

Exclusive == \A j, k \in Jobs : Unfinished(j) /\ Unfinished(k) => j = k

Held(j) ==
    Unfinished(j) => /\ Recent(j)
                     /\ fetched[j] = NoJob
                     /\ phase # "down" => mem[j] # NoJob

Numbered(j) ==
    /\ Present(j) \/ fetched[j] # NoJob => j <= count
    /\ fetched[j] # NoJob => db[j] # NoJob /\ ~Open(fetched[j])
    /\ j > count => worker[j].pc = "none" /\ \A i \in Items : committed[j][i] = 0

Down(j) ==
    phase = "down" =>
        /\ mem[j] = NoJob /\ fetched[j] = NoJob /\ worker[j].pc = "none" /\ ~InFlight(j)
        /\ \A i \in Items : stage[j][i] = "idle" /\ committed[j][i] <= restarts

\* While the server is up no record waits to be resumed.
Settled(j) ==
    phase = "up" => /\ ~Resumable(mem[j]) /\ ~Resumable(db[j])
                    /\ InFlight(j) => ~Resumable(write.row)

Draining == {"loop", "outcome", "abort", "drain"}
Working  == {"begin", "open"} \cup Draining

Scheduled(j) ==
    worker[j].pc = "scheduled" =>
        /\ phase = "up"
        /\ mem[j].status \in {"absent", "running", "cancelled"}
        /\ db[j].status \in {"running", "cancelled"}
        /\ InFlight(j) => write.row.status = "cancelled"
        /\ mem[j].status = "absent" => db[j].status = "cancelled"
        /\ mem[j].status = "running" =>
              db[j].status = "running" /\ ~InFlight(j) /\ db[j].results \subseteq mem[j].results
        /\ \A i \in Items : committed[j][i] <= restarts

AtWork(j) ==
    worker[j].pc \in Working =>
        /\ mem[j].status \in Live /\ db[j].status \in Live
        /\ db[j].results \subseteq mem[j].results
        /\ InFlight(j) => write.row.status \in Live /\ write.row.results \subseteq mem[j].results

Over(j) ==
    worker[j].pc = "end" =>
        /\ mem[j].status \in Terminal \cup {"interrupted"}
        /\ db[j].status \in Live \cup {"cancelled"}
        /\ mem[j].status = "interrupted" => phase # "up"
        /\ db[j].status = "cancelled" => mem[j].status = "cancelled"
        /\ InFlight(j) /\ write.row.status = "cancelled" => mem[j].status = "cancelled"

Phases(j) ==
    /\ worker[j].pc # "none" => /\ fetched[j].status \in {"absent", "cancelled"}
                                /\ ~(InFlight(j) /\ write.who = "start")
    /\ worker[j].pc = "drain" => phase = "stopping"
    /\ \A i \in Items : stage[j][i] # "idle" => worker[j].pc \in Draining
    /\ Scheduled(j) /\ AtWork(j) /\ Over(j)

\* The first write of a job's record, and the write of a cancellation.
Writing(j) ==
    /\ InFlight(j) /\ write.who = "start" =>
          /\ worker[j].pc = "none" /\ db[j] = NoJob
          /\ mem[j].status = "running" /\ write.row.status = "running"
          /\ write.row.results = {}
          /\ \A i \in Items : committed[j][i] = 0
    /\ InFlight(j) /\ write.who = "cancel" => write.row.status \in {"cancelling", "cancelled"}

Backed(j, r) ==
    r # NoJob => /\ r.results \subseteq r.keys
                 /\ \A i \in r.results : committed[j][i] > 0
                 /\ r.status = "completed" => r.results = r.keys

RowsBacked(j) ==
    /\ Backed(j, mem[j]) /\ Backed(j, db[j]) /\ Backed(j, fetched[j])
    /\ InFlight(j) => Backed(j, write.row)

\* Items still to be summarised, or on the way to their insert.
Fresh(j, i) ==
    \/ i \in worker[j].todo /\ worker[j].pc \in Working
    \/ stage[j][i] \in {"begin", "work", "commit", "insert"}

ItemOK(j, i) ==
    /\ committed[j][i] <= 1 + restarts
    /\ stage[j][i] \in {"inserted", "ok"} => committed[j][i] > 0
    /\ Fresh(j, i) => committed[j][i] <= restarts
    /\ Fresh(j, i) \/ stage[j][i] # "idle" => i \in mem[j].keys \ mem[j].results
    /\ stage[j][i] # "idle" => i \notin worker[j].todo

\* No key is lost: a job that has seen no error still has each of its keys.
Complete(j) ==
    worker[j].pc \in {"begin", "open", "loop", "outcome"} /\ mem[j].status = "running" =>
        \/ mem[j].errors # {}
        \/ \E i \in Items : stage[j][i] = "error"
        \/ /\ ~worker[j].stop
           /\ \A i \in mem[j].keys : \/ i \in mem[j].results \/ i \in worker[j].todo
                                     \/ stage[j][i] \notin {"idle", "stopped", "error"}

Stops == {"cancelling", "cancelled", "failed"}

\* A cached copy may lag behind a cancellation.
Agrees(r, s) == r.status = s \/ (r.status = "interrupted" /\ s = "cancelled")

Ended(j) ==
    /\ db[j].status \in Terminal =>
          /\ mem[j] # NoJob => Agrees(mem[j], db[j].status)
          /\ InFlight(j) => write.row.status = db[j].status
    /\ fetched[j].status \in Terminal => db[j].status = fetched[j].status
    /\ fetched[j].status = "interrupted" => db[j].status \in {"interrupted", "cancelled"}
    /\ InFlight(j) /\ write.row.status \in Terminal /\ mem[j] # NoJob => Agrees(mem[j], write.row.status)
    /\ InFlight(j) /\ db[j].status = "interrupted" => write.row.status = "cancelled"

Cancelling(j) ==
    /\ db[j].status = "cancelling" =>
          /\ phase = "down" \/ mem[j].status \in Stops
          /\ InFlight(j) => write.row.status \in Stops
    /\ InFlight(j) /\ write.row.status = "cancelling" => mem[j].status \in Stops

Local(j) ==
    /\ Numbered(j) /\ Down(j) /\ Settled(j) /\ Phases(j) /\ Writing(j)
    /\ RowsBacked(j) /\ \A i \in Items : ItemOK(j, i)
    /\ Complete(j) /\ Ended(j) /\ Cancelling(j)

IInv ==
    /\ TypeOK
    /\ \A j \in Jobs : Local(j)
    /\ Exclusive
    /\ \A j \in Jobs : Held(j)

-----------------------------------------------------------------------------
(* Records and the cache.                                                  *)

Statuses == Live \cup Terminal \cup {"interrupted"}

Record == Job \cup {NoJob}

LEMMA Records ==
    /\ NoJob.status = "absent" /\ ~Open(NoJob)
    /\ \A r \in Job : /\ r # NoJob /\ r.status \in Statuses
                      /\ r.keys \in SUBSET Items /\ r.results \in SUBSET Items
                      /\ r.errors \in SUBSET (Items \cup {"job"})
    /\ \A r \in Record : r = NoJob <=> r.status = "absent"
  BY DEF Job, NoJob, Record, Statuses, Open, Resumable, Live, Terminal

LEMMA StatusSet ==
    ASSUME NEW r \in Job, NEW s \in Statuses
    PROVE  LET x == [r EXCEPT !.status = s]
           IN  /\ x \in Job /\ x.status = s
               /\ x.keys = r.keys /\ x.results = r.results /\ x.errors = r.errors
  BY DEF Job, Statuses

LEMMA RowTypes ==
    ASSUME TypeOK, NEW j \in Jobs
    PROVE  /\ mem[j] \in Record /\ db[j] \in Record /\ fetched[j] \in Record
           /\ InFlight(j) => write \in Write /\ write.row \in Job
           /\ worker[j] \in Worker
           /\ \A i \in Items : stage[j][i] \in Stages /\ committed[j][i] \in Nat
           /\ restarts \in Nat
  BY DEF TypeOK, Record, InFlight, Write, NoWrite

LEMMA JobsFinite == IsFiniteSet(Jobs) /\ \A S \in SUBSET Jobs : IsFiniteSet(S) /\ Cardinality(S) \in Nat
  <1>1. MaxJobs \in Int /\ 1 \in Int
    BY BoundsType
  <1>2. IsFiniteSet(Jobs)
    BY <1>1, FS_Interval DEF Jobs
  <1> QED  BY <1>2, FS_Subset, FS_CardinalityType

\* The cache after trimming: recent and active jobs stay.
LEMMA TrimmedIs ==
    ASSUME NEW cache \in [Jobs -> Record]
    PROVE  /\ Trimmed(cache) \in [Jobs -> Record]
           /\ \A k \in Jobs : Trimmed(cache)[k] \in {cache[k], NoJob}
           /\ \A k \in Active : Trimmed(cache)[k] = cache[k]
           /\ (\A k \in Jobs : cache[k] # NoJob => Present(k)) =>
                 \A k \in Jobs : Recent(k) => Trimmed(cache)[k] = cache[k]
           /\ \A k \in Jobs : (\A l \in Jobs : l > k => cache[l] = NoJob) => Trimmed(cache)[k] = cache[k]
  <1>1. ASSUME NEW k \in Jobs
        PROVE  Trimmed(cache)[k] = IF \/ Cardinality({l \in Jobs : l > k /\ cache[l] # NoJob}) < Keep
                                      \/ k \in Active
                                   THEN cache[k] ELSE NoJob
    BY DEF Trimmed
  <1>2. Trimmed(cache) \in [Jobs -> Record]
    BY DEF Trimmed, Record
  <1>3. ASSUME \A l \in Jobs : cache[l] # NoJob => Present(l), NEW k \in Jobs, Recent(k)
        PROVE  Trimmed(cache)[k] = cache[k]
    <2>1. PICK A : A = {l \in Jobs : l > k /\ cache[l] # NoJob}
      OBVIOUS
    <2>2. PICK B : B = {l \in Jobs : l > k /\ Present(l)}
      OBVIOUS
    <2>3. A \in SUBSET B /\ A \in SUBSET Jobs /\ B \in SUBSET Jobs
      BY <1>3, <2>1, <2>2
    <2>4. Cardinality(A) <= Cardinality(B) /\ Cardinality(A) \in Nat /\ Cardinality(B) \in Nat
      BY <2>3, JobsFinite, FS_Subset
    <2>5. Cardinality(B) < Keep
      BY <1>3, <2>2 DEF Recent
    <2>6. Cardinality(A) < Keep
      BY <2>4, <2>5, KeepType
    <2> QED  BY <1>1, <2>1, <2>6
  <1>4. Active \in SUBSET Jobs
    BY DEF Active
  <1>5. ASSUME NEW k \in Jobs, \A l \in Jobs : l > k => cache[l] = NoJob
        PROVE  Trimmed(cache)[k] = cache[k]
    <2>1. {l \in Jobs : l > k /\ cache[l] # NoJob} = {}
      BY <1>5
    <2>2. Cardinality({}) = 0 /\ 0 < Keep
      BY FS_EmptySet, KeepType
    <2> QED  BY <1>1, <2>1, <2>2
  <1> QED  BY <1>1, <1>2, <1>3, <1>4, <1>5

-----------------------------------------------------------------------------
(* A step that concerns one job leaves the others as they are.             *)

Same(k) ==
    /\ db'[k] = db[k] /\ fetched'[k] = fetched[k] /\ worker'[k] = worker[k]
    /\ stage'[k] = stage[k] /\ committed'[k] = committed[k]
    /\ InFlight(k)' => InFlight(k) /\ write' = write
    /\ \/ mem'[k] = mem[k]
       \/ mem'[k] = NoJob /\ k \notin Active /\ ~Unfinished(k)

LEMMA Untouched ==
    ASSUME IInv, NEW k \in Jobs, Same(k), UNCHANGED <<phase, restarts>>,
           count' \in Nat, count' >= count
    PROVE  /\ Local(k)'
           /\ Unfinished(k)' => Unfinished(k) /\ fetched'[k] = NoJob /\ (phase' # "down" => mem'[k] # NoJob)
           /\ Present(k)' => Present(k)
  <1>1. Local(k) /\ Held(k) /\ TypeOK
    BY DEF IInv
  <1>2. k \in Nat /\ count \in Nat
    BY <1>1, BoundsType DEF TypeOK, Jobs
  <1>3. CASE mem'[k] = mem[k]
    <2>1. /\ db'[k] = db[k] /\ fetched'[k] = fetched[k] /\ worker'[k] = worker[k]
          /\ stage'[k] = stage[k] /\ committed'[k] = committed[k] /\ mem'[k] = mem[k]
          /\ InFlight(k)' => InFlight(k) /\ write'.row = write.row /\ write'.who = write.who
      BY <1>3 DEF Same
    <2>2. Numbered(k)' /\ Down(k)' /\ Settled(k)'
      <3>1. Numbered(k)'
        BY <1>1, <1>2, <2>1 DEF Local, Numbered, Present
      <3>2. Down(k)' /\ Settled(k)'
        BY <1>1, <2>1 DEF Local, Down, Settled
      <3> QED  BY <3>1, <3>2
    <2>3. Phases(k)' /\ Writing(k)'
      BY <1>1, <2>1 DEF Local, Phases, Writing, Scheduled, AtWork, Over
    <2>4. RowsBacked(k)' /\ Complete(k)'
      BY <1>1, <2>1 DEF Local, RowsBacked, Complete, Backed
    <2>5. \A i \in Items : ItemOK(k, i)'
      BY <1>1, <2>1 DEF Local, ItemOK, Fresh
    <2>6. Ended(k)' /\ Cancelling(k)'
      BY <1>1, <2>1 DEF Local, Ended, Cancelling
    <2>7. /\ Unfinished(k)' => Unfinished(k)
          /\ Present(k)' => Present(k)
      BY <2>1 DEF Unfinished, Present
    <2> QED  BY <1>1, <2>1, <2>2, <2>3, <2>4, <2>5, <2>6, <2>7 DEF Local, Held
  <1>4. CASE mem'[k] = NoJob /\ k \notin Active /\ ~Unfinished(k)
    <2>1. /\ db'[k] = db[k] /\ fetched'[k] = fetched[k] /\ worker'[k] = worker[k]
          /\ stage'[k] = stage[k] /\ committed'[k] = committed[k] /\ mem'[k].status = "absent"
          /\ mem'[k] = NoJob
          /\ InFlight(k)' => InFlight(k) /\ write'.row = write.row /\ write'.who = write.who
      BY <1>4, Records DEF Same
    <2>2. /\ ~Open(mem[k]) /\ ~Open(db[k])
          /\ InFlight(k) => ~Open(write.row)
          /\ worker[k].pc \in {"none", "scheduled"}
      BY <1>4, RowTypes, <1>1 DEF Unfinished, Active, Worker
    <2>3. ~Resumable(NoJob)
      BY Records DEF Open
    <2>4. Numbered(k)' /\ Down(k)' /\ Settled(k)'
      <3>1. Numbered(k)'
        BY <1>1, <1>2, <2>1, <2>3 DEF Local, Numbered, Present
      <3>2. Down(k)' /\ Settled(k)'
        BY <1>1, <2>1, <2>3 DEF Local, Down, Settled
      <3> QED  BY <3>1, <3>2
    <2>5. Phases(k)'
      BY <1>1, <2>1, <2>2 DEF Local, Phases, Scheduled, AtWork, Over, Draining, Working, Open, Live
    <2>6. Writing(k)'
      BY <1>1, <2>1, <2>2 DEF Local, Writing, Open, Live
    <2>7. RowsBacked(k)' /\ Complete(k)'
      BY <1>1, <2>1 DEF Local, RowsBacked, Complete, Backed
    <2>8. \A i \in Items : ItemOK(k, i)'
      BY <1>1, <2>1, <2>2 DEF Local, ItemOK, Fresh, Phases, Draining, Working
    <2>9. Ended(k)' /\ Cancelling(k)'
      BY <1>1, <2>1, <2>2 DEF Local, Ended, Cancelling, Open, Live
    <2>10. ~Unfinished(k)'
      BY <2>1, <2>2, <2>3, Records DEF Unfinished
    <2>11. Present(k)' => Present(k)
      BY <2>1 DEF Present
    <2> QED  BY <1>1, <2>1, <2>4, <2>5, <2>6, <2>7, <2>8, <2>9, <2>10, <2>11 DEF Local
  <1> QED  BY <1>3, <1>4 DEF Same

\* No job becomes unfinished and none appears.
LEMMA OpenKept ==
    ASSUME IInv,
           \A k \in Jobs : Unfinished(k)' => /\ Unfinished(k) /\ fetched'[k] = NoJob
                                             /\ phase' # "down" => mem'[k] # NoJob,
           \A k \in Jobs : Present(k)' => Present(k)
    PROVE  Exclusive' /\ \A k \in Jobs : Held(k)'
  <1>1. Exclusive'
    BY DEF IInv, Exclusive
  <1>2. ASSUME NEW k \in Jobs, Unfinished(k)'
        PROVE  Recent(k)'
    <2>1. PICK A : A = {l \in Jobs : l > k /\ Present(l)'}
      OBVIOUS
    <2>2. PICK B : B = {l \in Jobs : l > k /\ Present(l)}
      OBVIOUS
    <2>3. A \in SUBSET B /\ A \in SUBSET Jobs /\ B \in SUBSET Jobs
      BY <2>1, <2>2
    <2>4. Cardinality(A) <= Cardinality(B) /\ Cardinality(A) \in Nat /\ Cardinality(B) \in Nat
      BY <2>3, JobsFinite, FS_Subset
    <2>5. Cardinality(B) < Keep
      BY <1>2, <2>2 DEF IInv, Held, Recent
    <2>6. Cardinality(A) < Keep
      BY <2>4, <2>5, KeepType
    <2> QED  BY <2>1, <2>6 DEF Recent
  <1> QED  BY <1>1, <1>2 DEF Held

LEMMA OneJobChanges ==
    ASSUME IInv, TypeOK', NEW j \in Jobs, UNCHANGED <<phase, count, restarts>>,
           \A k \in Jobs \ {j} : Same(k),
           Local(j)',
           Unfinished(j)' => Unfinished(j) /\ fetched'[j] = NoJob /\ mem'[j] # NoJob,
           Present(j)' => Present(j)
    PROVE  IInv'
  <1>1. count' \in Nat /\ count' >= count
    BY DEF IInv, TypeOK
  <1>2. \A k \in Jobs \ {j} :
          /\ Local(k)'
          /\ Unfinished(k)' => Unfinished(k) /\ fetched'[k] = NoJob /\ (phase' # "down" => mem'[k] # NoJob)
          /\ Present(k)' => Present(k)
    BY <1>1, Untouched
  <1>3. Exclusive' /\ \A k \in Jobs : Held(k)'
    <2>1. /\ \A k \in Jobs : Unfinished(k)' => /\ Unfinished(k) /\ fetched'[k] = NoJob
                                               /\ phase' # "down" => mem'[k] # NoJob
          /\ \A k \in Jobs : Present(k)' => Present(k)
      BY <1>2
    <2> QED  BY <2>1, OpenKept
  <1> QED  BY <1>2, <1>3 DEF IInv

-----------------------------------------------------------------------------
(* The items of a batch.                                                   *)

Inserted(j, i, s) ==
    stage[j][i] = "insert" /\ s = "inserted" /\ committed'[j][i] = committed[j][i] + 1

\* Item i of job j reaches stage s; its worker may be told to stop.
LEMMA ItemKept ==
    ASSUME IInv, TypeOK', NEW j \in Jobs, NEW i \in Items, NEW s \in Stages \ {"idle"},
           UNCHANGED <<phase, count, mem, db, write, fetched, restarts>>,
           stage' = [stage EXCEPT ![j][i] = s],
           stage[j][i] \in {"begin", "work", "commit", "insert", "inserted"},
           s \in {"begin", "work", "commit", "insert"} => stage[j][i] \in {"begin", "work", "commit", "insert"},
           \A k \in Jobs \ {j} : worker'[k] = worker[k] /\ committed'[k] = committed[k],
           worker'[j].pc = worker[j].pc, worker'[j].todo = worker[j].todo,
           worker'[j].stop => worker[j].stop \/ s = "error",
           s = "stopped" => worker[j].stop,
           \A l \in Items \ {i} : committed'[j][l] = committed[j][l],
           \/ committed'[j][i] = committed[j][i]
           \/ Inserted(j, i, s),
           s \in {"inserted", "ok"} => committed'[j][i] > 0
    PROVE  IInv'
  <1>1. TypeOK /\ Local(j) /\ Held(j)
    BY DEF IInv
  <1>2. /\ stage'[j][i] = s /\ \A l \in Items \ {i} : stage'[j][l] = stage[j][l]
        /\ \A k \in Jobs \ {j} : stage'[k] = stage[k]
    BY <1>1 DEF TypeOK
  <1>3. \A k \in Jobs \ {j} : Same(k)
    BY <1>2 DEF Same, InFlight
  <1>4. worker[j].pc \in Draining /\ phase # "down"
    BY <1>1 DEF Local, Phases, Down
  <1>5. \A l \in Items : /\ committed[j][l] \in Nat /\ committed'[j][l] \in Nat
                         /\ committed[j][l] > 0 => committed'[j][l] > 0
    BY <1>1 DEF TypeOK, Inserted
  <1>6. restarts \in Nat /\ count \in Nat /\ j \in Nat
    BY <1>1, BoundsType DEF TypeOK, Jobs
  <1>7. Numbered(j)' /\ Down(j)' /\ Settled(j)' /\ Writing(j)'
    BY <1>1, <1>4 DEF Local, Numbered, Down, Settled, Present, InFlight, Writing, Phases, Draining
  <1>8. Phases(j)'
    BY <1>1, <1>4 DEF Local, Phases, Scheduled, AtWork, Over, InFlight, Draining
  <1>9. RowsBacked(j)'
    BY <1>1, <1>5, RowTypes, Records DEF Local, RowsBacked, Backed, InFlight, Record
  <1>10. ASSUME NEW l \in Items
         PROVE  ItemOK(j, l)'
    <2>1. CASE l = i
      BY <1>1, <1>2, <1>5, <1>6, <2>1 DEF Local, ItemOK, Fresh, Stages, Inserted
    <2>2. CASE l # i
      BY <1>1, <1>2, <2>2 DEF Local, ItemOK, Fresh
    <2> QED  BY <2>1, <2>2
  <1>11. Complete(j)'
    <2>1. CASE s = "error"
      BY <1>2, <2>1 DEF Complete
    <2>2. CASE s # "error"
      BY <1>1, <1>2, <2>2 DEF Local, Complete
    <2> QED  BY <2>1, <2>2
  <1>12. Ended(j)' /\ Cancelling(j)'
    BY <1>1 DEF Local, Ended, Cancelling, InFlight
  <1>13. Local(j)'
    BY <1>7, <1>8, <1>9, <1>10, <1>11, <1>12 DEF Local
  <1>14. /\ Unfinished(j)' => Unfinished(j) /\ fetched'[j] = NoJob /\ mem'[j] # NoJob
         /\ Present(j)' => Present(j)
    BY <1>1, <1>4 DEF Held, Unfinished, Present, InFlight
  <1> QED  BY <1>3, <1>13, <1>14, OneJobChanges

LEMMA ItemType ==
    ASSUME TypeOK, NEW j \in Jobs, NEW i \in Items, NEW s \in Stages,
           UNCHANGED <<phase, count, mem, db, write, fetched, restarts, failures>>,
           stage' = [stage EXCEPT ![j][i] = s],
           worker' = worker \/ worker' = [worker EXCEPT ![j].stop = TRUE],
           committed' = committed \/ committed' = [committed EXCEPT ![j][i] = @ + 1]
    PROVE  /\ TypeOK'
           /\ \A k \in Jobs \ {j} : worker'[k] = worker[k] /\ committed'[k] = committed[k]
           /\ worker'[j].pc = worker[j].pc /\ worker'[j].todo = worker[j].todo
           /\ \A l \in Items \ {i} : committed'[j][l] = committed[j][l]
           /\ worker' = worker => worker'[j].stop = worker[j].stop
           /\ committed' = committed => committed'[j][i] = committed[j][i]
           /\ committed' = [committed EXCEPT ![j][i] = @ + 1] =>
                 committed'[j][i] = committed[j][i] + 1 /\ committed'[j][i] > 0
  <1>1. stage' \in [Jobs -> [Items -> Stages]]
    BY DEF TypeOK
  <1>2. /\ worker' \in [Jobs -> Worker]
        /\ \A k \in Jobs \ {j} : worker'[k] = worker[k]
        /\ worker'[j].pc = worker[j].pc /\ worker'[j].todo = worker[j].todo
    <2>1. worker[j] \in Worker
      BY DEF TypeOK
    <2>2. CASE worker' = [worker EXCEPT ![j].stop = TRUE]
      <3>1. PICK w : w = [worker[j] EXCEPT !.stop = TRUE]
        OBVIOUS
      <3>2. w \in Worker /\ w.pc = worker[j].pc /\ w.todo = worker[j].todo
        BY <2>1, <3>1 DEF Worker
      <3>3. worker' = [worker EXCEPT ![j] = w]
        BY <2>2, <3>1
      <3> QED  BY <3>2, <3>3 DEF TypeOK
    <2> QED  BY <2>2 DEF TypeOK
  <1>3. CASE committed' = committed
    BY <1>1, <1>2, <1>3 DEF TypeOK
  <1>4. CASE committed' = [committed EXCEPT ![j][i] = @ + 1]
    <2>1. committed[j] \in [Items -> Nat]
      BY DEF TypeOK
    <2>2. PICK n : n = committed[j][i] + 1
      OBVIOUS
    <2>3. PICK row : row = [committed[j] EXCEPT ![i] = n]
      OBVIOUS
    <2>4. n \in Nat /\ n > 0
      BY <2>1, <2>2
    <2>5. row \in [Items -> Nat] /\ row[i] = n /\ \A l \in Items \ {i} : row[l] = committed[j][l]
      BY <2>1, <2>3, <2>4
    <2>6. committed' = [committed EXCEPT ![j] = row]
      BY <1>4, <2>2, <2>3
    <2>7. /\ committed' \in [Jobs -> [Items -> Nat]]
          /\ committed'[j] = row /\ \A k \in Jobs \ {j} : committed'[k] = committed[k]
      BY <2>5, <2>6 DEF TypeOK
    <2>8. TypeOK'
      BY <1>1, <1>2, <2>7 DEF TypeOK
    <2>9. committed' # committed
      BY <2>1, <2>2, <2>5, <2>7
    <2> QED  BY <1>2, <2>2, <2>4, <2>5, <2>7, <2>8, <2>9
  <1> QED  BY <1>3, <1>4

LEMMA ItemStepKept ==
    ASSUME IInv, NEW j \in Jobs, NEW i \in Items, ItemStep(j, i)
    PROVE  IInv'
  <1>1. TypeOK /\ Local(j) /\ UNCHANGED <<phase, count, mem, db, write, fetched, restarts, failures>>
    BY DEF IInv, ItemStep
  <1>2. CASE BeginItem(j, i)
    <2>1. PICK s : s = IF Stopped(j) THEN "stopped" ELSE "work"
      OBVIOUS
    <2>2. /\ stage[j][i] = "begin" /\ stage' = [stage EXCEPT ![j][i] = s]
          /\ worker' = worker /\ committed' = committed
      BY <1>2, <2>1 DEF BeginItem, Reach
    <2>3. s \in Stages \ {"idle"} /\ s \notin {"inserted", "ok", "error"} /\ (s = "stopped" => worker[j].stop)
      BY <2>1 DEF Stopped, Stages, Waiting, Outcomes
    <2>4. TypeOK'
      BY <1>1, <2>2, <2>3, ItemType
    <2> QED  BY <1>1, <2>2, <2>3, <2>4, ItemKept
  <1>3. CASE FinishWork(j, i)
    <2>1. PICK s \in {"stopped", "commit", "error"} :
            /\ stage[j][i] = "work" /\ stage' = [stage EXCEPT ![j][i] = s]
            /\ s = "stopped" => worker[j].stop
      BY <1>3 DEF FinishWork, Reach, Stopped
    <2>2. worker' = worker /\ committed' = committed
      BY <1>3 DEF FinishWork
    <2>3. s \in Stages \ {"idle"}
      BY <2>1 DEF Stages, Waiting, Outcomes
    <2>4. TypeOK'
      BY <1>1, <2>1, <2>2, <2>3, ItemType
    <2> QED  BY <1>1, <2>1, <2>2, <2>3, <2>4, ItemKept
  <1>4. CASE Deadline(j, i)
    <2>1. /\ stage[j][i] = "work" /\ stage' = [stage EXCEPT ![j][i] = "error"]
          /\ worker' = [worker EXCEPT ![j].stop = TRUE] /\ committed' = committed
      BY <1>4 DEF Deadline, Reach
    <2>2. "error" \in Stages \ {"idle"}
      BY DEF Stages, Waiting, Outcomes
    <2>3. /\ TypeOK'
          /\ \A k \in Jobs \ {j} : worker'[k] = worker[k] /\ committed'[k] = committed[k]
          /\ worker'[j].pc = worker[j].pc /\ worker'[j].todo = worker[j].todo
      BY <1>1, <2>1, <2>2, ItemType
    <2> QED  BY <1>1, <2>1, <2>2, <2>3, ItemKept
  <1>5. CASE EnterInsert(j, i)
    <2>1. PICK s : s = IF Stopped(j) THEN "stopped" ELSE "insert"
      OBVIOUS
    <2>2. /\ stage[j][i] = "commit" /\ stage' = [stage EXCEPT ![j][i] = s]
          /\ worker' = worker /\ committed' = committed
      BY <1>5, <2>1 DEF EnterInsert, Reach
    <2>3. s \in Stages \ {"idle"} /\ s \notin {"inserted", "ok", "error"} /\ (s = "stopped" => worker[j].stop)
      BY <2>1 DEF Stopped, Stages, Waiting, Outcomes
    <2>4. TypeOK'
      BY <1>1, <2>2, <2>3, ItemType
    <2> QED  BY <1>1, <2>2, <2>3, <2>4, ItemKept
  <1>6. CASE InsertResult(j, i)
    <2>1. stage[j][i] = "insert" /\ worker' = worker
      BY <1>6 DEF InsertResult
    <2>2. CASE stage' = [stage EXCEPT ![j][i] = "inserted"] /\ committed' = [committed EXCEPT ![j][i] = @ + 1]
      <3>0. PICK s : s = "inserted"
        OBVIOUS
      <3>1. /\ s \in Stages \ {"idle"} /\ s # "stopped"
            /\ s \notin {"begin", "work", "commit", "insert"}
        BY <3>0 DEF Stages
      <3>2. /\ TypeOK'
            /\ \A k \in Jobs \ {j} : worker'[k] = worker[k] /\ committed'[k] = committed[k]
            /\ \A l \in Items \ {i} : committed'[j][l] = committed[j][l]
            /\ committed'[j][i] = committed[j][i] + 1 /\ committed'[j][i] > 0
        BY <1>1, <2>1, <2>2, <3>0, <3>1, ItemType
      <3>3. /\ UNCHANGED <<phase, count, mem, db, write, fetched, restarts>>
            /\ stage' = [stage EXCEPT ![j][i] = s]
            /\ stage[j][i] \in {"begin", "work", "commit", "insert", "inserted"}
        BY <1>1, <2>1, <2>2, <3>0
      <3>4. /\ worker'[j].pc = worker[j].pc /\ worker'[j].todo = worker[j].todo
            /\ worker'[j].stop = worker[j].stop
        BY <2>1
      <3> QED  BY <2>1, <3>0, <3>1, <3>2, <3>3, <3>4, ItemKept DEF Inserted
    <2>3. CASE stage' = [stage EXCEPT ![j][i] = "error"] /\ committed' = committed
      <3>1. "error" \in Stages \ {"idle"}
        BY DEF Stages, Outcomes
      <3>2. TypeOK'
        BY <1>1, <2>1, <2>3, <3>1, ItemType
      <3> QED  BY <1>1, <2>1, <2>3, <3>1, <3>2, ItemKept
    <2> QED  BY <1>6, <2>2, <2>3 DEF InsertResult, Reach
  <1>7. CASE ReturnItem(j, i)
    <2>1. PICK s : s = IF Stopped(j) THEN "stopped" ELSE "ok"
      OBVIOUS
    <2>2. /\ stage[j][i] = "inserted" /\ stage' = [stage EXCEPT ![j][i] = s]
          /\ worker' = worker /\ committed' = committed
      BY <1>7, <2>1 DEF ReturnItem, Reach
    <2>3. /\ s \in Stages \ {"idle"} /\ s \in {"stopped", "ok"}
          /\ s = "stopped" => worker[j].stop
      BY <2>1 DEF Stopped, Stages, Outcomes
    <2>4. TypeOK' /\ committed'[j][i] > 0
      BY <1>1, <2>2, <2>3, ItemType DEF Local, ItemOK
    <2> QED  BY <1>1, <2>2, <2>3, <2>4, ItemKept
  <1> QED  BY <1>2, <1>3, <1>4, <1>5, <1>6, <1>7 DEF ItemStep

-----------------------------------------------------------------------------
(* The worker.                                                             *)

\* The worker of j changes the job in memory, its own place and its items.
LEMMA WorkerMoves ==
    ASSUME IInv, TypeOK', NEW j \in Jobs, worker[j].pc # "none", mem[j] # NoJob, mem'[j] # NoJob,
           UNCHANGED <<phase, count, db, fetched, committed, restarts>>, write' \in {write, NoWrite},
           \A k \in Jobs \ {j} : mem'[k] = mem[k] /\ worker'[k] = worker[k] /\ stage'[k] = stage[k],
           phase = "up" => ~Resumable(mem'[j]),
           Open(mem'[j]) => Unfinished(j),
           Backed(j, mem'[j]),
           Phases(j)', \A i \in Items : ItemOK(j, i)', Complete(j)', Ended(j)', Cancelling(j)'
    PROVE  IInv'
  <1>1. TypeOK /\ Local(j) /\ Held(j)
    BY DEF IInv
  <1>2. \A k \in Jobs : InFlight(k)' => InFlight(k) /\ write' = write
    BY DEF InFlight
  <1>3. \A k \in Jobs \ {j} : Same(k)
    BY <1>2 DEF Same
  <1>4. phase # "down"
    BY <1>1 DEF Local, Down
  <1>5. j <= count /\ j \in Nat /\ count \in Nat
    BY <1>1, BoundsType DEF Local, Numbered, Present, TypeOK, Jobs
  <1>6. ~(InFlight(j) /\ write.who = "start")
    BY <1>1 DEF Local, Phases
  <1>7. Numbered(j)'
    BY <1>1, <1>2, <1>5 DEF Local, Numbered, Present
  <1>8. Down(j)' /\ Settled(j)' /\ Writing(j)'
    BY <1>1, <1>2, <1>4, <1>6 DEF Local, Down, Settled, Writing
  <1>9. RowsBacked(j)'
    BY <1>2, <1>1 DEF Local, RowsBacked, Backed
  <1>10. Local(j)'
    BY <1>7, <1>8, <1>9 DEF Local
  <1>11. /\ Unfinished(j)' => Unfinished(j)
         /\ Present(j)' => Present(j)
    BY <1>2 DEF Unfinished, Present
  <1>12. Unfinished(j)' => Unfinished(j) /\ fetched'[j] = NoJob /\ mem'[j] # NoJob
    BY <1>1, <1>11 DEF Held
  <1> QED  BY <1>3, <1>10, <1>11, <1>12, OneJobChanges

\* The record of a job whose status becomes s.
LEMMA MemStatus ==
    ASSUME TypeOK, NEW j \in Jobs, mem[j] # NoJob, NEW s \in Statuses,
           mem' = [mem EXCEPT ![j].status = s]
    PROVE  /\ mem' \in [Jobs -> Record] /\ mem'[j] \in Job /\ mem'[j] # NoJob
           /\ mem'[j].status = s /\ mem'[j].keys = mem[j].keys
           /\ mem'[j].results = mem[j].results /\ mem'[j].errors = mem[j].errors
           /\ \A k \in Jobs \ {j} : mem'[k] = mem[k]
  <1>1. PICK r : r = [mem[j] EXCEPT !.status = s]
    OBVIOUS
  <1>2. mem[j] \in Job
    BY DEF TypeOK
  <1>3. /\ r \in Job /\ r.status = s
        /\ r.keys = mem[j].keys /\ r.results = mem[j].results /\ r.errors = mem[j].errors
    BY <1>1, <1>2, StatusSet
  <1>4. mem' = [mem EXCEPT ![j] = r]
    BY <1>1
  <1>5. mem' \in [Jobs -> Record] /\ mem'[j] = r /\ \A k \in Jobs \ {j} : mem'[k] = mem[k]
    BY <1>3, <1>4 DEF TypeOK, Record
  <1> QED  BY <1>3, <1>5, Records

\* The record of a job that fails as a whole.
LEMMA MemFailed ==
    ASSUME TypeOK, NEW j \in Jobs, mem[j] # NoJob,
           mem' = [mem EXCEPT ![j].status = "failed", ![j].errors = @ \cup {"job"}]
    PROVE  /\ mem' \in [Jobs -> Record] /\ mem'[j] \in Job /\ mem'[j] # NoJob
           /\ mem'[j].status = "failed" /\ mem'[j].keys = mem[j].keys
           /\ mem'[j].results = mem[j].results
           /\ \A k \in Jobs \ {j} : mem'[k] = mem[k]
  <1>1. PICK r : r = [mem[j] EXCEPT !.status = "failed", !.errors = @ \cup {"job"}]
    OBVIOUS
  <1>2. mem[j] \in Job
    BY DEF TypeOK
  <1>3. /\ r \in Job /\ r.status = "failed"
        /\ r.keys = mem[j].keys /\ r.results = mem[j].results
    BY <1>1, <1>2 DEF Job, Terminal
  <1>4. mem' = [mem EXCEPT ![j] = r]
    BY <1>1, Zenon
  <1>5. mem' \in [Jobs -> Record] /\ mem'[j] = r /\ \A k \in Jobs \ {j} : mem'[k] = mem[k]
    BY <1>3, <1>4 DEF TypeOK, Record
  <1> QED  BY <1>3, <1>5, Records

LEMMA WorkerPc ==
    ASSUME TypeOK, NEW j \in Jobs,
           NEW pc \in {"none", "scheduled", "begin", "open", "loop", "outcome", "abort", "drain", "end"},
           worker' = [worker EXCEPT ![j].pc = pc]
    PROVE  /\ worker' \in [Jobs -> Worker]
           /\ worker'[j].pc = pc /\ worker'[j].todo = worker[j].todo /\ worker'[j].stop = worker[j].stop
           /\ \A k \in Jobs \ {j} : worker'[k] = worker[k]
  <1>1. PICK w : w = [worker[j] EXCEPT !.pc = pc]
    OBVIOUS
  <1>2. worker[j] \in Worker
    BY DEF TypeOK
  <1>3. w \in Worker /\ w.pc = pc /\ w.todo = worker[j].todo /\ w.stop = worker[j].stop
    BY <1>1, <1>2 DEF Worker
  <1>4. worker' = [worker EXCEPT ![j] = w]
    BY <1>1
  <1> QED  BY <1>3, <1>4 DEF TypeOK

\* A job at work that is over: its worker has only to save it.
LEMMA WorkEnds ==
    ASSUME IInv, NEW j \in Jobs, worker[j].pc \in Working,
           UNCHANGED <<phase, count, db, fetched, committed, restarts>>,
           write' \in {write, NoWrite}, failures' \in Nat,
           worker' = [worker EXCEPT ![j].pc = "end"],
           mem' \in [Jobs -> Record], mem'[j] \in Job,
           mem'[j].keys = mem[j].keys, mem'[j].results = mem[j].results,
           mem'[j].status \in Terminal \cup {"interrupted"},
           mem'[j].status = "interrupted" => phase # "up",
           mem'[j].status = "completed" => mem[j].results = mem[j].keys,
           mem[j].status = "cancelling" => mem'[j].status \in {"cancelled", "failed"},
           \A k \in Jobs \ {j} : mem'[k] = mem[k] /\ stage'[k] = stage[k],
           stage' \in [Jobs -> [Items -> Stages]],
           \A i \in Items : stage'[j][i] = "idle"
    PROVE  IInv'
  <1>1. TypeOK /\ Local(j) /\ mem[j] \in Record
    BY RowTypes DEF IInv
  <1>2. InFlight(j)' => InFlight(j) /\ write' = write
    BY DEF InFlight
  <1>3. /\ worker' \in [Jobs -> Worker] /\ worker'[j].pc = "end"
        /\ \A k \in Jobs \ {j} : worker'[k] = worker[k]
    BY <1>1, WorkerPc
  <1>4. TypeOK'
    BY <1>1, <1>3 DEF TypeOK, Record
  <1>5. /\ mem[j].status \in Live /\ db[j].status \in Live
        /\ InFlight(j) => write.row.status \in Live
    BY <1>1 DEF Local, Phases, AtWork
  <1>6. worker[j].pc # "none" /\ mem[j] # NoJob /\ mem'[j] # NoJob
    BY <1>5, Records DEF Working, Draining, Live
  <1>7. phase = "up" => ~Resumable(mem'[j])
    BY DEF Resumable, Terminal
  <1>8. Unfinished(j)
    BY <1>5 DEF Unfinished, Open
  <1>9. Backed(j, mem'[j])
    BY <1>1, <1>6 DEF Local, RowsBacked, Backed
  <1>10. Phases(j)'
    BY <1>2, <1>1, <1>3, <1>5, <1>6 DEF Local, Phases, Scheduled, AtWork, Over, Working, Draining, Live
  <1>11. \A i \in Items : ItemOK(j, i)'
    BY <1>1, <1>3 DEF Local, ItemOK, Fresh, Working, Draining
  <1>12. Complete(j)'
    BY <1>3 DEF Complete
  <1>13. Ended(j)'
    BY <1>2, <1>1, <1>5 DEF Local, Ended, Live, Terminal
  <1>14. Cancelling(j)'
    BY <1>2, <1>1, <1>5 DEF Local, Cancelling, Live, Stops
  <1> QED  BY <1>3, <1>4, <1>6, <1>7, <1>8, <1>9, <1>10, <1>11, <1>12, <1>13, <1>14, WorkerMoves

LEMMA StartWorkerKept ==
    ASSUME IInv, NEW j \in Jobs, StartWorker(j)
    PROVE  IInv'
  <1>1. /\ TypeOK /\ Local(j) /\ Held(j) /\ mem[j] \in Record /\ db[j] \in Record
        /\ worker[j].pc = "scheduled"
        /\ UNCHANGED <<phase, count, db, write, stage, committed, fetched, restarts, failures>>
    BY RowTypes DEF IInv, StartWorker
  <1>2. /\ phase = "up" /\ db[j].status \in {"running", "cancelled"}
        /\ mem[j].status \in {"absent", "running", "cancelled"}
        /\ InFlight(j) => write.row.status = "cancelled"
        /\ ~(InFlight(j) /\ write.who = "start")
        /\ \A i \in Items : stage[j][i] = "idle" /\ committed[j][i] <= restarts
        /\ fetched[j].status \in {"absent", "cancelled"}
    BY <1>1 DEF Local, Phases, Scheduled, Draining
  <1>3. CASE mem[j] = NoJob /\ worker' = [worker EXCEPT ![j] = NoWorker] /\ mem' = mem
    <2>1. /\ worker' \in [Jobs -> Worker] /\ worker'[j].pc = "none"
          /\ \A k \in Jobs \ {j} : worker'[k] = worker[k]
      BY <1>1, <1>3 DEF TypeOK, Worker, NoWorker
    <2>2. TypeOK' /\ \A k \in Jobs \ {j} : Same(k)
      BY <1>1, <1>3, <2>1 DEF TypeOK, Same, InFlight
    <2>3. Numbered(j)' /\ Down(j)' /\ Settled(j)' /\ Writing(j)'
      BY <1>1, <1>2, <1>3, <2>1 DEF Local, Numbered, Down, Settled, Writing, InFlight, Present
    <2>4. Phases(j)' /\ RowsBacked(j)' /\ Complete(j)'
      BY <1>1, <1>2, <1>3, <2>1 DEF Local, Phases, Scheduled, AtWork, Over, Working, Draining,
                                    RowsBacked, Backed, Complete, InFlight
    <2>5. \A i \in Items : ItemOK(j, i)'
      BY <1>1, <1>2, <1>3, <2>1 DEF Local, ItemOK, Fresh, Working, Draining
    <2>6. Ended(j)' /\ Cancelling(j)'
      BY <1>1, <1>3 DEF Local, Ended, Cancelling, InFlight
    <2>7. /\ Unfinished(j)' => Unfinished(j) /\ fetched'[j] = NoJob /\ mem'[j] # NoJob
          /\ Present(j)' => Present(j)
      BY <1>1, <1>2, <1>3 DEF Unfinished, Present, Held, InFlight
    <2>8. Local(j)'
      BY <2>3, <2>4, <2>5, <2>6 DEF Local
    <2> QED  BY <1>1, <2>2, <2>7, <2>8, OneJobChanges
  <1>4. CASE /\ mem[j] # NoJob /\ mem[j].status \in {"cancelled", "cancelling"}
             /\ mem' = [mem EXCEPT ![j].status = "cancelled"]
             /\ worker' = [worker EXCEPT ![j].pc = "end"]
    <2>1. /\ mem' \in [Jobs -> Record] /\ mem'[j] \in Job /\ mem'[j] # NoJob
          /\ mem'[j].status = "cancelled" /\ mem'[j].keys = mem[j].keys
          /\ mem'[j].results = mem[j].results
          /\ \A k \in Jobs \ {j} : mem'[k] = mem[k]
      BY <1>1, <1>4, MemStatus DEF Statuses, Terminal
    <2>2. /\ worker' \in [Jobs -> Worker] /\ worker'[j].pc = "end"
          /\ \A k \in Jobs \ {j} : worker'[k] = worker[k]
      BY <1>1, <1>4, WorkerPc
    <2>3. TypeOK'
      BY <1>1, <2>1, <2>2 DEF TypeOK, Record
    <2>4. ~Open(mem'[j]) /\ ~Resumable(mem'[j])
      BY <2>1 DEF Open, Resumable, Live
    <2>5. Backed(j, mem'[j])
      BY <1>1, <1>4, <2>1 DEF Local, RowsBacked, Backed
    <2>6. Phases(j)' /\ Complete(j)'
      BY <1>1, <1>2, <2>1, <2>2 DEF Phases, Scheduled, AtWork, Over, Working, Draining, Complete,
                                    InFlight, Live, Terminal
    <2>7. \A i \in Items : ItemOK(j, i)'
      BY <1>1, <1>2, <2>2 DEF Local, ItemOK, Fresh, Working, Draining
    <2>8. Ended(j)' /\ Cancelling(j)'
      BY <1>1, <1>2, <2>1 DEF Local, Ended, Cancelling, InFlight, Agrees, Terminal
    <2> QED  BY <1>1, <1>4, <2>1, <2>2, <2>3, <2>4, <2>5, <2>6, <2>7, <2>8, WorkerMoves
  <1>5. CASE /\ mem[j] # NoJob /\ mem[j].status \notin {"cancelled", "cancelling"}
             /\ mem' = [mem EXCEPT ![j].status = "running", ![j].errors = {}]
             /\ worker' = [worker EXCEPT ![j] =
                   [pc |-> "begin", todo |-> Remaining(mem[j]), stop |-> FALSE]]
    <2>1. PICK r : r = [mem[j] EXCEPT !.status = "running", !.errors = {}]
      OBVIOUS
    <2>2. /\ mem[j].status = "running" /\ db[j].status = "running" /\ ~InFlight(j)
          /\ db[j].results \subseteq mem[j].results /\ mem[j] \in Job
      BY <1>1, <1>2, <1>5, Records DEF Local, Phases, Scheduled, Record
    <2>3. /\ r \in Job /\ r.status = "running" /\ r.errors = {}
          /\ r.keys = mem[j].keys /\ r.results = mem[j].results
      BY <2>1, <2>2 DEF Job, Live
    <2>4. mem' = [mem EXCEPT ![j] = r]
      BY <1>5, <2>1, Zenon
    <2>5. /\ mem' \in [Jobs -> Record] /\ mem'[j] = r /\ r # NoJob
          /\ \A k \in Jobs \ {j} : mem'[k] = mem[k]
      BY <1>1, <2>3, <2>4, Records DEF TypeOK, Record
    <2>6. /\ worker' \in [Jobs -> Worker]
          /\ worker'[j].pc = "begin" /\ worker'[j].todo = mem[j].keys \ mem[j].results
          /\ ~worker'[j].stop
          /\ \A k \in Jobs \ {j} : worker'[k] = worker[k]
      BY <1>1, <1>5, <2>2, Records DEF TypeOK, Worker, Remaining
    <2>7. TypeOK'
      BY <1>1, <2>5, <2>6 DEF TypeOK, Record
    <2>8. Unfinished(j) /\ ~Resumable(mem'[j])
      BY <2>2, <2>3, <2>5 DEF Unfinished, Open, Resumable, Live
    <2>9. Backed(j, mem'[j])
      BY <1>1, <1>5, <2>3, <2>5 DEF Local, RowsBacked, Backed
    <2>10. Phases(j)'
      BY <1>1, <1>2, <2>2, <2>3, <2>5, <2>6
         DEF Phases, Scheduled, AtWork, Over, Working, Draining, InFlight, Live
    <2>11. \A i \in Items : ItemOK(j, i)'
      BY <1>1, <1>2, <2>3, <2>5, <2>6 DEF Local, ItemOK, Fresh, Working
    <2>12. Complete(j)'
      BY <2>3, <2>5, <2>6 DEF Complete
    <2>13. Ended(j)' /\ Cancelling(j)'
      BY <1>1, <2>2 DEF Local, Ended, Cancelling, InFlight, Terminal
    <2> QED  BY <1>1, <1>5, <2>5, <2>6, <2>7, <2>8, <2>9, <2>10, <2>11, <2>12, <2>13, WorkerMoves
  <1> QED  BY <1>3, <1>4, <1>5 DEF StartWorker

LEMMA OpenLibraryKept ==
    ASSUME IInv, NEW j \in Jobs, OpenLibrary(j)
    PROVE  IInv'
  <1>1. /\ TypeOK /\ Local(j) /\ mem[j] \in Record
        /\ worker[j].pc = "open"
        /\ UNCHANGED <<phase, count, db, write, stage, committed, fetched, restarts, failures>>
    BY RowTypes DEF IInv, OpenLibrary
  <1>2. /\ mem[j].status \in Live /\ mem[j] # NoJob
        /\ \A i \in Items : stage[j][i] = "idle"
    BY <1>1, Records DEF Local, Phases, AtWork, Working, Draining, Live
  <1>3. CASE worker' = [worker EXCEPT ![j].pc = "loop"] /\ mem' = mem
    <2>1. /\ worker' \in [Jobs -> Worker] /\ worker'[j].pc = "loop"
          /\ worker'[j].todo = worker[j].todo /\ worker'[j].stop = worker[j].stop
          /\ \A k \in Jobs \ {j} : worker'[k] = worker[k]
      BY <1>1, <1>3, WorkerPc
    <2>2. TypeOK'
      BY <1>1, <1>3, <2>1 DEF TypeOK
    <2>3. (phase = "up" => ~Resumable(mem[j])) /\ Backed(j, mem[j]) /\ Unfinished(j)
      BY <1>1, <1>2 DEF Local, Settled, RowsBacked, Unfinished, Open
    <2>4. Phases(j)'
      BY <1>1, <1>2, <1>3, <2>1 DEF Local, Phases, Scheduled, AtWork, Over, Working, Draining, InFlight
    <2>5. \A i \in Items : ItemOK(j, i)'
      BY <1>1, <1>3, <2>1 DEF Local, ItemOK, Fresh, Working, Draining
    <2>6. Complete(j)'
      BY <1>1, <1>3, <2>1 DEF Local, Complete
    <2>7. Ended(j)' /\ Cancelling(j)'
      BY <1>1, <1>3 DEF Local, Ended, Cancelling, InFlight
    <2> QED  BY <1>1, <1>2, <1>3, <2>1, <2>2, <2>3, <2>4, <2>5, <2>6, <2>7, WorkerMoves
  <1>4. CASE /\ worker' = [worker EXCEPT ![j].pc = "end"]
             /\ mem' = [mem EXCEPT ![j].status = "failed", ![j].errors = @ \cup {"job"}]
    <2>1. /\ mem' \in [Jobs -> Record] /\ mem'[j] \in Job
          /\ mem'[j].status = "failed" /\ mem'[j].keys = mem[j].keys
          /\ mem'[j].results = mem[j].results
          /\ \A k \in Jobs \ {j} : mem'[k] = mem[k]
      BY <1>1, <1>2, <1>4, MemFailed
    <2>2. worker[j].pc \in Working /\ mem'[j].status \in Terminal
      BY <1>1, <2>1 DEF Working, Terminal
    <2>3. stage' \in [Jobs -> [Items -> Stages]] /\ failures' \in Nat
      BY <1>1 DEF TypeOK
    <2> QED  BY <1>1, <1>2, <1>4, <2>1, <2>2, <2>3, WorkEnds
  <1> QED  BY <1>3, <1>4 DEF OpenLibrary

LEMMA StartBatchKept ==
    ASSUME IInv, NEW j \in Jobs, StartBatch(j)
    PROVE  IInv'
  <1>1. PICK B \in SUBSET worker[j].todo :
          /\ stage' = [stage EXCEPT ![j] = [i \in Items |-> IF i \in B THEN "begin" ELSE "idle"]]
          /\ worker' = [worker EXCEPT ![j].todo = @ \ B]
    BY DEF StartBatch
  <1>2. /\ TypeOK /\ Local(j) /\ mem[j] \in Record
        /\ worker[j].pc = "loop" /\ stage[j] = AllIdle /\ ~worker[j].stop
        /\ UNCHANGED <<phase, count, mem, db, write, committed, fetched, restarts, failures>>
    BY RowTypes DEF IInv, StartBatch
  <1>3. /\ mem[j].status \in Live /\ mem[j] # NoJob
        /\ \A i \in Items : stage[j][i] = "idle"
    BY <1>2, Records DEF Local, Phases, AtWork, Working, Draining, Live, AllIdle
  <1>4. /\ worker' \in [Jobs -> Worker]
        /\ worker'[j].pc = "loop" /\ worker'[j].todo = worker[j].todo \ B /\ ~worker'[j].stop
        /\ \A k \in Jobs \ {j} : worker'[k] = worker[k]
    <2>1. PICK w : w = [worker[j] EXCEPT !.todo = @ \ B]
      OBVIOUS
    <2>2. w \in Worker /\ w.pc = "loop" /\ w.todo = worker[j].todo \ B /\ ~w.stop
      BY <1>2, <2>1 DEF TypeOK, Worker
    <2>3. worker' = [worker EXCEPT ![j] = w]
      BY <1>1, <2>1
    <2> QED  BY <1>2, <2>2, <2>3 DEF TypeOK
  <1>5. /\ stage' \in [Jobs -> [Items -> Stages]]
        /\ \A i \in Items : stage'[j][i] = IF i \in B THEN "begin" ELSE "idle"
        /\ \A k \in Jobs \ {j} : stage'[k] = stage[k]
    BY <1>1, <1>2 DEF TypeOK, Stages
  <1>6. TypeOK'
    BY <1>2, <1>4, <1>5 DEF TypeOK
  <1>7. (phase = "up" => ~Resumable(mem[j])) /\ Backed(j, mem[j]) /\ Unfinished(j)
    BY <1>2, <1>3 DEF Local, Settled, RowsBacked, Unfinished, Open
  <1>8. Phases(j)'
    BY <1>2, <1>4 DEF Local, Phases, Scheduled, AtWork, Over, Working, Draining, InFlight
  <1>9. \A i \in Items : ItemOK(j, i)'
    BY <1>2, <1>3, <1>4, <1>5 DEF Local, ItemOK, Fresh, Working, Draining
  <1>10. Complete(j)'
    BY <1>2, <1>3, <1>4, <1>5, <1>7 DEF Local, Complete, Backed, Record, Job
  <1>11. Ended(j)' /\ Cancelling(j)'
    BY <1>2 DEF Local, Ended, Cancelling, InFlight
  <1> QED  BY <1>2, <1>3, <1>4, <1>5, <1>6, <1>7, <1>8, <1>9, <1>10, <1>11, WorkerMoves

LEMMA RecordOutcomeKept ==
    ASSUME IInv, NEW j \in Jobs, NEW i \in Items, RecordOutcome(j, i)
    PROVE  IInv'
  <1>1. PICK r : r = Recorded(mem[j], i, stage[j][i])
    OBVIOUS
  <1>2. /\ TypeOK /\ Local(j) /\ mem[j] \in Record
        /\ worker[j].pc = "loop" /\ stage[j][i] \in Outcomes
        /\ mem' = [mem EXCEPT ![j] = r]
        /\ stage' = [stage EXCEPT ![j][i] = "idle"]
        /\ worker' = [worker EXCEPT ![j].pc = "outcome"]
        /\ UNCHANGED <<phase, count, db, write, committed, fetched, restarts, failures>>
    BY <1>1, RowTypes DEF IInv, RecordOutcome
  <1>3. mem[j].status \in Live /\ mem[j] \in Job /\ mem[j] # NoJob
    BY <1>2, Records DEF Local, Phases, AtWork, Working, Draining, Live, Record
  <1>4. /\ r \in Job /\ r.status = mem[j].status /\ r.keys = mem[j].keys
        /\ \/ r.results = mem[j].results
           \/ r.results = mem[j].results \cup {i} /\ stage[j][i] = "ok"
        /\ mem[j].errors \subseteq r.errors
        /\ mem[j].status = "running" /\ stage[j][i] = "ok" => i \in r.results
        /\ mem[j].status = "running" /\ stage[j][i] = "error" => r.errors # {}
    <2>1. CASE mem[j].status = "cancelling" \/ stage[j][i] = "stopped"
      <3>1. r = mem[j]
        BY <1>1, <2>1 DEF Recorded
      <3> QED  BY <1>3, <2>1, <3>1
    <2>2. CASE mem[j].status = "running" /\ stage[j][i] = "ok"
      <3>1. r = [mem[j] EXCEPT !.results = @ \cup {i}]
        BY <1>1, <2>2 DEF Recorded
      <3> QED  BY <1>3, <2>2, <3>1 DEF Job
    <2>3. CASE mem[j].status = "running" /\ stage[j][i] = "error"
      <3>1. r = [mem[j] EXCEPT !.errors = @ \cup {i}]
        BY <1>1, <2>3 DEF Recorded
      <3> QED  BY <1>3, <2>3, <3>1 DEF Job
    <2> QED  BY <1>2, <1>3, <2>1, <2>2, <2>3 DEF Outcomes, Live
  <1>5. /\ mem' \in [Jobs -> Record] /\ mem'[j] = r /\ r # NoJob
        /\ \A k \in Jobs \ {j} : mem'[k] = mem[k]
    BY <1>2, <1>4, Records DEF TypeOK, Record
  <1>6. /\ worker' \in [Jobs -> Worker] /\ worker'[j].pc = "outcome"
        /\ worker'[j].todo = worker[j].todo /\ worker'[j].stop = worker[j].stop
        /\ \A k \in Jobs \ {j} : worker'[k] = worker[k]
    BY <1>2, WorkerPc
  <1>7. /\ stage' \in [Jobs -> [Items -> Stages]]
        /\ stage'[j][i] = "idle" /\ \A l \in Items \ {i} : stage'[j][l] = stage[j][l]
        /\ \A k \in Jobs \ {j} : stage'[k] = stage[k]
    BY <1>2 DEF TypeOK, Stages
  <1>8. TypeOK'
    BY <1>2, <1>5, <1>6, <1>7 DEF TypeOK, Record
  <1>9. ~Resumable(r) /\ Unfinished(j)
    BY <1>3, <1>4 DEF Unfinished, Open, Resumable, Live
  <1>10. /\ ItemOK(j, i) /\ i \in mem[j].keys \ mem[j].results /\ i \notin worker[j].todo
         /\ stage[j][i] = "ok" => committed[j][i] > 0
    BY <1>2 DEF Local, ItemOK, Outcomes
  <1>11. Backed(j, r)
    BY <1>2, <1>3, <1>4, <1>10 DEF Local, RowsBacked, Backed, Live
  <1>12. Phases(j)'
    BY <1>2, <1>4, <1>5, <1>6, <1>7 DEF Local, Phases, Scheduled, AtWork, Over, Working, Draining, InFlight
  <1>13. ASSUME NEW l \in Items
         PROVE  ItemOK(j, l)'
    <2>1. CASE l = i
      BY <1>2, <1>6, <1>7, <1>10, <2>1 DEF ItemOK, Fresh
    <2>2. CASE l # i
      BY <1>2, <1>4, <1>5, <1>6, <1>7, <2>2 DEF Local, ItemOK, Fresh, Working, Draining
    <2> QED  BY <2>1, <2>2
  <1>14. Complete(j)'
    <2> SUFFICES ASSUME r.status = "running", r.errors = {}, \A l \in Items : stage'[j][l] # "error"
                 PROVE  /\ ~worker[j].stop
                        /\ \A l \in r.keys : \/ l \in r.results \/ l \in worker[j].todo
                                             \/ stage'[j][l] \notin {"idle", "stopped", "error"}
      BY <1>5, <1>6 DEF Complete
    <2>1. mem[j].status = "running" /\ mem[j].errors = {} /\ stage[j][i] # "error"
      BY <1>4
    <2>2. \A l \in Items : stage[j][l] # "error"
      BY <1>7, <2>1
    <2>3. /\ ~worker[j].stop
          /\ \A l \in mem[j].keys : \/ l \in mem[j].results \/ l \in worker[j].todo
                                    \/ stage[j][l] \notin {"idle", "stopped", "error"}
      BY <1>2, <2>1, <2>2 DEF Local, Complete
    <2>4. stage[j][i] = "ok"
      BY <1>2, <1>10, <2>3 DEF Outcomes
    <2>5. mem[j].keys \subseteq Items
      BY <1>3 DEF Job
    <2> QED  BY <1>4, <1>7, <2>1, <2>3, <2>4, <2>5
  <1>15. Ended(j)' /\ Cancelling(j)'
    BY <1>2, <1>3, <1>4, <1>5 DEF Local, Ended, Cancelling, InFlight, Agrees
  <1> QED  BY <1>2, <1>3, <1>5, <1>6, <1>7, <1>8, <1>9, <1>11, <1>12, <1>13, <1>14, <1>15, WorkerMoves

LEMMA FinishLoopKept ==
    ASSUME IInv, NEW j \in Jobs, FinishLoop(j)
    PROVE  IInv'
  <1>1. PICK s : s = FinalStatus(mem[j])
    OBVIOUS
  <1>2. /\ TypeOK /\ Local(j) /\ mem[j] \in Record
        /\ worker[j].pc = "loop" /\ stage[j] = AllIdle /\ (worker[j].todo = {} \/ worker[j].stop)
        /\ mem' = [mem EXCEPT ![j].status = s]
        /\ worker' = [worker EXCEPT ![j].pc = "end"]
        /\ UNCHANGED <<phase, count, db, write, stage, committed, fetched, restarts, failures>>
    BY <1>1, RowTypes DEF IInv, FinishLoop
  <1>3. /\ mem[j].status \in Live /\ mem[j] # NoJob /\ worker[j].pc \in Working
        /\ \A i \in Items : stage[j][i] = "idle"
    BY <1>2, Records DEF Local, Phases, AtWork, Working, Draining, Live, AllIdle
  <1>4. /\ s \in Terminal /\ (mem[j].status = "cancelling" => s = "cancelled")
        /\ s = "completed" => mem[j].status = "running" /\ mem[j].errors = {}
    BY <1>1, <1>3 DEF FinalStatus, Live, Terminal
  <1>5. s = "completed" => mem[j].results = mem[j].keys
    BY <1>2, <1>3, <1>4 DEF Local, Complete, RowsBacked, Backed, Record, Job
  <1>6. /\ mem' \in [Jobs -> Record] /\ mem'[j] \in Job
        /\ mem'[j].status = s /\ mem'[j].keys = mem[j].keys
        /\ mem'[j].results = mem[j].results
        /\ \A k \in Jobs \ {j} : mem'[k] = mem[k]
    BY <1>2, <1>3, <1>4, MemStatus DEF Statuses
  <1>7. stage' \in [Jobs -> [Items -> Stages]] /\ failures' \in Nat
    BY <1>2 DEF TypeOK
  <1>8. s # "interrupted"
    BY <1>4 DEF Terminal
  <1> QED  BY <1>2, <1>3, <1>4, <1>5, <1>6, <1>7, <1>8, WorkEnds

LEMMA FinishDrainKept ==
    ASSUME IInv, NEW j \in Jobs, FinishDrain(j)
    PROVE  IInv'
  <1>1. /\ TypeOK /\ Local(j) /\ mem[j] \in Record
        /\ worker[j].pc \in {"abort", "drain"}
        /\ stage' = [stage EXCEPT ![j] = AllIdle]
        /\ worker' = [worker EXCEPT ![j].pc = "end"]
        /\ UNCHANGED <<phase, count, db, write, committed, fetched, restarts, failures>>
    BY RowTypes DEF IInv, FinishDrain
  <1>2. mem[j].status \in Live /\ mem[j] # NoJob /\ worker[j].pc \in Working
    BY <1>1, Records DEF Local, Phases, AtWork, Working, Draining, Live
  <1>3. /\ stage' \in [Jobs -> [Items -> Stages]] /\ failures' \in Nat
        /\ \A i \in Items : stage'[j][i] = "idle"
        /\ \A k \in Jobs \ {j} : stage'[k] = stage[k]
    BY <1>1 DEF TypeOK, AllIdle, Stages
  <1>4. CASE worker[j].pc = "abort"
    <2>1. mem' = [mem EXCEPT ![j].status = "failed", ![j].errors = @ \cup {"job"}]
      BY <1>4 DEF FinishDrain
    <2>2. /\ mem' \in [Jobs -> Record] /\ mem'[j] \in Job
          /\ mem'[j].status = "failed" /\ mem'[j].keys = mem[j].keys
          /\ mem'[j].results = mem[j].results
          /\ \A k \in Jobs \ {j} : mem'[k] = mem[k]
      BY <1>1, <1>2, <2>1, MemFailed
    <2>3. mem'[j].status \in Terminal
      BY <2>2 DEF Terminal
    <2> QED  BY <1>1, <1>2, <1>3, <2>2, <2>3, WorkEnds
  <1>5. CASE worker[j].pc = "drain"
    <2>1. PICK s : s = IF mem[j].status = "cancelling" THEN "cancelled" ELSE "interrupted"
      OBVIOUS
    <2>2. mem' = [mem EXCEPT ![j].status = s]
      BY <1>5, <2>1 DEF FinishDrain
    <2>3. s \in Terminal \cup {"interrupted"} /\ s \in Statuses /\ s # "completed"
      BY <2>1 DEF Statuses, Terminal
    <2>4. /\ mem' \in [Jobs -> Record] /\ mem'[j] \in Job
          /\ mem'[j].status = s /\ mem'[j].keys = mem[j].keys
          /\ mem'[j].results = mem[j].results
          /\ \A k \in Jobs \ {j} : mem'[k] = mem[k]
      BY <1>1, <1>2, <2>2, <2>3, MemStatus
    <2>5. phase = "stopping"
      BY <1>1, <1>5 DEF Local, Phases
    <2> QED  BY <1>1, <1>2, <1>3, <2>1, <2>3, <2>4, <2>5, WorkEnds
  <1> QED  BY <1>1, <1>4, <1>5

-----------------------------------------------------------------------------
(* Writing the record of a job.                                            *)

\* A step that leaves every job as it is, but for evicted ones.
LEMMA AllSame ==
    ASSUME IInv, TypeOK', UNCHANGED <<phase, count, restarts>>, \A k \in Jobs : Same(k)
    PROVE  IInv'
  <1>1. count' \in Nat /\ count' >= count
    BY DEF IInv, TypeOK
  <1>2. \A k \in Jobs :
          /\ Local(k)'
          /\ Unfinished(k)' => Unfinished(k) /\ fetched'[k] = NoJob /\ (phase' # "down" => mem'[k] # NoJob)
          /\ Present(k)' => Present(k)
    BY <1>1, Untouched
  <1>3. Exclusive' /\ \A k \in Jobs : Held(k)'
    <2>1. /\ \A k \in Jobs : Unfinished(k)' => /\ Unfinished(k) /\ fetched'[k] = NoJob
                                               /\ phase' # "down" => mem'[k] # NoJob
          /\ \A k \in Jobs : Present(k)' => Present(k)
      BY <1>2
    <2> QED  BY <2>1, OpenKept
  <1> QED  BY <1>2, <1>3 DEF IInv

LEMMA SaveJobKept ==
    ASSUME IInv, NEW j \in Jobs, SaveJob(j)
    PROVE  IInv'
  <1>1. /\ TypeOK /\ Local(j) /\ Held(j) /\ mem[j] \in Record /\ db[j] \in Record
        /\ worker[j].pc \in {"begin", "outcome", "end"} /\ write = NoWrite
        /\ write' = [who |-> "worker", job |-> j, row |-> mem[j]]
        /\ UNCHANGED <<phase, count, mem, db, worker, stage, committed, fetched, restarts, failures>>
    BY RowTypes DEF IInv, SaveJob, LockFree
  <1>2. mem[j].status \in Live \cup Terminal \cup {"interrupted"}
    BY <1>1 DEF Local, Phases, AtWork, Over, Working, Draining
  <1>3. mem[j] \in Job /\ mem[j] # NoJob
    BY <1>1, <1>2, Records DEF Record, Live, Terminal
  <1>4. TypeOK'
    BY <1>1, <1>3 DEF TypeOK, Write
  <1>5. InFlight(j)' /\ write'.row = mem[j] /\ write'.who = "worker" /\ ~InFlight(j)
    BY <1>1 DEF InFlight, NoWrite
  <1>6. \A k \in Jobs \ {j} : Same(k)
    BY <1>1 DEF Same, InFlight
  <1>7. phase # "down" /\ j <= count
    BY <1>1, <1>3 DEF Local, Down, Numbered, Present
  <1>8. Numbered(j)' /\ Down(j)' /\ Settled(j)' /\ Writing(j)'
    <2>1. Numbered(j)' /\ Down(j)'
      BY <1>1, <1>7 DEF Local, Numbered, Down, Present
    <2>2. Settled(j)' /\ Writing(j)'
      BY <1>1, <1>5 DEF Local, Settled, Writing
    <2> QED  BY <2>1, <2>2
  <1>9. Phases(j)'
    BY <1>1, <1>5 DEF Local, Phases, Scheduled, AtWork, Over
  <1>10. RowsBacked(j)' /\ Complete(j)'
    BY <1>1, <1>5 DEF Local, RowsBacked, Backed, Complete
  <1>11. \A i \in Items : ItemOK(j, i)'
    BY <1>1 DEF Local, ItemOK, Fresh
  <1>12. Ended(j)' /\ Cancelling(j)'
    <2>1. db[j].status \in Live \cup {"cancelled"} /\ (db[j].status = "cancelled" => mem[j].status = "cancelled")
      BY <1>1 DEF Local, Phases, AtWork, Over, Working, Draining, Live
    <2>2. Ended(j)'
      BY <1>1, <1>5, <2>1 DEF Local, Ended, Agrees, Live, Terminal
    <2>3. Cancelling(j)'
      BY <1>1, <1>5, <1>7 DEF Local, Cancelling, Stops
    <2> QED  BY <2>2, <2>3
  <1>13. Local(j)'
    BY <1>8, <1>9, <1>10, <1>11, <1>12 DEF Local
  <1>14. Unfinished(j)' => Unfinished(j)
    BY <1>1, <1>5 DEF Unfinished
  <1>15. Unfinished(j)' => Unfinished(j) /\ fetched'[j] = NoJob /\ mem'[j] # NoJob
    BY <1>1, <1>3, <1>14 DEF Held
  <1>16. Present(j)' => Present(j)
    BY <1>3 DEF Present
  <1> QED  BY <1>1, <1>4, <1>6, <1>13, <1>15, <1>16, OneJobChanges

LEMMA WriteDoneKept ==
    ASSUME IInv, WriteDone
    PROVE  IInv'
  <1>1. PICK j : j = write.job
    OBVIOUS
  <1>2. /\ write # NoWrite /\ db' = [db EXCEPT ![j] = write.row] /\ write' = NoWrite
        /\ worker' = CASE write.who = "start" /\ phase = "up" ->
                            [worker EXCEPT ![j].pc = "scheduled"]
                     [] write.who = "worker" ->
                            [worker EXCEPT ![j].pc = AfterSave(@)]
                     [] OTHER -> worker
        /\ UNCHANGED <<phase, count, mem, stage, committed, fetched, restarts, failures>>
    BY <1>1 DEF WriteDone
  <1>3. TypeOK /\ write \in Write /\ j \in Jobs
    BY <1>1, <1>2 DEF IInv, TypeOK, Write
  <1>4. PICK r : r = write.row
    OBVIOUS
  <1>5. /\ Local(j) /\ Held(j) /\ InFlight(j) /\ r \in Job /\ r # NoJob
        /\ mem[j] \in Record /\ db[j] \in Record /\ worker[j] \in Worker
    BY <1>1, <1>2, <1>3, <1>4, RowTypes, Records DEF IInv, InFlight
  <1>6. /\ db' \in [Jobs -> Record] /\ db'[j] = r /\ \A k \in Jobs \ {j} : db'[k] = db[k]
        /\ \A k \in Jobs : ~InFlight(k)'
    BY <1>2, <1>3, <1>4, <1>5 DEF TypeOK, Record, InFlight
  <1>7. /\ AfterSave("begin") = "open" /\ AfterSave("outcome") = "loop" /\ AfterSave("end") = "none"
        /\ \A pc : pc \notin {"begin", "outcome", "end"} => AfterSave(pc) = pc
    BY DEF AfterSave
  <1>8. /\ worker' \in [Jobs -> Worker] /\ \A k \in Jobs \ {j} : worker'[k] = worker[k]
        /\ worker'[j].todo = worker[j].todo /\ worker'[j].stop = worker[j].stop
        /\ \/ write.who = "start" /\ phase = "up" /\ worker'[j].pc = "scheduled"
           \/ write.who = "worker" /\ worker'[j].pc = AfterSave(worker[j].pc)
           \/ /\ write.who # "worker" /\ ~(write.who = "start" /\ phase = "up")
              /\ worker'[j].pc = worker[j].pc
    <2>1. CASE write.who = "start" /\ phase = "up"
      <3>1. worker' = [worker EXCEPT ![j].pc = "scheduled"]
        BY <1>2, <2>1
      <3> QED  BY <1>3, <2>1, <3>1, WorkerPc
    <2>2. CASE write.who = "worker"
      <3>1. PICK pc : pc = AfterSave(worker[j].pc)
        OBVIOUS
      <3>2. worker' = [worker EXCEPT ![j].pc = pc]
        BY <1>2, <2>2, <3>1
      <3>3. pc \in {"none", "scheduled", "begin", "open", "loop", "outcome", "abort", "drain", "end"}
        BY <1>5, <1>7, <3>1 DEF Worker
      <3> QED  BY <1>3, <2>2, <3>1, <3>2, <3>3, WorkerPc
    <2>3. CASE write.who # "worker" /\ ~(write.who = "start" /\ phase = "up")
      BY <1>2, <1>3, <2>3 DEF TypeOK
    <2> QED  BY <2>1, <2>2, <2>3
  <1>9. TypeOK'
    BY <1>2, <1>3, <1>6, <1>8 DEF TypeOK, Record
  <1>10. \A k \in Jobs \ {j} : Same(k)
    BY <1>2, <1>6, <1>8 DEF Same
  <1>11. phase # "down" /\ j <= count
    BY <1>5 DEF Local, Down, Numbered, Present
  <1>12. Numbered(j)' /\ Down(j)' /\ Settled(j)' /\ Writing(j)'
    <2>1. Numbered(j)'
      <3>1. j \in Nat /\ count \in Nat
        BY <1>3, BoundsType DEF Jobs, TypeOK
      <3> QED  BY <1>2, <1>5, <1>6, <1>11, <3>1 DEF Local, Numbered
    <2>2. Down(j)' /\ Settled(j)' /\ Writing(j)'
      BY <1>2, <1>4, <1>5, <1>6, <1>11 DEF Local, Down, Settled, Writing
    <2> QED  BY <2>1, <2>2
  <1>13. RowsBacked(j)'
    BY <1>2, <1>4, <1>5, <1>6 DEF Local, RowsBacked, Backed
  <1>14. Ended(j)' /\ Cancelling(j)'
    <2>1. Ended(j)'
      BY <1>2, <1>4, <1>5, <1>6 DEF Local, Ended, Terminal
    <2>2. Cancelling(j)'
      BY <1>2, <1>4, <1>5, <1>6 DEF Local, Cancelling
    <2> QED  BY <2>1, <2>2
  <1>15. Phases(j)' /\ Complete(j)' /\ \A i \in Items : ItemOK(j, i)'
    <2>1. CASE write.who = "start" /\ phase = "up" /\ worker'[j].pc = "scheduled"
      <3>1. /\ worker[j].pc = "none" /\ mem[j].status = "running" /\ r.status = "running"
            /\ r.results = {} /\ \A i \in Items : committed[j][i] = 0
        BY <1>4, <1>5, <2>1 DEF Local, Writing
      <3>2. fetched[j] = NoJob
        BY <1>4, <1>5, <3>1 DEF Held, Unfinished, Open, Live
      <3>3. restarts \in Nat /\ \A i \in Items : stage[j][i] = "idle"
        BY <1>3, <1>5, <3>1 DEF TypeOK, Local, Phases, Draining
      <3>4. Phases(j)'
        BY <1>2, <1>6, <2>1, <3>1, <3>2, <3>3, Records
           DEF Phases, Scheduled, AtWork, Over, Working, Draining
      <3>5. Complete(j)' /\ \A i \in Items : ItemOK(j, i)'
        BY <1>2, <2>1, <3>1, <3>3 DEF Complete, ItemOK, Fresh, Working, Draining
      <3> QED  BY <3>4, <3>5
    <2>2. CASE worker'[j].pc = worker[j].pc /\ (worker[j].pc = "end" => write.who # "worker")
      <3>1. Phases(j)'
        <4>1. worker[j].pc = "end" => r.status \in {"cancelling", "cancelled"}
          BY <1>3, <1>4, <1>5, <2>2 DEF Local, Phases, Writing, Write
        <4>2. Scheduled(j)'
          BY <1>2, <1>4, <1>5, <1>6, <2>2 DEF Local, Phases, Scheduled
        <4>3. AtWork(j)' /\ Over(j)'
          BY <1>2, <1>4, <1>5, <1>6, <2>2, <4>1 DEF Local, Phases, AtWork, Over, Live
        <4> QED  BY <1>2, <1>5, <1>6, <2>2, <4>2, <4>3 DEF Local, Phases
      <3>2. Complete(j)' /\ \A i \in Items : ItemOK(j, i)'
        BY <1>2, <1>5, <1>8, <2>2 DEF Local, Complete, ItemOK, Fresh
      <3> QED  BY <3>1, <3>2
    <2>3. CASE \/ worker[j].pc = "begin" /\ worker'[j].pc = "open"
               \/ worker[j].pc = "outcome" /\ worker'[j].pc = "loop"
      <3>1. Phases(j)'
        BY <1>2, <1>4, <1>5, <1>6, <2>3 DEF Local, Phases, Scheduled, AtWork, Over, Working, Draining
      <3>2. Complete(j)'
        BY <1>2, <1>5, <1>8, <2>3 DEF Local, Complete
      <3>3. \A i \in Items : ItemOK(j, i)'
        BY <1>2, <1>5, <1>8, <2>3 DEF Local, ItemOK, Fresh, Working, Draining
      <3> QED  BY <3>1, <3>2, <3>3
    <2>4. CASE worker[j].pc = "end" /\ worker'[j].pc = "none"
      <3>1. \A i \in Items : stage[j][i] = "idle"
        BY <1>5, <2>4 DEF Local, Phases, Draining
      <3>2. Phases(j)' /\ Complete(j)'
        BY <1>2, <2>4, <3>1 DEF Phases, Scheduled, AtWork, Over, Working, Draining, Complete
      <3>3. \A i \in Items : ItemOK(j, i)'
        BY <1>2, <1>5, <2>4, <3>1 DEF Local, ItemOK, Fresh, Working, Draining
      <3> QED  BY <3>2, <3>3
    <2> QED  BY <1>7, <1>8, <2>1, <2>2, <2>3, <2>4
  <1>16. Local(j)'
    BY <1>12, <1>13, <1>14, <1>15 DEF Local
  <1>17. Unfinished(j)' => Unfinished(j) /\ fetched'[j] = NoJob /\ mem'[j] # NoJob
    <2>1. Unfinished(j)' => Unfinished(j)
      BY <1>2, <1>4, <1>5, <1>6 DEF Unfinished
    <2> QED  BY <1>2, <1>5, <1>11, <2>1 DEF Held
  <1>18. Present(j)' => Present(j)
    BY <1>5 DEF Present
  <1> QED  BY <1>2, <1>3, <1>9, <1>10, <1>16, <1>17, <1>18, OneJobChanges

LEMMA WriteRaisesKept ==
    ASSUME IInv, WriteRaises
    PROVE  IInv'
  <1>1. PICK j : j = write.job
    OBVIOUS
  <1>2. /\ write # NoWrite /\ failures' = failures + 1 /\ write' = NoWrite
        /\ UNCHANGED <<phase, count, db, stage, committed, fetched, restarts>>
    BY DEF WriteRaises
  <1>3. /\ TypeOK /\ write \in Write /\ j \in Jobs
        /\ failures' \in Nat /\ stage' \in [Jobs -> [Items -> Stages]]
    BY <1>1, <1>2 DEF IInv, TypeOK, Write
  <1>4. /\ Local(j) /\ Held(j) /\ InFlight(j)
        /\ mem[j] \in Record /\ worker[j] \in Worker
    BY <1>1, <1>2, <1>3, RowTypes DEF IInv, InFlight
  <1>5. CASE write.who = "worker" /\ worker[j].pc = "begin"
    <2>1. /\ mem' = [mem EXCEPT ![j].status = "failed", ![j].errors = @ \cup {"job"}]
          /\ worker' = [worker EXCEPT ![j].pc = "end"]
      BY <1>1, <1>5 DEF WriteRaises
    <2>2. /\ mem[j] # NoJob /\ worker[j].pc \in Working
          /\ \A i \in Items : stage'[j][i] = "idle"
      BY <1>2, <1>4, <1>5, Records DEF Local, Phases, AtWork, Working, Draining, Live
    <2>3. /\ mem' \in [Jobs -> Record] /\ mem'[j] \in Job
          /\ mem'[j].status = "failed" /\ mem'[j].keys = mem[j].keys
          /\ mem'[j].results = mem[j].results
          /\ \A k \in Jobs \ {j} : mem'[k] = mem[k]
      BY <1>3, <2>1, <2>2, MemFailed
    <2>4. mem'[j].status \in Terminal
      BY <2>3 DEF Terminal
    <2> QED  BY <1>2, <1>3, <2>1, <2>2, <2>3, <2>4, WorkEnds
  <1>6. CASE write.who = "worker" /\ worker[j].pc = "outcome"
    <2>1. mem' = mem /\ worker' = [worker EXCEPT ![j].pc = "abort", ![j].stop = TRUE]
      BY <1>1, <1>6 DEF WriteRaises
    <2>2. PICK w : w = [worker[j] EXCEPT !.pc = "abort", !.stop = TRUE]
      OBVIOUS
    <2>3. w \in Worker /\ w.pc = "abort" /\ w.todo = worker[j].todo
      BY <1>4, <2>2 DEF Worker
    <2>4. worker' = [worker EXCEPT ![j] = w]
      BY <2>1, <2>2, Zenon
    <2>5. /\ worker' \in [Jobs -> Worker] /\ worker'[j] = w
          /\ \A k \in Jobs \ {j} : worker'[k] = worker[k]
      BY <1>3, <2>3, <2>4 DEF TypeOK
    <2>6. TypeOK'
      BY <1>2, <1>3, <2>1, <2>5 DEF TypeOK
    <2>7. mem[j].status \in Live /\ mem[j] # NoJob
      BY <1>4, <1>6, Records DEF Local, Phases, AtWork, Working, Draining, Live
    <2>8. (phase = "up" => ~Resumable(mem[j])) /\ Backed(j, mem[j]) /\ Unfinished(j)
      BY <1>4, <2>7 DEF Local, Settled, RowsBacked, Unfinished, Open
    <2>9. ~InFlight(j)'
      BY <1>2 DEF InFlight
    <2>10. Phases(j)'
      BY <1>2, <1>4, <1>6, <2>1, <2>3, <2>5, <2>9
         DEF Local, Phases, Scheduled, AtWork, Over, Working, Draining
    <2>11. \A i \in Items : ItemOK(j, i)'
      BY <1>2, <1>4, <1>6, <2>1, <2>3, <2>5 DEF Local, ItemOK, Fresh, Working, Draining
    <2>12. Complete(j)'
      BY <2>3, <2>5 DEF Complete
    <2>13. Ended(j)' /\ Cancelling(j)'
      BY <1>2, <1>4, <2>1, <2>9 DEF Local, Ended, Cancelling
    <2> QED  BY <1>2, <1>3, <1>6, <2>1, <2>5, <2>6, <2>7, <2>8, <2>10, <2>11, <2>12, <2>13, WorkerMoves
  <1>7. CASE write.who = "worker" /\ worker[j].pc = "end"
    <2>1. mem' = mem /\ worker' = [worker EXCEPT ![j] = NoWorker]
      BY <1>1, <1>7 DEF WriteRaises
    <2>2. /\ worker' \in [Jobs -> Worker] /\ worker'[j].pc = "none"
          /\ \A k \in Jobs \ {j} : worker'[k] = worker[k]
      BY <1>3, <2>1 DEF TypeOK, Worker, NoWorker
    <2>3. \A k \in Jobs : ~InFlight(k)'
      BY <1>2 DEF InFlight
    <2>4. TypeOK' /\ \A k \in Jobs \ {j} : Same(k)
      BY <1>2, <1>3, <2>1, <2>2, <2>3 DEF TypeOK, Same
    <2>5. \A i \in Items : stage[j][i] = "idle"
      BY <1>4, <1>7 DEF Local, Phases, Draining
    <2>6. Numbered(j)' /\ Down(j)' /\ Settled(j)' /\ Writing(j)'
      BY <1>2, <1>4, <2>1, <2>2, <2>3 DEF Local, Numbered, Down, Settled, Writing, Present
    <2>7. Phases(j)' /\ RowsBacked(j)' /\ Complete(j)'
      BY <1>2, <1>4, <2>1, <2>2, <2>3, <2>5
         DEF Local, Phases, Scheduled, AtWork, Over, Working, Draining, RowsBacked, Backed, Complete
    <2>8. \A i \in Items : ItemOK(j, i)'
      BY <1>2, <1>4, <2>1, <2>2, <2>5 DEF Local, ItemOK, Fresh, Working, Draining
    <2>9. Ended(j)' /\ Cancelling(j)'
      BY <1>2, <1>4, <2>1 DEF Local, Ended, Cancelling, InFlight
    <2>10. Local(j)'
      BY <2>6, <2>7, <2>8, <2>9 DEF Local
    <2>11. /\ Unfinished(j)' => Unfinished(j)
           /\ Present(j)' => Present(j)
      BY <1>2, <2>1 DEF Unfinished, Present, InFlight
    <2>12. phase # "down"
      BY <1>4 DEF Local, Down
    <2>13. Unfinished(j)' => Unfinished(j) /\ fetched'[j] = NoJob /\ mem'[j] # NoJob
      BY <1>2, <1>4, <2>1, <2>11, <2>12 DEF Held
    <2>14. UNCHANGED <<phase, count, restarts>>
      BY <1>2
    <2> QED  BY <1>3, <2>4, <2>10, <2>11, <2>13, <2>14, OneJobChanges
  <1>8. CASE ~(write.who = "worker" /\ worker[j].pc \in {"begin", "outcome", "end"})
    <2>1. mem' = mem /\ worker' = worker
      BY <1>1, <1>8 DEF WriteRaises
    <2>2. TypeOK' /\ \A k \in Jobs : Same(k)
      BY <1>2, <1>3, <2>1 DEF TypeOK, Same, InFlight
    <2> QED  BY <1>2, <2>2, AllSame
  <1> QED  BY <1>5, <1>6, <1>7, <1>8

-----------------------------------------------------------------------------
(* Requests.                                                               *)

LEMMA ReadJobKept ==
    ASSUME IInv, NEW j \in Jobs, ReadJob(j)
    PROVE  IInv'
  <1>1. /\ TypeOK /\ Local(j) /\ Held(j) /\ mem[j] = NoJob /\ db[j] # NoJob /\ phase = "up"
        /\ fetched' = [fetched EXCEPT ![j] = db[j]]
        /\ UNCHANGED <<phase, count, mem, db, write, worker, stage, committed, restarts, failures>>
    BY DEF IInv, ReadJob
  <1>2. /\ fetched' \in [Jobs -> Record] /\ fetched'[j] = db[j]
        /\ \A k \in Jobs \ {j} : fetched'[k] = fetched[k]
    BY <1>1 DEF TypeOK, Record
  <1>3. TypeOK' /\ \A k \in Jobs \ {j} : Same(k)
    BY <1>1, <1>2 DEF TypeOK, Record, Same, InFlight
  <1>4. ~Unfinished(j)
    BY <1>1 DEF Held
  <1>5. ~Open(db[j]) /\ mem[j].status = "absent" /\ j <= count
    BY <1>1, <1>4, Records DEF Unfinished, Local, Numbered, Present
  <1>6. InFlight(j)' <=> InFlight(j)
    BY <1>1 DEF InFlight
  <1>7. Numbered(j)' /\ Down(j)' /\ Settled(j)' /\ Writing(j)'
    BY <1>1, <1>2, <1>5, <1>6 DEF Local, Numbered, Down, Settled, Writing
  <1>8. Phases(j)'
    <2>1. worker[j].pc \in {"none", "scheduled"}
      BY <1>1, <1>5, RowTypes DEF Local, Phases, AtWork, Over, Working, Draining, Live, Terminal, Worker
    <2>2. worker[j].pc = "scheduled" => db[j].status = "cancelled"
      BY <1>1, <1>5 DEF Local, Phases, Scheduled
    <2>3. Scheduled(j)' /\ AtWork(j)' /\ Over(j)'
      BY <1>1, <1>6 DEF Local, Phases, Scheduled, AtWork, Over
    <2> QED  BY <1>1, <1>2, <1>6, <2>1, <2>2, <2>3 DEF Local, Phases
  <1>9. RowsBacked(j)' /\ Complete(j)'
    BY <1>1, <1>2, <1>6 DEF Local, RowsBacked, Backed, Complete
  <1>10. \A i \in Items : ItemOK(j, i)'
    BY <1>1 DEF Local, ItemOK, Fresh
  <1>11. Ended(j)' /\ Cancelling(j)'
    BY <1>1, <1>2, <1>6 DEF Local, Ended, Cancelling
  <1>12. Local(j)'
    BY <1>7, <1>8, <1>9, <1>10, <1>11 DEF Local
  <1>13. ~Unfinished(j)' /\ (Present(j)' => Present(j))
    BY <1>1, <1>4, <1>6 DEF Unfinished, Present
  <1> QED  BY <1>1, <1>3, <1>12, <1>13, OneJobChanges

LEMMA CacheJobKept ==
    ASSUME IInv, NEW j \in Jobs, CacheJob(j)
    PROVE  IInv'
  <1>1. PICK cache : cache = [mem EXCEPT ![j] = fetched[j]]
    OBVIOUS
  <1>2. /\ TypeOK /\ Local(j) /\ Held(j) /\ fetched[j] # NoJob /\ fetched[j] \in Record
        /\ mem[j] \in Record /\ db[j] \in Record /\ worker[j] \in Worker
        /\ mem' = Trimmed(cache) /\ fetched' = [fetched EXCEPT ![j] = NoJob]
        /\ UNCHANGED <<phase, count, db, write, worker, stage, committed, restarts, failures>>
    BY <1>1, RowTypes DEF IInv, CacheJob
  <1>3. /\ cache \in [Jobs -> Record] /\ cache[j] = fetched[j]
        /\ \A k \in Jobs \ {j} : cache[k] = mem[k]
    BY <1>1, <1>2 DEF TypeOK, Record
  <1>4. db[j] # NoJob /\ ~Open(fetched[j]) /\ ~Unfinished(j)
    BY <1>2 DEF Local, Numbered, Held
  <1>5. \A k \in Jobs : cache[k] # NoJob => Present(k)
    BY <1>3, <1>4 DEF Present
  <1>6. /\ mem' \in [Jobs -> Record]
        /\ \A k \in Jobs : mem'[k] \in {cache[k], NoJob}
        /\ \A k \in Active : mem'[k] = cache[k]
        /\ \A k \in Jobs : Recent(k) => mem'[k] = cache[k]
    BY <1>2, <1>3, <1>5, TrimmedIs
  <1>7. fetched'[j] = NoJob /\ \A k \in Jobs \ {j} : fetched'[k] = fetched[k]
    BY <1>2 DEF TypeOK
  <1>8. TypeOK'
    BY <1>2, <1>6 DEF TypeOK, Record
  <1>9. ASSUME NEW k \in Jobs \ {j}
        PROVE  Same(k)
    <2>1. mem'[k] = mem[k] \/ (mem'[k] = NoJob /\ k \notin Active /\ ~Unfinished(k))
      BY <1>3, <1>6 DEF IInv, Held
    <2> QED  BY <1>2, <1>7, <2>1 DEF Same, InFlight
  <1>10. InFlight(j)' <=> InFlight(j)
    BY <1>2 DEF InFlight
  <1>11. /\ ~Open(db[j]) /\ ~Open(mem[j]) /\ ~Open(mem'[j])
         /\ InFlight(j) => ~Open(write.row)
    BY <1>3, <1>4, <1>6, Records DEF Unfinished
  <1>12. /\ worker[j].pc \in {"none", "scheduled", "end"}
         /\ worker[j].pc # "none" => db[j].status = "cancelled"
         /\ worker[j].pc # "none" => fetched[j].status = "cancelled"
         /\ worker[j].pc = "end" => mem'[j] = fetched[j]
         /\ \A i \in Items : stage[j][i] = "idle"
    <2>1. mem[j].status \notin Live /\ db[j].status \notin Live /\ fetched[j].status # "absent"
      BY <1>2, <1>11, Records DEF Open
    <2>2. worker[j].pc \in {"none", "scheduled", "end"}
      BY <1>2, <2>1 DEF Local, Phases, AtWork, Working, Draining, Worker
    <2>3. /\ worker[j].pc # "none" => db[j].status = "cancelled"
          /\ worker[j].pc # "none" => fetched[j].status = "cancelled"
          /\ \A i \in Items : stage[j][i] = "idle"
      BY <1>2, <2>1, <2>2 DEF Local, Phases, Scheduled, Over, Draining, Live
    <2>4. worker[j].pc = "end" => mem'[j] = fetched[j]
      BY <1>3, <1>6 DEF Active
    <2> QED  BY <2>2, <2>3, <2>4
  <1>13. Numbered(j)' /\ Down(j)' /\ Settled(j)' /\ Writing(j)'
    <2>1. Numbered(j)'
      BY <1>2, <1>4, <1>7, <1>10 DEF Local, Numbered, Present
    <2>2. Down(j)' /\ Settled(j)'
      BY <1>2, <1>7, <1>10, <1>11 DEF Local, Down, Settled, Open
    <2>3. Writing(j)'
      BY <1>2, <1>10, <1>11 DEF Local, Writing, Open, Live
    <2> QED  BY <2>1, <2>2, <2>3
  <1>14. mem'[j].status \in {fetched[j].status, "absent"} /\ NoJob.status = "absent"
    BY <1>3, <1>6, Records
  <1>15. Phases(j)'
    <2>1. worker[j].pc = "scheduled" => Scheduled(j)'
      BY <1>2, <1>10, <1>12, <1>14 DEF Local, Phases, Scheduled
    <2>2. AtWork(j)' /\ Over(j)'
      BY <1>2, <1>10, <1>12 DEF Local, Phases, AtWork, Over, Working, Draining, Terminal
    <2>3. worker'[j].pc # "scheduled" => Scheduled(j)'
      BY DEF Scheduled
    <2> QED  BY <1>2, <1>7, <1>10, <1>14, <2>1, <2>2, <2>3 DEF Local, Phases
  <1>16. RowsBacked(j)' /\ Complete(j)'
    BY <1>2, <1>3, <1>6, <1>7, <1>10, <1>12 DEF Local, RowsBacked, Backed, Complete
  <1>17. \A i \in Items : ItemOK(j, i)'
    BY <1>2, <1>12 DEF Local, ItemOK, Fresh, Working, Draining
  <1>18. Ended(j)' /\ Cancelling(j)'
    <2>1. fetched[j].status \in Terminal \cup {"interrupted"}
      BY <1>2, <1>4, Records DEF Record, Statuses, Open
    <2>2. mem'[j] # NoJob => mem'[j] = fetched[j]
      BY <1>3, <1>6
    <2>3. Ended(j)'
      BY <1>2, <1>7, <1>10, <1>14, <2>1, <2>2 DEF Local, Ended, Agrees, Terminal
    <2>4. Cancelling(j)'
      BY <1>2, <1>10, <1>11 DEF Cancelling, Open, Live
    <2> QED  BY <2>3, <2>4
  <1>19. Local(j)'
    BY <1>13, <1>15, <1>16, <1>17, <1>18 DEF Local
  <1>20. ~Unfinished(j)' /\ (Present(j)' => Present(j))
    BY <1>2, <1>4, <1>10, <1>11 DEF Unfinished, Present
  <1> QED  BY <1>2, <1>8, <1>9, <1>19, <1>20, OneJobChanges

LEMMA CancelJobKept ==
    ASSUME IInv, NEW j \in Jobs, CancelJob(j)
    PROVE  IInv'
  <1>1. PICK old : old = IF mem[j] # NoJob THEN mem[j] ELSE db[j]
    OBVIOUS
  <1>2. PICK row : row = [old EXCEPT !.status = CancelStatus(j)]
    OBVIOUS
  <1>3. PICK cache : cache = [mem EXCEPT ![j] = row]
    OBVIOUS
  <1>4. /\ phase = "up" /\ write = NoWrite /\ old.status \in Cancellable
        /\ mem' = IF mem[j] # NoJob THEN cache ELSE Trimmed(cache)
        /\ worker' = IF j \in Active THEN [worker EXCEPT ![j].stop = TRUE] ELSE worker
        /\ write' = [who |-> "cancel", job |-> j, row |-> row]
        /\ UNCHANGED <<phase, count, db, stage, committed, fetched, restarts, failures>>
    BY <1>1, <1>2, <1>3, Zenon DEF CancelJob, LockFree
  <1>5. /\ TypeOK /\ Local(j) /\ Held(j) /\ mem[j] \in Record /\ db[j] \in Record
        /\ worker[j] \in Worker
    BY RowTypes DEF IInv
  <1>6. old \in Job /\ old # NoJob
    BY <1>1, <1>4, <1>5, Records DEF Record, Cancellable
  <1>7. /\ row \in Job /\ row # NoJob
        /\ row.status = CancelStatus(j) /\ row.status \in {"cancelling", "cancelled"}
        /\ row.keys = old.keys /\ row.results = old.results
    <2>1. PICK s : s = CancelStatus(j)
      OBVIOUS
    <2>2. s \in {"cancelling", "cancelled"}
      BY <2>1 DEF CancelStatus
    <2>3. s \in Statuses
      BY <2>2 DEF Statuses, Live, Terminal
    <2>4. row = [old EXCEPT !.status = s]
      BY <1>2, <2>1
    <2> QED  BY <1>6, <2>1, <2>2, <2>3, <2>4, StatusSet, Records
  <1>8. /\ cache \in [Jobs -> Record] /\ cache[j] = row
        /\ \A k \in Jobs \ {j} : cache[k] = mem[k]
    BY <1>3, <1>5, <1>7 DEF TypeOK, Record
  <1>9. Present(j) /\ j <= count
    BY <1>1, <1>5, <1>6 DEF Present, Local, Numbered
  <1>10. /\ mem' \in [Jobs -> Record]
         /\ mem[j] # NoJob => mem'[j] = row
         /\ mem'[j] \in {row, NoJob}
         /\ \A k \in Jobs \ {j} : \/ mem'[k] = mem[k]
                                  \/ mem'[k] = NoJob /\ k \notin Active /\ ~Unfinished(k)
    <2>1. CASE mem[j] # NoJob
      BY <1>4, <1>8, <2>1
    <2>2. CASE mem[j] = NoJob
      <3>1. \A k \in Jobs : cache[k] # NoJob => Present(k)
        BY <1>8, <1>9 DEF Present
      <3>2. /\ Trimmed(cache) \in [Jobs -> Record]
            /\ \A k \in Jobs : Trimmed(cache)[k] \in {cache[k], NoJob}
            /\ \A k \in Active : Trimmed(cache)[k] = cache[k]
            /\ \A k \in Jobs : Recent(k) => Trimmed(cache)[k] = cache[k]
        BY <1>8, <3>1, TrimmedIs
      <3> QED  BY <1>4, <1>8, <2>2, <3>2 DEF IInv, Held
    <2> QED  BY <2>1, <2>2
  <1>11. /\ worker' \in [Jobs -> Worker] /\ \A k \in Jobs \ {j} : worker'[k] = worker[k]
         /\ worker'[j].pc = worker[j].pc /\ worker'[j].todo = worker[j].todo
    <2>1. CASE j \in Active
      <3>1. PICK w : w = [worker[j] EXCEPT !.stop = TRUE]
        OBVIOUS
      <3>2. w \in Worker /\ w.pc = worker[j].pc /\ w.todo = worker[j].todo
        BY <1>5, <3>1 DEF Worker
      <3>3. worker' = [worker EXCEPT ![j] = w]
        BY <1>4, <2>1, <3>1
      <3> QED  BY <1>5, <3>2, <3>3 DEF TypeOK
    <2>2. CASE j \notin Active
      BY <1>4, <1>5, <2>2 DEF TypeOK
    <2> QED  BY <2>1, <2>2
  <1>12. TypeOK'
    BY <1>4, <1>5, <1>7, <1>10, <1>11 DEF TypeOK, Record, Write
  <1>13. ASSUME NEW k \in Jobs \ {j}
         PROVE  Same(k)
    <2>1. mem'[k] = mem[k] \/ (mem'[k] = NoJob /\ k \notin Active /\ ~Unfinished(k))
      BY <1>10
    <2> QED  BY <1>4, <1>11, <2>1 DEF Same, InFlight
  <1>14. InFlight(j)' /\ write'.row = row /\ write'.who = "cancel" /\ ~InFlight(j)
    BY <1>4 DEF InFlight, NoWrite
  <1>15. Numbered(j)' /\ Down(j)' /\ Settled(j)' /\ Writing(j)'
    <2>1. ~Resumable(row) /\ ~Resumable(NoJob)
      BY <1>7, Records DEF Resumable, Open
    <2>2. Numbered(j)' /\ Down(j)'
      BY <1>4, <1>5, <1>9, <1>11 DEF Local, Numbered, Down
    <2>3. Settled(j)'
      BY <1>4, <1>5, <1>10, <1>14, <2>1 DEF Local, Settled
    <2>4. Writing(j)'
      BY <1>7, <1>14 DEF Writing
    <2> QED  BY <2>2, <2>3, <2>4
  <1>16. RowsBacked(j)'
    <2>1. Backed(j, old)
      BY <1>1, <1>5 DEF Local, RowsBacked
    <2>2. Backed(j, row)
      BY <1>6, <1>7, <2>1 DEF Backed
    <2> QED  BY <1>4, <1>5, <1>10, <1>14, <2>2 DEF Local, RowsBacked, Backed
  <1>17. CASE j \in Active
    <2>1. row.status = "cancelling"
      BY <1>7, <1>17 DEF CancelStatus
    <2>2. worker[j].pc \notin {"none", "scheduled"}
      BY <1>17 DEF Active
    <2>3. mem[j].status # "absent"
      BY <1>5, <2>2 DEF Local, Phases, AtWork, Over, Working, Draining, Live, Terminal, Worker
    <2>4. mem[j] # NoJob /\ old = mem[j] /\ mem'[j] = row
      BY <1>1, <1>10, <2>3, Records
    <2>5. worker[j].pc \in Working
      BY <1>4, <1>5, <2>2, <2>4 DEF Local, Phases, Over, Working, Draining, Terminal, Worker, Cancellable
    <2>6. mem[j].status \in Live /\ db[j].status \in Live
      BY <1>5, <2>5 DEF Local, Phases, AtWork
    <2>7. Phases(j)'
      BY <1>4, <1>5, <1>7, <1>11, <1>14, <2>1, <2>4, <2>5
         DEF Local, Phases, Scheduled, AtWork, Over, Working, Draining, Live
    <2>8. Complete(j)'
      BY <2>1, <2>4 DEF Complete
    <2>9. \A i \in Items : ItemOK(j, i)'
      BY <1>4, <1>5, <1>7, <1>11, <2>4 DEF Local, ItemOK, Fresh
    <2>10. Ended(j)' /\ Cancelling(j)'
      BY <1>4, <1>5, <1>14, <2>1, <2>4, <2>6 DEF Local, Ended, Cancelling, Stops, Live, Terminal
    <2>11. Unfinished(j)
      BY <2>6 DEF Unfinished, Open
    <2>12. Local(j)'
      BY <1>15, <1>16, <2>7, <2>8, <2>9, <2>10 DEF Local
    <2>13. fetched'[j] = NoJob /\ mem'[j] # NoJob
      BY <1>4, <1>5, <1>7, <2>4, <2>11 DEF Held
    <2> QED  BY <1>4, <1>9, <1>12, <1>13, <2>11, <2>12, <2>13, OneJobChanges
  <1>18. CASE j \notin Active
    <2>1. row.status = "cancelled" /\ worker' = worker
      BY <1>4, <1>7, <1>18 DEF CancelStatus
    <2>2. worker[j].pc \in {"none", "scheduled"}
      BY <1>18 DEF Active
    <2>3. \A i \in Items : stage[j][i] = "idle"
      BY <1>5, <2>2 DEF Local, Phases, Draining
    <2>4. mem[j] = NoJob => mem[j].status = "absent" /\ old = db[j]
      BY <1>1, Records
    <2>5. worker[j].pc = "scheduled" => mem'[j] = row
      BY <1>4, <1>5, <1>10, <2>4 DEF Local, Phases, Scheduled, Cancellable
    <2>6. Phases(j)'
      BY <1>4, <1>5, <1>14, <2>1, <2>2, <2>3, <2>5
         DEF Local, Phases, Scheduled, AtWork, Over, Working, Draining
    <2>7. Complete(j)' /\ \A i \in Items : ItemOK(j, i)'
      BY <1>4, <1>5, <2>1, <2>2, <2>3 DEF Local, Complete, ItemOK, Fresh, Working, Draining
    <2>8. db[j].status \in Terminal => db[j].status = "cancelled"
      <3>1. CASE mem[j] # NoJob
        BY <1>1, <1>4, <1>5, <3>1 DEF Local, Ended, Agrees, Cancellable, Terminal
      <3>2. CASE mem[j] = NoJob
        BY <1>4, <2>4, <3>2 DEF Cancellable, Terminal
      <3> QED  BY <3>1, <3>2
    <2>9. Ended(j)'
      BY <1>4, <1>5, <1>10, <1>14, <2>1, <2>8 DEF Local, Ended, Agrees
    <2>10. Cancelling(j)'
      <3>1. db[j].status = "cancelling" => mem[j] # NoJob
        BY <1>4, <1>5, <2>4 DEF Local, Cancelling, Stops
      <3> QED  BY <1>4, <1>10, <1>14, <2>1, <3>1 DEF Cancelling, Stops
    <2>11. Local(j)'
      BY <1>15, <1>16, <2>6, <2>7, <2>9, <2>10 DEF Local
    <2>12. ~Open(row) /\ ~Open(NoJob)
      BY <2>1, Records DEF Open, Resumable, Live
    <2>13. Unfinished(j)' => Open(db[j])
      BY <1>4, <1>10, <1>14, <2>12 DEF Unfinished
    <2>14. Unfinished(j)' => Unfinished(j) /\ fetched'[j] = NoJob /\ mem'[j] # NoJob
      BY <1>4, <1>5, <1>7, <1>10, <2>13 DEF Unfinished, Held
    <2> QED  BY <1>4, <1>9, <1>12, <1>13, <2>11, <2>14, OneJobChanges
  <1> QED  BY <1>17, <1>18

LEMMA StartJobKept ==
    ASSUME IInv, NEW keys \in SUBSET Items, StartJob(keys)
    PROVE  IInv'
  <1>1. PICK new : new = count + 1
    OBVIOUS
  <1>2. PICK row : row = NewJob(keys)
    OBVIOUS
  <1>3. PICK cache : cache = [mem EXCEPT ![new] = row]
    OBVIOUS
  <1>4. /\ phase = "up" /\ write = NoWrite /\ count < MaxJobs
        /\ \A j \in Jobs : ~Blocked(j)
        /\ count' = count + 1 /\ mem' = Trimmed(cache)
        /\ write' = [who |-> "start", job |-> new, row |-> row]
        /\ UNCHANGED <<phase, db, worker, stage, committed, fetched, restarts, failures>>
    BY <1>1, <1>2, <1>3, Zenon DEF StartJob, NewId, LockFree
  <1>5. TypeOK /\ \A k \in Jobs : Local(k) /\ Held(k)
    BY DEF IInv
  <1>6. /\ count \in Nat /\ new \in Jobs /\ count' \in 0..MaxJobs
        /\ count' \in Nat /\ count' >= count /\ new > count
        /\ \A k \in Jobs : k \in Nat
    BY <1>1, <1>4, <1>5, BoundsType DEF TypeOK, Jobs
  <1>7. \A k \in Jobs : ~Unfinished(k) /\ ~InFlight(k)
    <2>1. \A k \in Jobs : mem[k].status \notin Live /\ db[k].status \notin Live
      BY <1>4 DEF Blocked, Blocking, Live
    <2>2. \A k \in Jobs : ~InFlight(k)
      BY <1>4 DEF InFlight
    <2>3. \A k \in Jobs : ~Resumable(mem[k]) /\ ~Resumable(db[k])
      BY <1>4, <1>5 DEF Local, Settled
    <2> QED  BY <2>1, <2>2, <2>3 DEF Unfinished, Open
  <1>8. /\ row \in Job /\ row # NoJob /\ row.status = "running" /\ row.keys = keys /\ row.results = {}
        /\ ~Resumable(row)
    BY <1>2, Records DEF NewJob, Job, Live, Resumable
  <1>9. /\ mem[new] = NoJob /\ db[new] = NoJob /\ fetched[new] = NoJob /\ worker[new].pc = "none"
        /\ \A i \in Items : committed[new][i] = 0 /\ stage[new][i] = "idle"
        /\ \A k \in Jobs : k > new => ~Present(k)
    <2>1. \A k \in Jobs : k > count => ~(k <= count)
      BY <1>6
    <2>2. \A k \in Jobs : k > count => ~Present(k) /\ fetched[k] = NoJob
      BY <1>5, <2>1 DEF Local, Numbered
    <2>3. worker[new].pc = "none" /\ \A i \in Items : committed[new][i] = 0
      BY <1>5, <1>6 DEF Local, Numbered
    <2>4. \A i \in Items : stage[new][i] = "idle"
      BY <1>5, <1>6, <2>3 DEF Local, Phases, Draining
    <2>5. \A k \in Jobs : k > new => k > count
      BY <1>6
    <2> QED  BY <1>6, <2>2, <2>3, <2>4, <2>5 DEF Present
  <1>10. /\ cache \in [Jobs -> Record] /\ cache[new] = row
         /\ \A k \in Jobs \ {new} : cache[k] = mem[k]
    BY <1>3, <1>5, <1>6, <1>8 DEF TypeOK, Record
  <1>11. /\ mem' \in [Jobs -> Record] /\ mem'[new] = row
         /\ \A k \in Jobs \ {new} : mem'[k] = mem[k] \/ (mem'[k] = NoJob /\ k \notin Active)
    <2>1. \A k \in Jobs : k > new => cache[k] = NoJob
      BY <1>6, <1>9, <1>10 DEF Present
    <2>2. /\ Trimmed(cache) \in [Jobs -> Record]
          /\ \A k \in Jobs : Trimmed(cache)[k] \in {cache[k], NoJob}
          /\ \A k \in Active : Trimmed(cache)[k] = cache[k]
          /\ \A k \in Jobs : (\A l \in Jobs : l > k => cache[l] = NoJob) => Trimmed(cache)[k] = cache[k]
      BY <1>10, TrimmedIs
    <2>3. Trimmed(cache)[new] = cache[new]
      BY <1>6, <2>1, <2>2
    <2>4. Active \subseteq Jobs
      BY DEF Active
    <2> QED  BY <1>4, <1>10, <2>2, <2>3, <2>4
  <1>12. TypeOK'
    BY <1>4, <1>5, <1>6, <1>8, <1>11 DEF TypeOK, Record, Write
  <1>13. ASSUME NEW k \in Jobs \ {new}
         PROVE  /\ Local(k)' /\ ~Unfinished(k)' /\ (Present(k)' => Present(k))
    <2>1. Same(k)
      BY <1>4, <1>7, <1>11 DEF Same, InFlight
    <2>2. UNCHANGED <<phase, restarts>> /\ k \in Jobs
      BY <1>4
    <2> QED  BY <1>6, <1>7, <2>1, <2>2, Untouched
  <1>14. InFlight(new)' /\ write'.row = row /\ write'.who = "start"
    BY <1>4 DEF InFlight, NoWrite
  <1>15. Local(new)'
    <2>1. NoJob.status = "absent" /\ ~Resumable(NoJob)
      BY Records DEF Open
    <2>2. Numbered(new)' /\ Down(new)' /\ Settled(new)' /\ Writing(new)'
      <3>1. new <= count' /\ ~(new > count')
        BY <1>1, <1>4, <1>6
      <3>2. Numbered(new)'
        BY <1>4, <1>9, <3>1 DEF Numbered
      <3>3. Down(new)' /\ Settled(new)' /\ Writing(new)'
        BY <1>4, <1>8, <1>9, <1>11, <1>14, <2>1 DEF Down, Settled, Writing
      <3> QED  BY <3>2, <3>3
    <2>3. Phases(new)' /\ Complete(new)'
      BY <1>4, <1>9 DEF Phases, Scheduled, AtWork, Over, Working, Draining, Complete
    <2>4. RowsBacked(new)'
      BY <1>4, <1>8, <1>9, <1>11, <1>14 DEF RowsBacked, Backed
    <2>5. \A i \in Items : ItemOK(new, i)'
      <3>1. restarts \in Nat
        BY <1>5 DEF TypeOK
      <3> QED  BY <1>4, <1>9, <3>1 DEF ItemOK, Fresh, Working, Draining
    <2>6. Ended(new)' /\ Cancelling(new)'
      BY <1>4, <1>8, <1>9, <1>14, <2>1 DEF Ended, Cancelling, Terminal
    <2> QED  BY <2>2, <2>3, <2>4, <2>5, <2>6 DEF Local
  <1>16. Exclusive'
    BY <1>13 DEF Exclusive
  <1>17. Held(new)'
    <2>1. \A k \in Jobs : k > new => ~Present(k)'
      BY <1>6, <1>9, <1>13
    <2>2. PICK A : A = {k \in Jobs : k > new /\ Present(k)'}
      OBVIOUS
    <2>3. A = {}
      BY <2>1, <2>2
    <2>4. Cardinality(A) < Keep
      BY <2>3, FS_EmptySet, KeepType
    <2>5. Recent(new)'
      BY <2>2, <2>4 DEF Recent
    <2> QED  BY <1>4, <1>8, <1>9, <1>11, <2>5 DEF Held
  <1>18. \A k \in Jobs : Local(k)' /\ Held(k)'
    BY <1>13, <1>15, <1>17 DEF Held
  <1> QED  BY <1>12, <1>16, <1>18 DEF IInv

-----------------------------------------------------------------------------
(* The process.                                                            *)

LEMMA ShutdownKept ==
    ASSUME IInv, Shutdown
    PROVE  IInv'
  <1>1. /\ phase = "up" /\ phase' = "stopping"
        /\ worker' = [j \in Jobs |->
              CASE worker[j].pc = "scheduled" -> NoWorker
                [] worker[j].pc \in {"begin", "open", "loop", "outcome"} ->
                      [worker[j] EXCEPT !.pc = "drain", !.stop = TRUE]
                [] OTHER -> worker[j]]
        /\ UNCHANGED <<count, mem, db, write, stage, committed, fetched, restarts, failures>>
    BY DEF Shutdown
  <1>2. TypeOK /\ \A j \in Jobs : Local(j) /\ Held(j) /\ worker[j] \in Worker
    BY DEF IInv, TypeOK
  <1>3. ASSUME NEW j \in Jobs
        PROVE  /\ worker'[j] \in Worker
               /\ \/ worker[j].pc = "scheduled" /\ worker'[j].pc = "none" /\ worker'[j].todo = {}
                  \/ /\ worker[j].pc \in {"begin", "open", "loop", "outcome"}
                     /\ worker'[j].pc = "drain" /\ worker'[j].todo = worker[j].todo
                  \/ /\ worker[j].pc \in {"none", "abort", "drain", "end"}
                     /\ worker'[j] = worker[j]
    <2>1. worker'[j] = CASE worker[j].pc = "scheduled" -> NoWorker
                         [] worker[j].pc \in {"begin", "open", "loop", "outcome"} ->
                               [worker[j] EXCEPT !.pc = "drain", !.stop = TRUE]
                         [] OTHER -> worker[j]
      BY <1>1
    <2>2. CASE worker[j].pc = "scheduled"
      BY <2>1, <2>2 DEF NoWorker, Worker
    <2>3. CASE worker[j].pc \in {"begin", "open", "loop", "outcome"}
      <3>1. worker'[j] = [worker[j] EXCEPT !.pc = "drain", !.stop = TRUE]
        BY <2>1, <2>3
      <3> QED  BY <1>2, <2>3, <3>1 DEF Worker
    <2>4. CASE worker[j].pc \notin {"scheduled", "begin", "open", "loop", "outcome"}
      <3>1. worker'[j] = worker[j]
        BY <2>1, <2>4
      <3> QED  BY <1>2, <2>4, <3>1 DEF Worker
    <2> QED  BY <2>2, <2>3, <2>4
  <1>4. worker' \in [Jobs -> Worker]
    <2>1. worker' = [j \in Jobs |-> worker'[j]]
      BY <1>1
    <2> QED  BY <1>3, <2>1
  <1>5. TypeOK'
    BY <1>1, <1>2, <1>4 DEF TypeOK
  <1>6. ASSUME NEW j \in Jobs
        PROVE  Local(j)'
    <2>1. InFlight(j)' <=> InFlight(j)
      BY <1>1 DEF InFlight
    <2>2. Numbered(j)' /\ Down(j)' /\ Settled(j)' /\ Writing(j)'
      BY <1>1, <1>2, <1>3, <2>1 DEF Local, Numbered, Down, Settled, Writing, Present
    <2>3. Phases(j)'
      <3>1. Local(j)
        BY <1>2
      <3>2. Scheduled(j)' /\ AtWork(j)' /\ Over(j)'
        BY <1>1, <1>3, <2>1, <3>1 DEF Local, Phases, Scheduled, AtWork, Over, Working, Draining
      <3>3. \A i \in Items : stage'[j][i] # "idle" => worker'[j].pc \in Draining
        BY <1>1, <1>3, <3>1 DEF Local, Phases, Draining
      <3> QED  BY <1>1, <1>3, <2>1, <3>1, <3>2, <3>3 DEF Local, Phases
    <2>4. RowsBacked(j)' /\ Complete(j)'
      BY <1>1, <1>2, <1>3, <2>1 DEF Local, RowsBacked, Backed, Complete
    <2>5. \A i \in Items : ItemOK(j, i)'
      <3>1. Local(j)
        BY <1>2
      <3> QED  BY <1>1, <1>3, <3>1 DEF Local, ItemOK, Fresh, Working, Draining
    <2>6. Ended(j)' /\ Cancelling(j)'
      BY <1>1, <1>2, <2>1 DEF Local, Ended, Cancelling
    <2> QED  BY <2>2, <2>3, <2>4, <2>5, <2>6 DEF Local
  <1>7. \A k \in Jobs : Unfinished(k)' => /\ Unfinished(k) /\ fetched'[k] = NoJob
                                          /\ phase' # "down" => mem'[k] # NoJob
    BY <1>1, <1>2 DEF Unfinished, InFlight, Held
  <1>8. \A k \in Jobs : Present(k)' => Present(k)
    BY <1>1 DEF Present, InFlight
  <1>9. Exclusive' /\ \A k \in Jobs : Held(k)'
    BY <1>7, <1>8, OpenKept
  <1> QED  BY <1>5, <1>6, <1>9 DEF IInv

LEMMA ExitKept ==
    ASSUME IInv, Exit
    PROVE  IInv'
  <1>1. /\ phase' = "down" /\ restarts' = restarts + 1
        /\ mem' = [j \in Jobs |-> NoJob]
        /\ write' = NoWrite
        /\ worker' = [j \in Jobs |-> NoWorker]
        /\ stage' = [j \in Jobs |-> AllIdle]
        /\ fetched' = [j \in Jobs |-> NoJob]
        /\ UNCHANGED <<count, db, committed, failures>>
    BY DEF Exit
  <1>2. TypeOK /\ (\A j \in Jobs : Local(j)) /\ restarts \in Nat
    BY DEF IInv, TypeOK
  <1>3. /\ NoWorker \in Worker /\ NoWorker.pc = "none" /\ NoWorker.todo = {}
        /\ AllIdle \in [Items -> Stages] /\ \A i \in Items : AllIdle[i] = "idle"
    BY DEF NoWorker, Worker, AllIdle, Stages
  <1>4. TypeOK'
    BY <1>1, <1>2, <1>3 DEF TypeOK
  <1>5. ASSUME NEW j \in Jobs
        PROVE  /\ mem'[j] = NoJob /\ fetched'[j] = NoJob /\ ~InFlight(j)'
               /\ worker'[j].pc = "none" /\ worker'[j].todo = {}
               /\ \A i \in Items : stage'[j][i] = "idle" /\ committed'[j][i] = committed[j][i]
               /\ NoJob.status = "absent" /\ ~Resumable(NoJob) /\ ~Open(NoJob)
    BY <1>1, <1>3, Records DEF InFlight, Open
  <1>6. ASSUME NEW j \in Jobs
        PROVE  Local(j)'
    <2>1. Local(j) /\ db'[j] = db[j]
      BY <1>1, <1>2
    <2>2. \A i \in Items : committed[j][i] \in Nat /\ committed[j][i] <= 1 + restarts
      BY <1>2, <2>1 DEF TypeOK, Local, ItemOK
    <2>3. \A i \in Items : committed'[j][i] <= restarts' /\ committed'[j][i] <= 1 + restarts'
      BY <1>1, <1>2, <1>5, <2>2
    <2>4. Numbered(j)'
      BY <1>1, <1>5, <2>1 DEF Local, Numbered, Present
    <2>5. Down(j)' /\ Settled(j)' /\ Writing(j)'
      BY <1>1, <1>5, <2>3 DEF Down, Settled, Writing
    <2>6. Phases(j)' /\ Complete(j)'
      BY <1>5 DEF Phases, Scheduled, AtWork, Over, Working, Draining, Complete
    <2>7. RowsBacked(j)'
      BY <1>1, <1>5, <2>1 DEF Local, RowsBacked, Backed
    <2>8. \A i \in Items : ItemOK(j, i)'
      BY <1>5, <2>3 DEF ItemOK, Fresh, Working, Draining
    <2>9. Ended(j)' /\ Cancelling(j)'
      BY <1>1, <1>5, <2>1 DEF Ended, Cancelling, Terminal
    <2> QED  BY <2>4, <2>5, <2>6, <2>7, <2>8, <2>9 DEF Local
  <1>7. \A k \in Jobs : Unfinished(k)' => /\ Unfinished(k) /\ fetched'[k] = NoJob
                                          /\ phase' # "down" => mem'[k] # NoJob
    BY <1>1, <1>5 DEF Unfinished
  <1>8. \A k \in Jobs : Present(k)' => Present(k)
    BY <1>1, <1>5 DEF Present
  <1>9. Exclusive' /\ \A k \in Jobs : Held(k)'
    BY <1>7, <1>8, OpenKept
  <1> QED  BY <1>4, <1>6, <1>9 DEF IInv

\* The row of a job as a restart leaves it.
LEMMA Marked ==
    ASSUME NEW r \in Record, NEW m, m = [r EXCEPT !.status = StatusAfterRestart(@)]
    PROVE  /\ m \in Record /\ (m # NoJob => r # NoJob)
           /\ m.status = StatusAfterRestart(r.status)
           /\ m.status \in Terminal \cup {"interrupted", "absent"}
           /\ Resumable(m) => Open(r) /\ m # NoJob
           /\ m # NoJob => /\ m \in Job /\ m.keys = r.keys /\ m.results = r.results
                           /\ m.status = "completed" => r.status = "completed"
  <1>1. CASE r = NoJob
    <2>1. StatusAfterRestart("absent") = "absent"
      BY DEF StatusAfterRestart
    <2>2. m = [status |-> "absent"]
      BY <1>1, <2>1 DEF NoJob
    <2>3. m = NoJob
      BY <2>2 DEF NoJob
    <2>4. ~Resumable(NoJob) /\ NoJob.status = "absent"
      BY Records DEF Open
    <2> QED  BY <1>1, <2>1, <2>3, <2>4 DEF Record
  <1>2. CASE r \in Job
    <2>1. PICK s : s = StatusAfterRestart(r.status)
      OBVIOUS
    <2>2. /\ s \in Terminal \cup {"interrupted"}
          /\ s = "completed" => r.status = "completed"
          /\ s = "interrupted" => r.status \in {"running", "interrupted"}
      BY <1>2, <2>1, Records DEF StatusAfterRestart, Statuses, Live, Terminal
    <2>3. m = [r EXCEPT !.status = s] /\ s \in Statuses
      BY <2>1, <2>2 DEF Statuses
    <2>4. /\ m \in Job /\ m.status = s
          /\ m.keys = r.keys /\ m.results = r.results /\ m.errors = r.errors
      <3>1. PICK x : x = [r EXCEPT !.status = s]
        OBVIOUS
      <3>2. /\ x \in Job /\ x.status = s
            /\ x.keys = r.keys /\ x.results = r.results /\ x.errors = r.errors
        BY <1>2, <2>3, <3>1, StatusSet
      <3> QED  BY <2>3, <3>1, <3>2
    <2>5. Resumable(m) => Open(r)
      BY <2>2, <2>4 DEF Resumable, Completed, Open, Live
    <2> QED  BY <1>2, <2>1, <2>2, <2>4, <2>5, Records DEF Record
  <1> QED  BY <1>1, <1>2 DEF Record

LEMMA RestartKept ==
    ASSUME IInv, Restart
    PROVE  IInv'
  <1>1. PICK marked : marked = [j \in Jobs |-> [db[j] EXCEPT !.status = StatusAfterRestart(@)]]
    OBVIOUS
  <1>2. PICK cache : cache = Trimmed(marked)
    OBVIOUS
  <1>3. PICK resumed : resumed = {j \in Jobs : Resumable(cache[j])}
    OBVIOUS
  <1>4. /\ phase = "down" /\ phase' = "up"
        /\ db' = [j \in Jobs |-> IF j \in resumed THEN [marked[j] EXCEPT !.status = "running"] ELSE marked[j]]
        /\ mem' = [j \in Jobs |-> IF j \in resumed THEN [cache[j] EXCEPT !.status = "running"] ELSE cache[j]]
        /\ worker' = [j \in Jobs |-> IF j \in resumed THEN [NoWorker EXCEPT !.pc = "scheduled"] ELSE NoWorker]
        /\ UNCHANGED <<count, write, stage, committed, fetched, restarts, failures>>
    BY <1>1, <1>2, <1>3, Zenon DEF Restart
  <1>5. /\ TypeOK /\ restarts \in Nat
        /\ \A j \in Jobs : Local(j) /\ Held(j) /\ db[j] \in Record
    BY RowTypes DEF IInv, TypeOK
  <1>6. \A j \in Jobs : /\ mem[j] = NoJob /\ fetched[j] = NoJob /\ worker[j].pc = "none" /\ ~InFlight(j)
                        /\ \A i \in Items : stage[j][i] = "idle" /\ committed[j][i] <= restarts
    BY <1>4, <1>5 DEF Local, Down
  <1>7. ASSUME NEW j \in Jobs
        PROVE  /\ marked[j] \in Record /\ (marked[j] # NoJob => db[j] # NoJob)
               /\ marked[j].status \in Terminal \cup {"interrupted", "absent"}
               /\ Resumable(marked[j]) => Open(db[j]) /\ marked[j] # NoJob
               /\ marked[j] # NoJob => /\ marked[j] \in Job
                                       /\ marked[j].keys = db[j].keys /\ marked[j].results = db[j].results
                                       /\ marked[j].status = "completed" => db[j].status = "completed"
    <2>1. marked[j] = [db[j] EXCEPT !.status = StatusAfterRestart(@)]
      BY <1>1
    <2> QED  BY <1>5, <2>1, Marked
  <1>8. marked \in [Jobs -> Record]
    BY <1>1, <1>7
  <1>9. \A k \in Jobs : marked[k] # NoJob => Present(k)
    BY <1>7 DEF Present
  <1>10. /\ cache \in [Jobs -> Record]
         /\ \A k \in Jobs : cache[k] \in {marked[k], NoJob}
         /\ \A k \in Jobs : Recent(k) => cache[k] = marked[k]
    BY <1>2, <1>8, <1>9, TrimmedIs
  <1>11. ASSUME NEW j \in Jobs
         PROVE  /\ j \in resumed <=> Resumable(marked[j])
                /\ j \in resumed => cache[j] = marked[j] /\ Unfinished(j)
    <2>1. ~Resumable(NoJob)
      BY Records DEF Open
    <2>2. Resumable(marked[j]) => Unfinished(j)
      BY <1>7 DEF Unfinished
    <2>3. Unfinished(j) => cache[j] = marked[j]
      BY <1>5, <1>10 DEF Held
    <2>4. Resumable(cache[j]) => cache[j] = marked[j]
      BY <1>10, <2>1
    <2> QED  BY <1>3, <2>2, <2>3, <2>4
  <1>12. ASSUME NEW j \in resumed
         PROVE  /\ j \in Jobs /\ mem'[j] = db'[j] /\ db'[j] \in Job /\ db'[j] # NoJob /\ db[j] # NoJob
                /\ db'[j].status = "running" /\ db'[j].keys = db[j].keys /\ db'[j].results = db[j].results
                /\ worker'[j] \in Worker /\ worker'[j].pc = "scheduled" /\ worker'[j].todo = {}
    <2>1. j \in Jobs
      BY <1>3
    <2>2. marked[j] \in Job /\ marked[j].keys = db[j].keys /\ marked[j].results = db[j].results
          /\ db[j] # NoJob /\ cache[j] = marked[j]
      BY <1>7, <1>11, <2>1
    <2>3. "running" \in Statuses
      BY DEF Statuses, Live
    <2>4. db'[j] = [marked[j] EXCEPT !.status = "running"] /\ mem'[j] = [cache[j] EXCEPT !.status = "running"]
      BY <1>4, <2>1
    <2>5. /\ db'[j] \in Job /\ db'[j].status = "running"
          /\ db'[j].keys = marked[j].keys /\ db'[j].results = marked[j].results
      BY <2>2, <2>3, <2>4, StatusSet
    <2>6. worker'[j] = [NoWorker EXCEPT !.pc = "scheduled"]
      BY <1>4, <2>1
    <2>7. worker'[j] \in Worker /\ worker'[j].pc = "scheduled" /\ worker'[j].todo = {}
      BY <2>6 DEF NoWorker, Worker
    <2> QED  BY <2>1, <2>2, <2>4, <2>5, <2>7, Records
  <1>13. ASSUME NEW j \in Jobs \ resumed
         PROVE  /\ db'[j] = marked[j] /\ mem'[j] \in {marked[j], NoJob} /\ mem'[j] \in Record
                /\ worker'[j] \in Worker /\ worker'[j].pc = "none" /\ worker'[j].todo = {}
                /\ ~Open(db'[j]) /\ ~Open(mem'[j])
    <2>1. db'[j] = marked[j] /\ mem'[j] = cache[j] /\ worker'[j] = NoWorker
      BY <1>4
    <2>2. NoWorker \in Worker /\ NoWorker.pc = "none" /\ NoWorker.todo = {}
      BY DEF NoWorker, Worker
    <2>3. ~Open(marked[j]) /\ ~Open(NoJob)
      BY <1>7, <1>11, Records DEF Open, Live, Terminal
    <2>4. cache[j] \in {marked[j], NoJob} /\ cache[j] \in Record
      BY <1>10
    <2> QED  BY <2>1, <2>2, <2>3, <2>4
  <1>14. TypeOK'
    <2>1. \A j \in Jobs : db'[j] \in Record /\ mem'[j] \in Record /\ worker'[j] \in Worker
      BY <1>7, <1>12, <1>13 DEF Record
    <2>2. db' \in [Jobs -> Record]
      <3>1. db' = [j \in Jobs |-> db'[j]]
        BY <1>4
      <3> QED  BY <2>1, <3>1
    <2>3. mem' \in [Jobs -> Record]
      <3>1. mem' = [j \in Jobs |-> mem'[j]]
        BY <1>4
      <3> QED  BY <2>1, <3>1
    <2>4. worker' \in [Jobs -> Worker]
      <3>1. worker' = [j \in Jobs |-> worker'[j]]
        BY <1>4
      <3> QED  BY <2>1, <3>1
    <2> QED  BY <1>4, <1>5, <2>2, <2>3, <2>4 DEF TypeOK, Record
  <1>15. ASSUME NEW j \in Jobs
         PROVE  /\ fetched'[j] = NoJob /\ NoJob.status = "absent" /\ ~InFlight(j)'
                /\ phase' = "up" /\ UNCHANGED <<count, committed, restarts>>
                /\ \A i \in Items : /\ stage'[j][i] = "idle" /\ committed'[j][i] = committed[j][i]
                                    /\ committed[j][i] <= restarts /\ committed[j][i] <= 1 + restarts
    <2>1. \A i \in Items : committed[j][i] \in Nat
      BY <1>5, RowTypes
    <2> QED  BY <1>4, <1>5, <1>6, <2>1, Records DEF InFlight
  <1>16. ASSUME NEW j \in Jobs
         PROVE  /\ Local(j)'
                /\ Unfinished(j)' => /\ Unfinished(j) /\ fetched'[j] = NoJob
                                     /\ phase' # "down" => mem'[j] # NoJob
                /\ Present(j)' => Present(j)
    <2>1. Local(j) /\ Backed(j, db[j]) /\ (db[j] # NoJob => j <= count)
      BY <1>5 DEF Local, RowsBacked, Numbered, Present
    <2>2. j > count => \A i \in Items : committed[j][i] = 0
      BY <2>1 DEF Local, Numbered
    <2>3. CASE j \in resumed
      <3>1. Numbered(j)'
        <4>1. j \in Nat /\ count \in Nat
          BY <1>5, BoundsType DEF TypeOK, Jobs
        <4> QED  BY <1>12, <1>15, <2>1, <2>3, <4>1 DEF Numbered
      <3>2. Down(j)' /\ Settled(j)' /\ Writing(j)'
        BY <1>12, <1>15, <2>3 DEF Down, Settled, Writing, Resumable
      <3>3. Phases(j)' /\ Complete(j)'
        BY <1>12, <1>15, <2>3 DEF Phases, Scheduled, AtWork, Over, Working, Draining, Complete
      <3>4. RowsBacked(j)'
        BY <1>12, <1>15, <2>1, <2>3 DEF RowsBacked, Backed
      <3>5. \A i \in Items : ItemOK(j, i)'
        BY <1>12, <1>15, <2>3 DEF ItemOK, Fresh, Working, Draining
      <3>6. Ended(j)' /\ Cancelling(j)'
        BY <1>12, <1>15, <2>3 DEF Ended, Cancelling, Terminal
      <3>7. Local(j)'
        BY <3>1, <3>2, <3>3, <3>4, <3>5, <3>6 DEF Local
      <3>8. Present(j)
        BY <1>12, <2>3 DEF Present
      <3> QED  BY <1>11, <1>12, <1>15, <2>3, <3>7, <3>8
    <2>4. CASE j \notin resumed
      <3>1. Numbered(j)'
        BY <1>7, <1>13, <1>15, <2>1, <2>4, <2>2 DEF Numbered, Present
      <3>2. Down(j)' /\ Settled(j)' /\ Writing(j)'
        BY <1>13, <1>15, <2>4 DEF Down, Settled, Writing, Open
      <3>3. Phases(j)' /\ Complete(j)'
        BY <1>13, <1>15, <2>4 DEF Phases, Scheduled, AtWork, Over, Working, Draining, Complete
      <3>4. RowsBacked(j)'
        BY <1>7, <1>13, <1>15, <2>1, <2>4 DEF RowsBacked, Backed
      <3>5. \A i \in Items : ItemOK(j, i)'
        BY <1>13, <1>15, <2>4 DEF ItemOK, Fresh, Working, Draining
      <3>6. Ended(j)' /\ Cancelling(j)'
        BY <1>7, <1>13, <1>15, <2>4 DEF Ended, Cancelling, Agrees, Terminal
      <3>7. Local(j)'
        BY <3>1, <3>2, <3>3, <3>4, <3>5, <3>6 DEF Local
      <3>8. ~Unfinished(j)' /\ (Present(j)' => Present(j))
        BY <1>7, <1>13, <1>15, <2>4 DEF Unfinished, Present
      <3> QED  BY <3>7, <3>8
    <2> QED  BY <2>3, <2>4
  <1>17. Exclusive' /\ \A k \in Jobs : Held(k)'
    <2>1. /\ \A k \in Jobs : Unfinished(k)' => /\ Unfinished(k) /\ fetched'[k] = NoJob
                                               /\ phase' # "down" => mem'[k] # NoJob
          /\ \A k \in Jobs : Present(k)' => Present(k)
      BY <1>16
    <2> QED  BY <2>1, OpenKept
  <1> QED  BY <1>14, <1>16, <1>17 DEF IInv

-----------------------------------------------------------------------------
(* The invariant.                                                          *)

LEMMA InitIInv == Init => IInv
  <1> SUFFICES ASSUME Init PROVE IInv
    OBVIOUS
  <1>1. /\ phase = "up" /\ count = 0 /\ write = NoWrite /\ restarts = 0 /\ failures = 0
        /\ mem = [j \in Jobs |-> NoJob] /\ db = [j \in Jobs |-> NoJob]
        /\ fetched = [j \in Jobs |-> NoJob] /\ worker = [j \in Jobs |-> NoWorker]
        /\ stage = [j \in Jobs |-> AllIdle]
        /\ committed = [j \in Jobs |-> [i \in Items |-> 0]]
    BY DEF Init
  <1>2. /\ NoWorker \in Worker /\ NoWorker.pc = "none" /\ NoWorker.todo = {}
        /\ AllIdle \in [Items -> Stages] /\ \A i \in Items : AllIdle[i] = "idle"
    BY DEF NoWorker, Worker, AllIdle, Stages
  <1>3. TypeOK
    <2>1. [i \in Items |-> 0] \in [Items -> Nat] /\ 0 \in 0..MaxJobs
      BY BoundsType
    <2> QED  BY <1>1, <1>2, <2>1 DEF TypeOK
  <1>4. ASSUME NEW j \in Jobs
        PROVE  /\ mem[j] = NoJob /\ db[j] = NoJob /\ fetched[j] = NoJob /\ ~InFlight(j)
               /\ worker[j].pc = "none" /\ worker[j].todo = {}
               /\ \A i \in Items : stage[j][i] = "idle" /\ committed[j][i] = 0
               /\ NoJob.status = "absent" /\ ~Resumable(NoJob) /\ ~Open(NoJob)
    BY <1>1, <1>2, Records DEF InFlight, Open
  <1>5. ASSUME NEW j \in Jobs
        PROVE  Local(j)
    <2>1. Numbered(j) /\ Down(j) /\ Settled(j) /\ Writing(j)
      BY <1>1, <1>4 DEF Numbered, Down, Settled, Writing, Present
    <2>2. Phases(j) /\ Complete(j) /\ RowsBacked(j)
      BY <1>4 DEF Phases, Scheduled, AtWork, Over, Working, Draining, Complete, RowsBacked, Backed
    <2>3. \A i \in Items : ItemOK(j, i)
      BY <1>1, <1>4 DEF ItemOK, Fresh, Working, Draining
    <2>4. Ended(j) /\ Cancelling(j)
      BY <1>4 DEF Ended, Cancelling, Terminal
    <2> QED  BY <2>1, <2>2, <2>3, <2>4 DEF Local
  <1>6. \A j \in Jobs : ~Unfinished(j)
    BY <1>4 DEF Unfinished
  <1> QED  BY <1>3, <1>5, <1>6 DEF IInv, Exclusive, Held

LEMMA NextIInv == IInv /\ [Next]_vars => IInv'
  <1> SUFFICES ASSUME IInv, [Next]_vars
               PROVE  IInv'
    OBVIOUS
  <1>1. CASE UNCHANGED vars
    <2>1. /\ UNCHANGED <<phase, count, restarts>> /\ TypeOK'
          /\ \A k \in Jobs : Same(k)
      BY <1>1 DEF vars, IInv, TypeOK, Same, InFlight
    <2> QED  BY <2>1, AllSame
  <1>2. CASE Request
    BY <1>2, StartJobKept, CancelJobKept, ReadJobKept, CacheJobKept DEF Request
  <1>3. CASE WriteDone
    BY <1>3, WriteDoneKept
  <1>4. CASE WriteRaises
    BY <1>4, WriteRaisesKept
  <1>5. ASSUME NEW j \in Jobs, WorkerStep(j)
        PROVE  IInv'
    BY <1>5, StartWorkerKept, SaveJobKept, OpenLibraryKept, StartBatchKept, FinishLoopKept,
       FinishDrainKept, RecordOutcomeKept DEF WorkerStep
  <1>6. ASSUME NEW j \in Jobs, NEW i \in Items, ItemStep(j, i)
        PROVE  IInv'
    BY <1>6, ItemStepKept
  <1>7. CASE Shutdown
    BY <1>7, ShutdownKept
  <1>8. CASE Exit
    BY <1>8, ExitKept
  <1>9. CASE Restart
    BY <1>9, RestartKept
  <1> QED  BY <1>1, <1>2, <1>3, <1>4, <1>5, <1>6, <1>7, <1>8, <1>9 DEF Next

\* The invariant holds in every reachable state, however starts, saves,
\* cancellations, stale reads, failing writes and restarts interleave.
THEOREM Invariance == Spec => []IInv
  BY InitIInv, NextIInv, PTL DEF Spec

-----------------------------------------------------------------------------
(* What follows from it.                                                   *)

\* Every variable of the triage jobs keeps its type (the record of a job in
\* memory, in the table and in the write in progress).
THEOREM TypeCorrect == Spec => []TypeOK
  <1>1. IInv => TypeOK
    BY DEF IInv
  <1> QED  BY <1>1, Invariance, PTL

\* Two jobs never work on items at once (the two checks of run_triage_job,
\* under its lock, against memory and against the table).
THEOREM OneJob == Spec => []OneJobAtATime
  <1>1. ASSUME IInv
        PROVE  OneJobAtATime
    <2>1. ASSUME NEW j \in Jobs, stage[j] # AllIdle
          PROVE  Unfinished(j)
      <3>1. stage[j] \in [Items -> Stages]
        BY <1>1 DEF IInv, TypeOK
      <3>2. \E i \in Items : stage[j][i] # "idle"
        BY <2>1, <3>1 DEF AllIdle
      <3>3. worker[j].pc \in Working
        BY <1>1, <3>2 DEF IInv, Local, Phases, Working
      <3> QED  BY <1>1, <3>3 DEF IInv, Local, Phases, AtWork, Unfinished, Open
    <2> QED  BY <1>1, <2>1 DEF OneJobAtATime, IInv, Exclusive
  <1> QED  BY <1>1, Invariance, PTL

\* A reported success was committed, and a completed job has one for every
\* item, in memory and in the table (_record_outcome, _run_job).
THEOREM Reports == Spec => []ReportsAreBacked
  <1>1. IInv => ReportsAreBacked
    BY DEF IInv, Local, RowsBacked, Backed, ReportsAreBacked
  <1> QED  BY <1>1, Invariance, PTL

\* Results are committed by InsertResult alone.
LEMMA CommittedChanges ==
    ASSUME [Next]_vars, committed' # committed
    PROVE  \E j \in Jobs, i \in Items :
              stage[j][i] = "insert" /\ committed' = [committed EXCEPT ![j][i] = @ + 1]
  <1>1. CASE Request
    BY <1>1 DEF Request, StartJob, CancelJob, ReadJob, CacheJob
  <1>2. ~WriteDone /\ ~WriteRaises
    BY DEF WriteDone, WriteRaises
  <1>3. \A j \in Jobs : ~WorkerStep(j)
    BY DEF WorkerStep, StartWorker, SaveJob, OpenLibrary, StartBatch, FinishLoop, FinishDrain,
           RecordOutcome
  <1>4. ASSUME NEW j \in Jobs, NEW i \in Items, ItemStep(j, i)
        PROVE  stage[j][i] = "insert" /\ committed' = [committed EXCEPT ![j][i] = @ + 1]
    <2>1. InsertResult(j, i)
      BY <1>4 DEF ItemStep, BeginItem, FinishWork, Deadline, EnterInsert, ReturnItem
    <2> QED  BY <2>1 DEF InsertResult
  <1>5. ~Shutdown /\ ~Exit /\ ~Restart
    BY DEF Shutdown, Exit, Restart
  <1> QED  BY <1>1, <1>2, <1>3, <1>4, <1>5 DEF Next, vars

\* No result is committed for a job that memory shows as over: cancel_triage_job
\* publishes "cancelling" until the threads have drained.
THEOREM NoLate == Spec => NoLateResult
  <1>1. ASSUME IInv, [Next]_vars, NEW j \in Jobs, committed'[j] # committed[j]
        PROVE  mem[j].status \in Live
    <2>1. PICK k \in Jobs, i \in Items :
             stage[k][i] = "insert" /\ committed' = [committed EXCEPT ![k][i] = @ + 1]
      BY <1>1, CommittedChanges
    <2>2. k = j
      BY <1>1, <2>1 DEF IInv, TypeOK
    <2>3. worker[j].pc \in Working
      BY <1>1, <2>1, <2>2 DEF IInv, Local, Phases, Working
    <2> QED  BY <1>1, <2>3 DEF IInv, Local, Phases, AtWork
  <1>2. IInv /\ [Next]_vars => \A j \in Jobs : committed'[j] # committed[j] => mem[j].status \in Live
    BY <1>1
  <1> QED  BY <1>2, Invariance, PTL DEF Spec, NoLateResult

\* An item whose success the table remembers is not summarised again
\* (remaining_keys), and each duplicate result costs a restart.
THEOREM NotRepeated == Spec => ResultsAreNotRepeated
  <1>1. ASSUME IInv, [Next]_vars, NEW j \in Jobs, NEW i \in Items, committed'[j][i] # committed[j][i]
        PROVE  i \notin db[j].results
    <2>1. PICK k \in Jobs, l \in Items :
             stage[k][l] = "insert" /\ committed' = [committed EXCEPT ![k][l] = @ + 1]
      BY <1>1, CommittedChanges
    <2>2. k = j /\ l = i
      BY <1>1, <2>1 DEF IInv, TypeOK
    <2>3. worker[j].pc \in Working /\ i \notin mem[j].results
      BY <1>1, <2>1, <2>2 DEF IInv, Local, Phases, Working, ItemOK
    <2> QED  BY <1>1, <2>3 DEF IInv, Local, Phases, AtWork
  <1>2. IInv /\ [Next]_vars =>
           \A j \in Jobs, i \in Items : committed'[j][i] # committed[j][i] => i \notin db[j].results
    BY <1>1
  <1>3. IInv => \A j \in Jobs, i \in Items : committed[j][i] <= 1 + restarts
    BY DEF IInv, Local, ItemOK
  <1> QED  BY <1>2, <1>3, Invariance, PTL DEF Spec, ResultsAreNotRepeated

\* The row of a job after a restart.
LEMMA RestartRow ==
    ASSUME TypeOK, Restart, NEW j \in Jobs
    PROVE  LET s == StatusAfterRestart(db[j].status)
           IN  db'[j].status = s \/ (s = "interrupted" /\ db'[j].status = "running")
  <1>1. PICK marked : marked = [k \in Jobs |-> [db[k] EXCEPT !.status = StatusAfterRestart(@)]]
    OBVIOUS
  <1>2. PICK cache : cache = Trimmed(marked)
    OBVIOUS
  <1>3. PICK resumed : resumed = {k \in Jobs : Resumable(cache[k])}
    OBVIOUS
  <1>4. db' = [k \in Jobs |-> IF k \in resumed THEN [marked[k] EXCEPT !.status = "running"] ELSE marked[k]]
    BY <1>1, <1>2, <1>3, Zenon DEF Restart
  <1>5. ASSUME NEW k \in Jobs
        PROVE  /\ marked[k] \in Record /\ marked[k].status = StatusAfterRestart(db[k].status)
               /\ marked[k] # NoJob => marked[k] \in Job
    <2>1. db[k] \in Record /\ marked[k] = [db[k] EXCEPT !.status = StatusAfterRestart(@)]
      BY <1>1 DEF TypeOK, Record
    <2> QED  BY <2>1, Marked
  <1>6. marked \in [Jobs -> Record]
    BY <1>1, <1>5
  <1>7. cache[j] \in {marked[j], NoJob}
    BY <1>2, <1>6, TrimmedIs
  <1>8. CASE j \in resumed
    <2>1. cache[j] = marked[j] /\ marked[j].status = "interrupted" /\ marked[j] \in Job
      BY <1>3, <1>5, <1>7, <1>8, Records DEF Resumable
    <2>2. db'[j] = [marked[j] EXCEPT !.status = "running"] /\ "running" \in Statuses
      BY <1>4, <1>8 DEF Statuses, Live
    <2>3. db'[j].status = "running"
      BY <2>1, <2>2, StatusSet
    <2> QED  BY <1>5, <2>1, <2>3
  <1>9. CASE j \notin resumed
    BY <1>4, <1>5, <1>9
  <1> QED  BY <1>8, <1>9

\* The table is written by WriteDone and by a restart.
LEMMA TableChanges ==
    ASSUME TypeOK, [Next]_vars, NEW j \in Jobs
    PROVE  \/ db'[j] = db[j]
           \/ InFlight(j) /\ db'[j] = write.row
           \/ Restart
  <1>1. CASE db' = db
    BY <1>1
  <1>2. CASE WriteDone
    <2>1. PICK k : k = write.job
      OBVIOUS
    <2>2. write # NoWrite /\ db' = [db EXCEPT ![k] = write.row]
      BY <1>2, <2>1 DEF WriteDone
    <2> QED  BY <2>1, <2>2 DEF TypeOK, InFlight
  <1>3. CASE ~WriteDone /\ ~Restart
    <2>1. Request => db' = db
      BY DEF Request, StartJob, CancelJob, ReadJob, CacheJob
    <2>2. \A k \in Jobs : WorkerStep(k) => db' = db
      BY DEF WorkerStep, StartWorker, SaveJob, OpenLibrary, StartBatch, FinishLoop, FinishDrain,
             RecordOutcome
    <2>3. \A k \in Jobs, i \in Items : ItemStep(k, i) => db' = db
      BY DEF ItemStep
    <2>4. (WriteRaises => db' = db) /\ (Shutdown => db' = db) /\ (Exit => db' = db)
      BY DEF WriteRaises, Shutdown, Exit
    <2> QED  BY <1>3, <2>1, <2>2, <2>3, <2>4 DEF Next, vars
  <1> QED  BY <1>2, <1>3

\* A job the table shows as ended stays as it ended.
THEOREM EndedStay == Spec => EndedJobsStay
  <1>1. ASSUME IInv, [Next]_vars, NEW j \in Jobs, db[j].status \in Terminal
        PROVE  db'[j].status = db[j].status
    <2>1. TypeOK /\ Ended(j)
      BY <1>1 DEF IInv, Local
    <2>2. CASE Restart
      <3>1. StatusAfterRestart(db[j].status) = db[j].status /\ db[j].status # "interrupted"
        BY <1>1 DEF StatusAfterRestart, Terminal
      <3> QED  BY <2>1, <2>2, <3>1, RestartRow
    <2> QED  BY <1>1, <2>1, <2>2, TableChanges DEF Ended
  <1>2. IInv /\ [Next]_vars => \A j \in Jobs : db[j].status \in Terminal => db'[j].status = db[j].status
    BY <1>1
  <1> QED  BY <1>2, Invariance, PTL DEF Spec, EndedJobsStay

\* A cancellation in the table is not undone by a snapshot taken before it or
\* after it, nor by a restart.
THEOREM CancellationStays == Spec => CancellationHolds
  <1>1. ASSUME IInv, [Next]_vars, NEW j \in Jobs, db[j].status = "cancelling"
        PROVE  db'[j].status \in {"cancelling", "cancelled", "failed"}
    <2>1. TypeOK /\ Cancelling(j)
      BY <1>1 DEF IInv, Local
    <2>2. CASE Restart
      <3>1. StatusAfterRestart(db[j].status) = "cancelled"
        BY <1>1 DEF StatusAfterRestart
      <3> QED  BY <2>1, <2>2, <3>1, RestartRow
    <2> QED  BY <1>1, <2>1, <2>2, TableChanges DEF Cancelling, Stops
  <1>2. IInv /\ [Next]_vars =>
           \A j \in Jobs : db[j].status = "cancelling" => db'[j].status \in {"cancelling", "cancelled", "failed"}
    BY <1>1
  <1> QED  BY <1>2, Invariance, PTL DEF Spec, CancellationHolds

=============================================================================
