-------------------------- MODULE ReviewFleet_proofs --------------------------
(***************************************************************************)
(* Proofs about ReviewFleet, for any papers, pool and bounds.              *)
(*                                                                         *)
(* IInv adds to the uniqueness of reviews (Alone) what a worker knows      *)
(* (WorkerOK): its job is in the table, and a placeholder it is about to   *)
(* write does not meet a usable digest.                                    *)
(***************************************************************************)
EXTENDS ReviewFleet, FiniteSetTheorems, SequenceTheorems, TLAPS

WorkerOK(w) ==
    /\ w.config <= config
    /\ w.key \notin clobbered =>
         /\ w.key \in running
         /\ w.pc = "write" /\ w.kind # "digest" => ~HasDigest(w.key)

Alone ==
    \A i, j \in DOMAIN work :
        work[i].key \notin clobbered /\ work[i].key = work[j].key => i = j

Dated == \A k \in Keys : cache[k].config <= config

IInv == TypeOK /\ Dated /\ Alone /\ (\A i \in DOMAIN work : WorkerOK(work[i]))

\* The body of DigestsAreKept.
Kept == \A k \in Keys \ clobbered : HasDigest(k) => cache'[k].kind = "digest"

-----------------------------------------------------------------------------
(* Sequences.                                                              *)

\* SetToSeq lists a finite set without repetition.
LEMMA Enumerated ==
    ASSUME NEW S, IsFiniteSet(S)
    PROVE  /\ SetToSeq(S) \in Seq(S)
           /\ \A i, j \in 1..Len(SetToSeq(S)) : SetToSeq(S)[i] = SetToSeq(S)[j] => i = j
  <1>1. Cardinality(S) \in Nat /\ ExistsBijection(1..Cardinality(S), S)
    BY FS_CardinalityType
  <1>2. \E f \in [1..Cardinality(S) -> S] : IsInjective(f)
    BY <1>1 DEF ExistsBijection, Bijection, Injection
  <1>3. SetToSeq(S) \in [1..Cardinality(S) -> S] /\ IsInjective(SetToSeq(S))
    BY <1>2 DEF SetToSeq
  <1>4. SetToSeq(S) \in Seq(S)
    BY <1>1, <1>3, SeqDef
  <1>5. DOMAIN SetToSeq(S) = 1..Len(SetToSeq(S))
    BY <1>4, LenProperties
  <1> QED  BY <1>3, <1>4, <1>5 DEF IsInjective

\* RemoveAt closes the gap.
LEMMA Removed ==
    ASSUME NEW S, NEW s \in Seq(S), NEW i \in 1..Len(s)
    PROVE  /\ RemoveAt(s, i) \in Seq(S)
           /\ Len(RemoveAt(s, i)) = Len(s) - 1
           /\ \A j \in 1..(Len(s) - 1) :
                 RemoveAt(s, i)[j] = IF j < i THEN s[j] ELSE s[j + 1]
  <1>1. Len(s) \in Nat /\ i \in Nat /\ \A j \in 1..Len(s) : s[j] \in S
    BY LenProperties, ElementOfSeq
  <1>a. PICK a : a = SubSeq(s, 1, i - 1)
    OBVIOUS
  <1>b. PICK b : b = SubSeq(s, i + 1, Len(s))
    OBVIOUS
  <1>2. a \in Seq(S) /\ Len(a) = i - 1 /\ \A j \in 1..(i - 1) : a[j] = s[j]
    <2>1. 1 \in Int /\ i - 1 \in Int /\ \A j \in 1..(i - 1) : s[j] \in S
      BY <1>1
    <2>2. /\ SubSeq(s, 1, i - 1) \in Seq(S)
          /\ Len(SubSeq(s, 1, i - 1)) = IF 1 <= i - 1 THEN (i - 1) - 1 + 1 ELSE 0
          /\ \A j \in 1..((i - 1) - 1 + 1) : SubSeq(s, 1, i - 1)[j] = s[1 + j - 1]
      BY <2>1, SubSeqProperties
    <2> QED  BY <1>1, <1>a, <2>2
  <1>3. b \in Seq(S) /\ Len(b) = Len(s) - i /\ \A j \in 1..(Len(s) - i) : b[j] = s[i + j]
    <2>1. i + 1 \in Int /\ Len(s) \in Int /\ \A j \in (i + 1)..Len(s) : s[j] \in S
      BY <1>1
    <2>2. /\ SubSeq(s, i + 1, Len(s)) \in Seq(S)
          /\ Len(SubSeq(s, i + 1, Len(s))) = IF i + 1 <= Len(s) THEN Len(s) - (i + 1) + 1 ELSE 0
          /\ \A j \in 1..(Len(s) - (i + 1) + 1) : SubSeq(s, i + 1, Len(s))[j] = s[(i + 1) + j - 1]
      BY <2>1, SubSeqProperties
    <2> QED  BY <1>1, <1>b, <2>2
  <1>4. RemoveAt(s, i) = a \o b
    BY <1>a, <1>b DEF RemoveAt
  <1>5. /\ a \o b \in Seq(S)
        /\ Len(a \o b) = Len(a) + Len(b)
        /\ \A j \in 1..(Len(a) + Len(b)) : (a \o b)[j] = IF j <= Len(a) THEN a[j] ELSE b[j - Len(a)]
    BY <1>2, <1>3, ConcatProperties
  <1>6. Len(a) + Len(b) = Len(s) - 1
    BY <1>1, <1>2, <1>3
  <1>7. ASSUME NEW j \in 1..(Len(s) - 1)
        PROVE  (a \o b)[j] = IF j < i THEN s[j] ELSE s[j + 1]
    <2>1. CASE j < i
      <3>1. j \in 1..(i - 1) /\ j <= Len(a) /\ j \in 1..(Len(a) + Len(b))
        BY <1>1, <1>2, <1>6, <2>1
      <3> QED  BY <1>2, <1>5, <2>1, <3>1
    <2>2. CASE ~(j < i)
      <3>1. /\ ~(j <= Len(a)) /\ j - Len(a) \in 1..(Len(s) - i) /\ i + (j - Len(a)) = j + 1
            /\ j \in 1..(Len(a) + Len(b))
        BY <1>1, <1>2, <1>6, <2>2
      <3>2. (a \o b)[j] = b[j - Len(a)]
        BY <1>5, <3>1
      <3> QED  BY <1>3, <2>2, <3>1, <3>2
    <2> QED  BY <2>1, <2>2
  <1> QED  BY <1>4, <1>5, <1>6, <1>7

-----------------------------------------------------------------------------
(* Types.                                                                  *)

LEMMA NoFleetType == NoFleet \in Fleet
  BY PoolType DEF NoFleet, Fleet, Outcomes

LEMMA InitOK ==
    Init => IInv
  <1> SUFFICES ASSUME Init PROVE IInv
    OBVIOUS
  <1>1. NoEntry \in Entry /\ NoEntry.config = 0
    BY BoundsType DEF NoEntry, Entry
  <1>2. cache \in [Keys -> Entry] /\ Dated
    BY <1>1 DEF Init, Dated
  <1>3. work \in Seq(Worker) /\ DOMAIN work = {}
    BY EmptySeq, LenProperties DEF Init
  <1>4. /\ config \in 0..MaxEdits /\ starts \in 0..MaxStarts /\ runs \in 0..MaxRuns
        /\ setupFailures \in 0..MaxSetupFailures
    BY BoundsType DEF Init
  <1>5. TypeOK
    BY <1>2, <1>3, <1>4, NoFleetType DEF Init, TypeOK
  <1> QED  BY <1>2, <1>3, <1>5 DEF IInv, Alone

\* The sequence of workers.
LEMMA WorkType ==
    ASSUME TypeOK
    PROVE  /\ Len(work) \in Nat
           /\ DOMAIN work = 1..Len(work)
           /\ \A i \in DOMAIN work : work[i] \in Worker
  <1>1. work \in Seq(Worker)
    BY DEF TypeOK
  <1> QED  BY <1>1, LenProperties, ElementOfSeq

\* Steps that leave reviews, job table and cache alone.
LEMMA ApartOK ==
    ASSUME IInv, UNCHANGED <<config, cache, running, work, clobbered>>
    PROVE  Dated' /\ Alone' /\ (\A i \in DOMAIN work : WorkerOK(work[i]))' /\ Kept
  <1>1. \A w \in Worker : WorkerOK(w) => WorkerOK(w)'
    BY DEF WorkerOK, HasDigest, Current
  <1>2. \A i \in DOMAIN work : WorkerOK(work[i])'
    <2> TAKE i \in DOMAIN work
    <2>1. PICK w : w = work[i]
      OBVIOUS
    <2>2. w \in Worker /\ WorkerOK(w) /\ work'[i] = w
      BY <2>1, WorkType DEF IInv
    <2> QED  BY <1>1, <2>2 DEF WorkerOK
  <1>3. Kept
    BY DEF Kept, HasDigest
  <1> QED  BY <1>2, <1>3 DEF IInv, Dated, Alone

\* A change of the settings outdates every review.
LEMMA EditOK ==
    ASSUME IInv, Edit
    PROVE  IInv' /\ Kept
  <1>1. /\ UNCHANGED <<cache, running, work, fleet, proposal, clobbered, starts, runs, setupFailures>>
        /\ config' = config + 1 /\ config \in Nat /\ config < MaxEdits
    BY BoundsType DEF Edit, IInv, TypeOK
  <1>2. config' \in 0..MaxEdits
    BY <1>1, BoundsType
  <1>3. TypeOK'
    BY <1>1, <1>2 DEF IInv, TypeOK
  <1>4. \A k \in Keys : cache[k] \in Entry
    BY DEF IInv, TypeOK
  <1>5. \A k \in Keys : cache[k].config <= config'
    BY <1>1, <1>4, BoundsType DEF IInv, Dated, Entry
  <1>6. \A k \in Keys : ~HasDigest(k)'
    <2>1. \A k \in Keys : cache[k].config # config'
      BY <1>1, <1>4, BoundsType DEF IInv, Dated, Entry
    <2> QED  BY <1>1, <2>1 DEF HasDigest, Current
  <1>7. \A i \in DOMAIN work : WorkerOK(work[i])'
    <2> TAKE i \in DOMAIN work
    <2>1. PICK w : w = work[i]
      OBVIOUS
    <2>2. w \in Worker /\ WorkerOK(w) /\ work'[i] = w
      BY <1>1, <2>1, WorkType DEF IInv
    <2>3. w.config <= config' /\ w.key \in Keys
      BY <1>1, <2>2, BoundsType DEF WorkerOK, Worker
    <2> QED  BY <1>1, <1>6, <2>2, <2>3 DEF WorkerOK
  <1>8. Kept
    BY <1>1 DEF Kept, HasDigest
  <1> QED  BY <1>1, <1>3, <1>5, <1>7, <1>8 DEF IInv, Dated, Alone

-----------------------------------------------------------------------------
(* Starting reviews.                                                       *)

\* Fresh workers, one for each paper of keys.
Queue(q, keys) ==
    /\ q \in Seq(Worker)
    /\ \A i \in 1..Len(q) : /\ q[i].key \in keys /\ q[i].config = config
                            /\ q[i].pc = "queued"
    /\ \A i, j \in 1..Len(q) : q[i].key = q[j].key => i = j

\* A submission adds a worker for each paper that is free.
LEMMA Submitted ==
    ASSUME TypeOK, NEW keys \in SUBSET Keys, NEW given, NEW acquire \in BOOLEAN, NEW q,
           q = Submissions(keys, given, acquire)
    PROVE  Queue(q, Free(keys))
  <1>a. PICK N : N = {NewWorker(k, given, acquire) : k \in Free(keys)}
    OBVIOUS
  <1>1. Free(keys) \subseteq Keys /\ IsFiniteSet(Free(keys))
    BY PapersType, FS_Subset DEF Free
  <1>2. \A k \in Keys : /\ NewWorker(k, given, acquire) \in Worker
                        /\ NewWorker(k, given, acquire).key = k
                        /\ NewWorker(k, given, acquire).config = config
                        /\ NewWorker(k, given, acquire).pc = "queued"
    BY DEF NewWorker, Worker, TypeOK
  <1>3. IsFiniteSet(N)
    <2>1. PICK f : f = [k \in Free(keys) |-> NewWorker(k, given, acquire)]
      OBVIOUS
    <2>2. f \in Surjection(Free(keys), N)
      BY <1>a, <2>1 DEF Surjection
    <2> QED  BY <1>1, <2>2, FS_Surjection
  <1>4. /\ q \in Seq(N)
        /\ \A i, j \in 1..Len(q) : q[i] = q[j] => i = j
    BY <1>3, <1>a, Enumerated DEF Submissions
  <1>5. N \subseteq Worker
    BY <1>1, <1>2, <1>a
  <1>6. q \in Seq(Worker) /\ \A i \in 1..Len(q) : q[i] \in N
    BY <1>4, <1>5, SeqMonotonic, ElementOfSeq
  <1>7. \A w \in N : w.key \in Free(keys) /\ w.config = config /\ w.pc = "queued"
    BY <1>1, <1>2, <1>a
  <1>8. \A v, w \in N : v.key = w.key => v = w
    BY <1>1, <1>2, <1>a
  <1> QED  BY <1>4, <1>6, <1>7, <1>8 DEF Queue

\* Start keeps what is said of workers and jobs.
LEMMA StartOK ==
    ASSUME IInv, NEW keys \in SUBSET Keys, NEW given, NEW acquire \in BOOLEAN,
           Start(keys, given, acquire), UNCHANGED <<config, cache>>
    PROVE  /\ work' \in Seq(Worker) /\ running' \subseteq Keys /\ clobbered' \subseteq Keys
           /\ setupFailures' \in 0..MaxSetupFailures
           /\ Dated' /\ Alone' /\ (\A i \in DOMAIN work : WorkerOK(work[i]))' /\ Kept
  <1>1. /\ running \subseteq Keys /\ clobbered \subseteq Keys /\ work \in Seq(Worker) /\ config \in Nat
        /\ setupFailures \in 0..MaxSetupFailures /\ TypeOK
    BY BoundsType DEF IInv, TypeOK
  <1>2. Dated' /\ Kept
    BY DEF IInv, Dated, Kept, HasDigest
  <1>3. CASE /\ running' = running \cup Free(keys)
             /\ work' = work \o Submissions(keys, given, acquire)
             /\ UNCHANGED <<clobbered, setupFailures>>
    <2>a. PICK q : q = Submissions(keys, given, acquire)
      OBVIOUS
    <2>0. Queue(q, Free(keys))
      BY <1>1, <2>a, Submitted, Zenon
    <2>1. /\ q \in Seq(Worker)
          /\ \A i \in 1..Len(q) : /\ q[i].key \in Free(keys) /\ q[i].config = config
                                  /\ q[i].pc = "queued"
          /\ \A i, j \in 1..Len(q) : q[i].key = q[j].key => i = j
      BY <2>0, Zenon DEF Queue
    <2>b. PICK n \in Nat : n = Len(work) /\ DOMAIN work = 1..n
      BY <1>1, WorkType
    <2>c. PICK m \in Nat : m = Len(q)
      BY <2>1, LenProperties
    <2>2. /\ work' \in Seq(Worker) /\ DOMAIN work' = 1..(n + m)
          /\ \A i \in 1..n : work'[i] = work[i]
          /\ \A i \in (n + 1)..(n + m) : work'[i] = q[i - n] /\ i - n \in 1..m
      <3>1. /\ work \o q \in Seq(Worker) /\ Len(work \o q) = n + m
            /\ \A i \in 1..(n + m) : (work \o q)[i] = IF i <= n THEN work[i] ELSE q[i - n]
        BY <1>1, <2>1, <2>b, <2>c, ConcatProperties
      <3>2. work' = work \o q
        BY <1>3, <2>a
      <3>3. DOMAIN work' = 1..(n + m)
        BY <3>1, <3>2, LenProperties
      <3>4. \A i \in 1..n : i \in 1..(n + m) /\ i <= n
        BY <2>b, <2>c
      <3>5. \A i \in (n + 1)..(n + m) : i \in 1..(n + m) /\ ~(i <= n) /\ i - n \in 1..m
        BY <2>b, <2>c
      <3> QED  BY <3>1, <3>2, <3>3, <3>4, <3>5
    <2>3. \A i \in 1..(n + m) : i \in 1..n \/ i \in (n + 1)..(n + m)
      OBVIOUS
    <2>4. \A i \in 1..n : WorkerOK(work[i])'
      <3> TAKE i \in 1..n
      <3>1. PICK w : w = work[i]
        OBVIOUS
      <3>2. w \in Worker /\ WorkerOK(w) /\ work'[i] = w
        BY <1>1, <2>b, <2>2, <3>1, WorkType DEF IInv
      <3> QED  BY <1>3, <3>2 DEF WorkerOK, HasDigest, Current
    <2>5. \A i \in (n + 1)..(n + m) : WorkerOK(work[i])' /\ work'[i].key \in Free(keys)
      <3> TAKE i \in (n + 1)..(n + m)
      <3>1. PICK w : w = work'[i]
        OBVIOUS
      <3>2. w.key \in Free(keys) /\ w.config = config /\ w.pc = "queued"
        BY <2>1, <2>2, <2>c, <3>1
      <3>3. w.config <= config
        BY <1>1, <3>2
      <3> QED  BY <1>3, <3>1, <3>2, <3>3 DEF WorkerOK
    <2>6. \A i \in 1..(n + m) : WorkerOK(work[i])'
      BY <2>3, <2>4, <2>5
    <2>7. Alone'
      <3> SUFFICES ASSUME NEW i \in 1..(n + m), NEW j \in 1..(n + m),
                          work'[i].key \notin clobbered, work'[i].key = work'[j].key
                   PROVE  i = j
        BY <1>3, <2>2 DEF Alone
      <3>1. \A l \in 1..n : work'[l].key \notin clobbered => work'[l].key \in running
        BY <2>b, <2>2 DEF IInv, WorkerOK
      <3>2. \A l \in (n + 1)..(n + m) : work'[l].key \notin running
        BY <2>5 DEF Free
      <3>3. CASE i \in 1..n /\ j \in 1..n
        BY <2>b, <2>2, <3>3 DEF IInv, Alone
      <3>4. CASE i \in (n + 1)..(n + m) /\ j \in (n + 1)..(n + m)
        <4>1. i - n = j - n
          BY <2>1, <2>2, <2>c, <3>4
        <4> QED  BY <4>1
      <3> QED  BY <2>3, <3>1, <3>2, <3>3, <3>4
    <2>8. running' \subseteq Keys
      BY <1>1, <1>3 DEF Free
    <2> QED  BY <1>1, <1>2, <1>3, <2>2, <2>6, <2>7, <2>8
  <1>4. CASE /\ setupFailures < MaxSetupFailures
             /\ setupFailures' = setupFailures + 1
             /\ running' = running \ keys
             /\ clobbered' = clobbered \cup (keys \cap running)
             /\ UNCHANGED work
    <2>1. setupFailures' \in 0..MaxSetupFailures
      BY <1>1, <1>4, BoundsType
    <2>2. Alone'
      BY <1>4 DEF IInv, Alone
    <2>3. \A i \in DOMAIN work : WorkerOK(work[i])'
      <3> TAKE i \in DOMAIN work
      <3>1. PICK w : w = work[i]
        OBVIOUS
      <3>2. w \in Worker /\ WorkerOK(w) /\ work'[i] = w
        BY <1>1, <1>4, <3>1, WorkType DEF IInv
      <3> QED  BY <1>4, <3>2 DEF WorkerOK, HasDigest, Current
    <2> QED  BY <1>1, <1>2, <1>4, <2>1, <2>2, <2>3
  <1> QED  BY <1>3, <1>4 DEF Start

LEMMA StartReviewOK ==
    ASSUME IInv, NEW k \in Keys, NEW acquire \in BOOLEAN, StartReview(k, acquire)
    PROVE  IInv' /\ Kept
  <1>1. /\ Start({k}, {}, acquire) /\ UNCHANGED <<config, cache, fleet, proposal, runs>>
        /\ {k} \in SUBSET Keys
    BY DEF StartReview
  <1>2. starts' \in 0..MaxStarts
    BY BoundsType DEF StartReview, IInv, TypeOK
  <1>3. /\ work' \in Seq(Worker) /\ running' \subseteq Keys /\ clobbered' \subseteq Keys
        /\ setupFailures' \in 0..MaxSetupFailures
        /\ Dated' /\ Alone' /\ (\A i \in DOMAIN work : WorkerOK(work[i]))' /\ Kept
    BY <1>1, StartOK
  <1>4. TypeOK'
    BY <1>1, <1>2, <1>3 DEF IInv, TypeOK
  <1> QED  BY <1>3, <1>4 DEF IInv

-----------------------------------------------------------------------------
(* The workers of the pool.                                                *)

\* A worker goes on; cache and job table stay.
LEMMA WorkerMoves ==
    ASSUME IInv, NEW i \in DOMAIN work, NEW x \in Worker,
           x.key = work[i].key, x.config = work[i].config,
           work' = [work EXCEPT ![i] = x], WorkerOK(x),
           UNCHANGED <<cache, running>>, WorkStep(i)
    PROVE  IInv' /\ Kept
  <1>1. UNCHANGED <<config, fleet, proposal, clobbered, starts, runs, setupFailures>>
    BY DEF WorkStep
  <1>2. work \in Seq(Worker) /\ i \in 1..Len(work) /\ DOMAIN work = 1..Len(work)
    BY WorkType DEF IInv, TypeOK
  <1>3. /\ work' \in Seq(Worker) /\ Len(work') = Len(work)
        /\ \A j \in DOMAIN work : work'[j] = IF j = i THEN x ELSE work[j]
    BY <1>2, ExceptSeq
  <1>4. DOMAIN work' = DOMAIN work
    BY <1>2, <1>3, LenProperties
  <1>5. TypeOK'
    BY <1>1, <1>3 DEF IInv, TypeOK
  <1>6. Alone'
    BY <1>1, <1>3, <1>4 DEF IInv, Alone
  <1>7. \A w \in Worker : WorkerOK(w) => WorkerOK(w)'
    BY <1>1 DEF WorkerOK, HasDigest, Current
  <1>8. \A j \in DOMAIN work : WorkerOK(work[j])'
    <2> TAKE j \in DOMAIN work
    <2>1. PICK w : w = IF j = i THEN x ELSE work[j]
      OBVIOUS
    <2>2. w \in Worker /\ WorkerOK(w)
      BY <2>1, WorkType DEF IInv
    <2> QED  BY <1>3, <1>7, <2>1, <2>2 DEF WorkerOK
  <1>9. Dated' /\ Kept
    BY <1>1 DEF IInv, Dated, Kept, HasDigest
  <1> QED  BY <1>4, <1>5, <1>6, <1>8, <1>9 DEF IInv

LEMMA TakeUpOK ==
    ASSUME IInv, NEW i \in DOMAIN work, TakeUp(i)
    PROVE  IInv' /\ Kept
  <1>w. PICK w : w = work[i]
    OBVIOUS
  <1>x. PICK x : x = [w EXCEPT !.pc = "review"]
    OBVIOUS
  <1>1. w \in Worker /\ WorkerOK(w)
    BY <1>w, WorkType DEF IInv
  <1>2. x \in Worker /\ x.key = w.key /\ x.config = w.config /\ x.pc = "review"
    BY <1>1, <1>x DEF Worker
  <1>3. work' = [work EXCEPT ![i] = x] /\ UNCHANGED <<cache, running>> /\ WorkStep(i)
    BY <1>w, <1>x DEF TakeUp
  <1>4. WorkerOK(x)
    BY <1>1, <1>2 DEF WorkerOK
  <1> QED  BY <1>w, <1>2, <1>3, <1>4, WorkerMoves

LEMMA ReviewOK ==
    ASSUME IInv, NEW i \in DOMAIN work, Review(i)
    PROVE  IInv' /\ Kept
  <1>w. PICK w : w = work[i]
    OBVIOUS
  <1>k. PICK kind \in {"digest", "needs_pdf"} :
           work' = [work EXCEPT ![i].pc = "check", ![i].kind = kind]
    BY DEF Review
  <1>x. PICK x : x = [w EXCEPT !.pc = "check", !.kind = kind]
    OBVIOUS
  <1>1. w \in Worker /\ WorkerOK(w)
    BY <1>w, WorkType DEF IInv
  <1>2. x \in Worker /\ x.key = w.key /\ x.config = w.config /\ x.pc = "check"
    BY <1>1, <1>x DEF Worker
  <1>3. work' = [work EXCEPT ![i] = x]
    BY <1>k, <1>w, <1>x
  <1>4. UNCHANGED <<cache, running>> /\ WorkStep(i)
    BY DEF Review
  <1>5. WorkerOK(x)
    BY <1>1, <1>2 DEF WorkerOK
  <1> QED  BY <1>w, <1>2, <1>3, <1>4, <1>5, WorkerMoves

LEMMA DropOK ==
    ASSUME IInv, NEW i \in DOMAIN work, Drop(i)
    PROVE  IInv' /\ Kept
  <1>w. PICK w : w = work[i]
    OBVIOUS
  <1>x. PICK x : x = [w EXCEPT !.pc = "settle"]
    OBVIOUS
  <1>1. w \in Worker /\ WorkerOK(w)
    BY <1>w, WorkType DEF IInv
  <1>2. x \in Worker /\ x.key = w.key /\ x.config = w.config /\ x.pc = "settle"
    BY <1>1, <1>x DEF Worker
  <1>3. work' = [work EXCEPT ![i] = x] /\ UNCHANGED <<cache, running>> /\ WorkStep(i)
    BY <1>w, <1>x DEF Drop
  <1>4. WorkerOK(x)
    BY <1>1, <1>2 DEF WorkerOK
  <1> QED  BY <1>w, <1>2, <1>3, <1>4, WorkerMoves

\* publishable_entry: a placeholder goes on to the write only where there is
\* no usable digest.
LEMMA CheckOK ==
    ASSUME IInv, NEW i \in DOMAIN work, Check(i)
    PROVE  IInv' /\ Kept
  <1>w. PICK w : w = work[i]
    OBVIOUS
  <1>x. PICK x : x = [w EXCEPT !.pc = IF Publishable(i) THEN "write" ELSE "settle"]
    OBVIOUS
  <1>1. w \in Worker /\ WorkerOK(w)
    BY <1>w, WorkType DEF IInv
  <1>2. /\ x \in Worker /\ x.key = w.key /\ x.config = w.config /\ x.kind = w.kind
        /\ x.pc = IF Publishable(i) THEN "write" ELSE "settle"
    BY <1>1, <1>x DEF Worker
  <1>3. work' = [work EXCEPT ![i] = x] /\ UNCHANGED <<cache, running>> /\ WorkStep(i)
    BY <1>w, <1>x DEF Check
  <1>4. WorkerOK(x)
    BY <1>w, <1>1, <1>2 DEF WorkerOK, Publishable
  <1> QED  BY <1>w, <1>2, <1>3, <1>4, WorkerMoves

\* No other worker has the paper, so none has looked at the cache before.
LEMMA WriteOK ==
    ASSUME IInv, NEW i \in DOMAIN work, Write(i)
    PROVE  IInv' /\ Kept
  <1>w. PICK w : w = work[i]
    OBVIOUS
  <1>x. PICK x : x = [w EXCEPT !.pc = "settle"]
    OBVIOUS
  <1>e. PICK e : e = [kind |-> w.kind, config |-> w.config]
    OBVIOUS
  <1>1. w \in Worker /\ WorkerOK(w)
    BY <1>w, WorkType DEF IInv
  <1>2. x \in Worker /\ x.key = w.key /\ x.config = w.config /\ x.pc = "settle"
    BY <1>1, <1>x DEF Worker
  <1>3. e \in Entry /\ e.kind = w.kind /\ e.config = w.config /\ w.key \in Keys
    BY <1>1, <1>e DEF Worker, Entry
  <1>4. /\ work' = [work EXCEPT ![i] = x] /\ cache' = [cache EXCEPT ![w.key] = e]
        /\ UNCHANGED <<config, running, fleet, proposal, clobbered, starts, runs, setupFailures>>
        /\ w.pc = "write"
    BY <1>w, <1>x, <1>e DEF Write, WorkStep
  <1>5. work \in Seq(Worker) /\ i \in 1..Len(work) /\ DOMAIN work = 1..Len(work)
    BY WorkType DEF IInv, TypeOK
  <1>6. /\ work' \in Seq(Worker) /\ Len(work') = Len(work)
        /\ \A j \in DOMAIN work : work'[j] = IF j = i THEN x ELSE work[j]
    BY <1>2, <1>4, <1>5, ExceptSeq
  <1>7. DOMAIN work' = DOMAIN work
    BY <1>5, <1>6, LenProperties
  <1>8. /\ cache' \in [Keys -> Entry] /\ cache'[w.key] = e
        /\ \A k \in Keys \ {w.key} : cache'[k] = cache[k]
    BY <1>3, <1>4 DEF IInv, TypeOK
  <1>9. TypeOK'
    BY <1>4, <1>6, <1>8 DEF IInv, TypeOK
  <1>10. Alone'
    <2>1. \A j \in DOMAIN work : work'[j].key = work[j].key
      BY <1>2, <1>6, <1>w
    <2> QED  BY <1>4, <1>7, <2>1 DEF IInv, Alone
  <1>11. Dated'
    BY <1>1, <1>3, <1>4, <1>8 DEF IInv, Dated, WorkerOK
  <1>12. ASSUME NEW j \in DOMAIN work
         PROVE  WorkerOK(work[j])'
    <2>1. CASE j = i
      <3>1. work'[j] = x
        BY <1>6, <2>1
      <3> QED  BY <1>1, <1>2, <1>4, <3>1 DEF WorkerOK
    <2>2. CASE j # i
      <3>1. PICK v : v = work[j]
        OBVIOUS
      <3>2. v \in Worker /\ WorkerOK(v) /\ work'[j] = v /\ v.key \in Keys
        BY <1>6, <2>2, <3>1, WorkType DEF IInv, Worker
      <3>3. v.key \notin clobbered => v.key # w.key
        BY <2>2, <3>1, <1>w DEF IInv, Alone
      <3>4. v.key \notin clobbered => (HasDigest(v.key)' <=> HasDigest(v.key))
        BY <1>4, <1>8, <3>2, <3>3 DEF HasDigest, Current
      <3> QED  BY <1>4, <3>2, <3>4 DEF WorkerOK
    <2> QED  BY <2>1, <2>2
  <1>13. Kept
    <2> SUFFICES ASSUME NEW k \in Keys \ clobbered, HasDigest(k)
                 PROVE  cache'[k].kind = "digest"
      BY DEF Kept
    <2>1. CASE k = w.key
      BY <1>1, <1>3, <1>4, <1>8, <2>1 DEF WorkerOK
    <2>2. CASE k # w.key
      BY <1>8, <2>2 DEF HasDigest
    <2> QED  BY <2>1, <2>2
  <1> QED  BY <1>7, <1>9, <1>10, <1>11, <1>12, <1>13 DEF IInv

\* The job is over and the worker is gone: the jobs of the others stay.
LEMMA SettleOK ==
    ASSUME IInv, NEW i \in DOMAIN work, Settle(i)
    PROVE  IInv' /\ Kept
  <1>1. /\ UNCHANGED <<config, cache, fleet, proposal, clobbered, starts, runs, setupFailures>>
        /\ running' = running \ {work[i].key} /\ work' = RemoveAt(work, i)
    BY DEF Settle, WorkStep
  <1>b. PICK n \in Nat : n = Len(work) /\ DOMAIN work = 1..n
    BY WorkType DEF IInv
  <1>2. work \in Seq(Worker) /\ i \in 1..Len(work) /\ i \in 1..n
    BY <1>b DEF IInv, TypeOK
  <1>3. /\ work' \in Seq(Worker) /\ Len(work') = n - 1
        /\ \A j \in 1..(n - 1) : work'[j] = IF j < i THEN work[j] ELSE work[j + 1]
    BY <1>1, <1>2, <1>b, Removed
  <1>4. DOMAIN work' = 1..(n - 1)
    BY <1>3, LenProperties
  <1>a. PICK at : at = [j \in 1..(n - 1) |-> IF j < i THEN j ELSE j + 1]
    OBVIOUS
  <1>5. /\ \A j \in 1..(n - 1) : at[j] \in 1..n /\ at[j] # i /\ work'[j] = work[at[j]]
        /\ \A j, l \in 1..(n - 1) : at[j] = at[l] => j = l
    <2>1. \A j \in 1..(n - 1) : at[j] = IF j < i THEN j ELSE j + 1
      BY <1>a
    <2>2. \A j \in 1..(n - 1) : at[j] \in 1..n /\ at[j] # i
      BY <1>2, <2>1
    <2>3. \A j, l \in 1..(n - 1) : at[j] = at[l] => j = l
      BY <1>2, <2>1
    <2> QED  BY <1>3, <2>1, <2>2, <2>3
  <1>6. TypeOK'
    BY <1>1, <1>3 DEF IInv, TypeOK
  <1>7. Alone'
    <2> SUFFICES ASSUME NEW j \in 1..(n - 1), NEW l \in 1..(n - 1),
                        work'[j].key \notin clobbered, work'[j].key = work'[l].key
                 PROVE  j = l
      BY <1>1, <1>4 DEF Alone
    <2>1. at[j] = at[l]
      BY <1>5, <1>b DEF IInv, Alone
    <2> QED  BY <1>5, <2>1
  <1>8. ASSUME NEW j \in 1..(n - 1)
        PROVE  WorkerOK(work[j])'
    <2>1. PICK v : v = work[at[j]]
      OBVIOUS
    <2>2. v \in Worker /\ WorkerOK(v) /\ work'[j] = v
      BY <1>5, <1>b, <2>1, WorkType DEF IInv
    <2>3. v.key \notin clobbered => v.key # work[i].key
      BY <1>2, <1>5, <1>b, <2>1 DEF IInv, Alone
    <2> QED  BY <1>1, <2>2, <2>3 DEF WorkerOK, HasDigest, Current
  <1>9. Dated' /\ Kept
    BY <1>1 DEF IInv, Dated, Kept, HasDigest
  <1> QED  BY <1>4, <1>6, <1>7, <1>8, <1>9 DEF IInv

-----------------------------------------------------------------------------
(* The fleet.                                                              *)

\* A step of the fleet that starts nothing.
LEMMA FleetMoves ==
    ASSUME IInv, fleet' \in Fleet, proposal' \subseteq Keys, runs' \in 0..MaxRuns,
           UNCHANGED <<config, cache, running, work, clobbered, starts, setupFailures>>
    PROVE  IInv' /\ Kept
  <1>1. TypeOK'
    BY DEF IInv, TypeOK
  <1> QED  BY <1>1, ApartOK DEF IInv

LEMMA StartFleetOK ==
    ASSUME IInv, NEW keys \in SUBSET Keys, StartFleet(keys)
    PROVE  IInv' /\ Kept
  <1>1. /\ UNCHANGED <<running, work, proposal, clobbered, setupFailures, config, cache, starts>>
        /\ fleet' = [NoFleet EXCEPT !.pc = "first", !.keys = keys]
    BY DEF StartFleet, FleetOnly
  <1>2. fleet' \in Fleet
    BY <1>1, NoFleetType DEF Fleet
  <1>3. runs' \in 0..MaxRuns
    BY BoundsType DEF StartFleet, IInv, TypeOK
  <1>4. proposal' \subseteq Keys
    BY <1>1 DEF IInv, TypeOK
  <1> QED  BY <1>1, <1>2, <1>3, <1>4, FleetMoves

LEMMA BatchOK ==
    ASSUME IInv, NEW S \in SUBSET Keys, NEW given, NEW here,
           NEW poll \in {"firstpoll", "secondpoll"}, NEW next \in {"acquire", "propose"},
           NEW left \in SUBSET Keys, Batch(S, given, here, poll, next, left)
    PROVE  IInv' /\ Kept
  <1>f. PICK f : f = fleet
    OBVIOUS
  <1>1. UNCHANGED <<proposal, runs, config, cache, starts>> /\ f \in Fleet
    BY <1>f DEF Batch, FleetOnly, IInv, TypeOK
  <1>2. CASE S = {}
    <2>1. /\ fleet' = [f EXCEPT !.pc = next, !.left = left]
          /\ UNCHANGED <<running, work, clobbered, setupFailures>>
      BY <1>2, <1>f DEF Batch
    <2>2. fleet' \in Fleet
      BY <1>1, <2>1 DEF Fleet
    <2>3. proposal' \subseteq Keys /\ runs' \in 0..MaxRuns
      BY <1>1 DEF IInv, TypeOK
    <2> QED  BY <1>1, <2>1, <2>2, <2>3, FleetMoves
  <1>3. CASE S # {}
    <2>1. /\ fleet' = [f EXCEPT !.pc = poll, !.waited = 0]
          /\ Start(S, given, FALSE)
      BY <1>3, <1>f DEF Batch
    <2>2. fleet' \in Fleet
      <3>1. 0 \in 0..BatchWait
        BY PoolType
      <3> QED  BY <1>1, <2>1, <3>1 DEF Fleet
    <2>3. /\ work' \in Seq(Worker) /\ running' \subseteq Keys /\ clobbered' \subseteq Keys
          /\ setupFailures' \in 0..MaxSetupFailures
          /\ Dated' /\ Alone' /\ (\A i \in DOMAIN work : WorkerOK(work[i]))' /\ Kept
      BY <1>1, <2>1, StartOK
    <2>4. TypeOK'
      BY <1>1, <2>2, <2>3 DEF IInv, TypeOK
    <2> QED  BY <2>3, <2>4 DEF IInv
  <1> QED  BY <1>2, <1>3

LEMMA PollOK ==
    ASSUME IInv, NEW here, NEW next \in {"acquire", "propose"}, NEW left \in SUBSET Keys,
           Poll(here, next, left)
    PROVE  IInv' /\ Kept
  <1>f. PICK f : f = fleet
    OBVIOUS
  <1>1. /\ UNCHANGED <<running, work, proposal, clobbered, runs, setupFailures, config, cache, starts>>
        /\ f \in Fleet /\ proposal' \subseteq Keys /\ runs' \in 0..MaxRuns
    BY <1>f DEF Poll, FleetOnly, IInv, TypeOK
  <1>2. PICK n \in 0..BatchWait : n = IF f.waited < BatchWait THEN f.waited + 1 ELSE f.waited
    <2>1. f.waited \in 0..BatchWait
      BY <1>1 DEF Fleet
    <2> QED  BY <2>1, PoolType
  <1>3. \/ fleet' = [f EXCEPT !.pc = next, !.left = left]
        \/ fleet' = [f EXCEPT !.waited = n]
    BY <1>1, <1>2, <1>f DEF Poll, Fleet
  <1>4. fleet' \in Fleet
    BY <1>1, <1>3 DEF Fleet
  <1> QED  BY <1>1, <1>4, FleetMoves

LEMMA AcquireOK ==
    ASSUME IInv, NEW k \in Keys, Acquire(k)
    PROVE  IInv' /\ Kept
  <1>f. PICK f : f = fleet
    OBVIOUS
  <1>1. /\ UNCHANGED <<running, work, proposal, clobbered, runs, setupFailures, config, cache, starts>>
        /\ f \in Fleet /\ proposal' \subseteq Keys /\ runs' \in 0..MaxRuns
    BY <1>f DEF Acquire, FleetOnly, IInv, TypeOK
  <1>n. PICK next : next = [f EXCEPT !.left = @ \ {k}]
    OBVIOUS
  <1>2. next \in Fleet
    BY <1>1, <1>n DEF Fleet
  <1>3. \/ fleet' = next
        \/ fleet' = [next EXCEPT !.fetched = @ \cup {k}]
        \/ fleet' = [next EXCEPT !.login = @ \cup {k}]
        \/ \E o \in {"failed", "browser_extra_unavailable"} : fleet' = [next EXCEPT !.outcome[k] = o]
    BY <1>f, <1>n DEF Acquire
  <1>4. ASSUME NEW o \in Outcomes PROVE [next EXCEPT !.outcome[k] = o] \in Fleet
    <2>1. [next.outcome EXCEPT ![k] = o] \in [Keys -> Outcomes \cup {"none"}]
      BY <1>2 DEF Fleet
    <2> QED  BY <1>2, <2>1 DEF Fleet
  <1>5. fleet' \in Fleet
    <2>1. [next EXCEPT !.fetched = @ \cup {k}] \in Fleet /\ [next EXCEPT !.login = @ \cup {k}] \in Fleet
      BY <1>2 DEF Fleet
    <2> QED  BY <1>2, <1>3, <1>4, <2>1 DEF Outcomes
  <1> QED  BY <1>1, <1>5, FleetMoves

LEMMA ProposeOK ==
    ASSUME IInv, NEW k \in Keys, Propose(k)
    PROVE  IInv' /\ Kept
  <1>f. PICK f : f = fleet
    OBVIOUS
  <1>1. /\ UNCHANGED <<running, work, clobbered, runs, setupFailures, config, cache, starts>>
        /\ f \in Fleet /\ runs' \in 0..MaxRuns
    BY <1>f DEF Propose, FleetOnly, IInv, TypeOK
  <1>2. OutcomeOf(k) \in Outcomes
    <2>1. f.outcome[k] \in Outcomes \cup {"none"}
      BY <1>1 DEF Fleet
    <2> QED  BY <1>f, <2>1 DEF OutcomeOf, Outcomes
  <1>o. PICK o : o = [f.outcome EXCEPT ![k] = OutcomeOf(k)]
    OBVIOUS
  <1>3. o \in [Keys -> Outcomes \cup {"none"}]
    BY <1>1, <1>2, <1>o DEF Fleet
  <1>4. fleet' = [f EXCEPT !.left = @ \ {k}, !.outcome = o]
    BY <1>f, <1>o, <1>1 DEF Propose, Fleet
  <1>5. fleet' \in Fleet
    BY <1>1, <1>3, <1>4 DEF Fleet
  <1>6. proposal' \subseteq Keys
    BY DEF Propose, IInv, TypeOK
  <1> QED  BY <1>1, <1>5, <1>6, FleetMoves

LEMMA FleetStepOK ==
    ASSUME IInv, FleetStep
    PROVE  IInv' /\ Kept
  <1>t. fleet \in Fleet
    BY DEF IInv, TypeOK
  <1>1. fleet.keys \in SUBSET Keys /\ fleet.fetched \in SUBSET Keys
    BY <1>t DEF Fleet
  <1>2. CASE FirstBatch
    <2>1. {k \in fleet.keys : ~Current(k)} \in SUBSET Keys
      BY <1>1
    <2> QED  BY <1>1, <1>2, <2>1, BatchOK DEF FirstBatch
  <1>3. CASE SecondBatch
    <2>1. {k \in fleet.fetched : ~HasDigest(k)} \in SUBSET Keys
      BY <1>1
    <2> QED  BY <1>1, <1>3, <2>1, BatchOK DEF SecondBatch
  <1>4. CASE FirstPoll
    BY <1>1, <1>4, PollOK DEF FirstPoll
  <1>5. CASE SecondPoll
    BY <1>1, <1>5, PollOK DEF SecondPoll
  <1>6. CASE AcquireDone \/ FinishFleet
    <2>1. /\ UNCHANGED <<running, work, proposal, clobbered, runs, setupFailures, config, cache, starts>>
          /\ \E pc \in {"second", "off"} : fleet' = [fleet EXCEPT !.pc = pc]
      BY <1>6 DEF AcquireDone, FinishFleet, FleetOnly
    <2>2. fleet' \in Fleet
      BY <1>t, <2>1 DEF Fleet
    <2>3. proposal' \subseteq Keys /\ runs' \in 0..MaxRuns
      BY <2>1 DEF IInv, TypeOK
    <2> QED  BY <2>1, <2>2, <2>3, FleetMoves
  <1> QED  BY <1>2, <1>3, <1>4, <1>5, <1>6, AcquireOK, ProposeOK DEF FleetStep

-----------------------------------------------------------------------------
LEMMA RestartOK ==
    ASSUME IInv, Restart
    PROVE  IInv' /\ Kept
  <1>1. /\ running' = {} /\ work' = <<>> /\ fleet' = NoFleet /\ clobbered' = {}
        /\ UNCHANGED <<config, cache, proposal, starts, runs, setupFailures>>
    BY DEF Restart
  <1>2. work' \in Seq(Worker) /\ DOMAIN work' = {}
    BY <1>1, EmptySeq, LenProperties
  <1>3. TypeOK'
    BY <1>1, <1>2, NoFleetType DEF IInv, TypeOK
  <1> QED  BY <1>1, <1>2, <1>3 DEF IInv, Alone, Dated, Kept, HasDigest

LEMMA NextOK ==
    ASSUME IInv, [Next]_vars
    PROVE  IInv' /\ Kept
  <1>1. CASE UNCHANGED vars
    <2>1. /\ UNCHANGED <<config, cache, running, work, clobbered, starts, setupFailures>>
          /\ fleet' = fleet /\ proposal' = proposal /\ runs' = runs
      BY <1>1 DEF vars
    <2> QED  BY <2>1, FleetMoves DEF IInv, TypeOK
  <1>2. ASSUME NEW i \in DOMAIN work, WorkerStep(i) PROVE IInv' /\ Kept
    BY <1>2, TakeUpOK, ReviewOK, DropOK, CheckOK, WriteOK, SettleOK DEF WorkerStep
  <1> QED  BY <1>1, <1>2, EditOK, StartReviewOK, StartFleetOK, FleetStepOK, RestartOK DEF Next

-----------------------------------------------------------------------------
(* The theorems.                                                           *)

\* Every variable keeps its type.
THEOREM TypeCorrect == Spec => []TypeOK
  <1>1. IInv => TypeOK
    BY DEF IInv
  <1> QED  BY InitOK, NextOK, <1>1, PTL DEF Spec

\* _submit: a paper has at most one review under way, with a running job, as
\* long as no failing setup has overwritten the job.
THEOREM OneReview == Spec => []OneReviewPerPaper
  <1>1. IInv => OneReviewPerPaper
    BY DEF IInv, Alone, WorkerOK, OneReviewPerPaper
  <1> QED  BY InitOK, NextOK, <1>1, PTL DEF Spec

\* publishable_entry: no placeholder replaces a usable digest, although the
\* cache is looked at before the write.
THEOREM DigestsStay == Spec => DigestsAreKept
  <1>1. IInv /\ [Next]_vars => [Kept]_vars
    BY NextOK
  <1> QED  BY InitOK, NextOK, <1>1, PTL DEF Spec, DigestsAreKept, Kept
=============================================================================
