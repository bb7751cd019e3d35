------------------------ MODULE SearchSessions_proofs ------------------------
(***************************************************************************)
(* Proofs about SearchSessions, for any candidates, threads and bounds.    *)
(*                                                                         *)
(* IInv says that a request that holds the lock has a copy of the session  *)
(* as it is in the file (Held), that one worker at most is under way and   *)
(* the file's status shows it (Alone), and how the reviews of its copy     *)
(* relate to those in the file (Shelf).  Counted relates the items of a    *)
(* candidate to its stamp.                                                 *)
(***************************************************************************)
EXTENDS SearchSessions, FiniteSetTheorems, TLAPS

Gone  == {"off", "over"}
Early == {"round", "saveround", "load", "light", "saveband"}
Late  == {"deep", "savedeep", "savefinal"}

NotDeep(s) == \A c \in Candidates : s.review[c] # "deep"

\* A copy of the session lists all that the file lists, but for what was
\* folded.
Covers(s) == file.cands \ Foldable \subseteq s.cands

WorkerOK(x) ==
    /\ x.pc = "off" => NotDeep(x.mem) /\ x.mem.status = "absent"
    /\ x.pc \in Early => NotDeep(file) /\ NotDeep(x.mem)
    /\ x.pc \in Late => \A c \in Candidates : file.review[c] = "deep" => x.mem.review[c] = "deep"
    /\ \A c \in x.left : x.mem.review[c] # "deep"
    /\ x.pc \in {"saveround", "light", "saveband", "deep", "savedeep"} => x.mem.status = "reviewing"
    /\ x.pc = "round" => x.mem.status \in {"absent", "reviewing"}
    /\ x.pc = "savefinal" => x.mem.status = "reviewed"
    /\ x.mem.stamped \subseteq x.mem.cands
    /\ x.pc \in {"saveround", "light", "saveband", "deep", "savedeep", "savefinal"} => Covers(x.mem)
    /\ x.pc = "round" /\ x.mem.status # "absent" => Covers(x.mem)

Held ==
    \A k \in Clicks : click[k].pc \in {"write", "stamp"} =>
        /\ lock = k /\ click[k].mem = file /\ ~Absent
        /\ click[k].cand \in file.cands
        /\ click[k].pc = "write" => click[k].cand \notin file.stamped

Alone ==
    \A w \in Workers : worker[w].pc \notin Gone =>
        /\ file.status \in {"reviewing", "absent"}
        /\ Absent => deleted
        /\ \A v \in Workers : worker[v].pc \notin Gone => v = w

Shelf ==
    /\ \A w \in Workers : WorkerOK(worker[w])
    /\ file.status = "screened" => NotDeep(file)
    /\ file.stamped \subseteq file.cands

Erased == deleted => Absent

\* The item of a candidate is written and its stamp is still to come.
Stamping(c) == \E k \in Clicks : click[k].pc = "stamp" /\ click[k].cand = c

Counted ==
    \A c \in Candidates \ Foldable :
        items[c] <= cut[c] + IF Absent \/ c \in file.stamped \/ Stamping(c) THEN 1 ELSE 0

IInv == TypeOK /\ Held /\ Alone /\ Shelf /\ Erased /\ Counted

\* What a step may do to the file (the body of NothingSavedIsLost).
Kept ==
    /\ file'.status # "absent" =>
         \A c \in file.cands \cap file'.cands :
             /\ c \in file.stamped => c \in file'.stamped
             /\ file.review[c] = "deep" => file'.review[c] = "deep"
    /\ file.status \in {"reviewed", "error"} =>
         file'.status \in {file.status, "absent"}

-----------------------------------------------------------------------------
LEMMA NoSessionType ==
    /\ NoSession \in Session /\ NoSession.status = "absent" /\ NotDeep(NoSession)
    /\ NoSession.cands = {} /\ NoSession.stamped = {}
  BY DEF NoSession, Session, Reviews, NotDeep

LEMMA ThreadType ==
    ASSUME NEW pc \in Gone
    PROVE  Thread(pc) \in Worker /\ Thread(pc).pc = pc /\ Thread(pc).left = {} /\ WorkerOK(Thread(pc))
  BY NoSessionType, LimitsType DEF Thread, Worker, Gone, WorkerOK, Early, Late, Covers

LEMMA OverType ==
    ASSUME TypeOK, NEW k \in Clicks
    PROVE  /\ Over(k) \in [Clicks -> Click] /\ Over(k)[k].pc = "over" /\ Over(k)[k] \in Click
           /\ \A m \in Clicks \ {k} : Over(k)[m] = click[m]
  BY NoSessionType DEF Over, TypeOK, Click

LEMMA InitOK ==
    Init => IInv
  <1> SUFFICES ASSUME Init PROVE IInv
    OBVIOUS
  <1>1. file \in Session /\ file.status = "screened" /\ NotDeep(file)
    BY NoSessionType, CandidatesType DEF Init, Session, NotDeep
  <1>2. \A w \in Workers : worker[w] \in Worker /\ worker[w].pc \in Gone /\ WorkerOK(worker[w])
    BY ThreadType DEF Init, Gone
  <1>3. \A k \in Clicks : click[k] \in Click /\ click[k].pc = "ready"
    BY NoSessionType DEF Init, Click
  <1>4. TypeOK
    <2>1. worker \in [Workers -> Worker]
      BY <1>2 DEF Init
    <2>2. click \in [Clicks -> Click]
      BY <1>3 DEF Init
    <2>3. lock = Nobody /\ deleted = FALSE /\ restarts = 0 /\ items \in [Candidates -> Nat] /\ cut \in [Candidates -> Nat]
      BY DEF Init
    <2>4. restarts \in 0..MaxRestarts
      BY <2>3, LimitsType
    <2>5. deleted \in BOOLEAN /\ lock \in Clicks \cup {Nobody}
      BY <2>3
    <2> QED  BY <1>1, <2>1, <2>2, <2>3, <2>4, <2>5 DEF TypeOK
  <1>5. deleted = FALSE
    BY DEF Init
  <1>6. file.stamped \subseteq file.cands
    BY DEF Init, NoSession
  <1>7. Counted
    BY DEF Init, Counted
  <1> QED  BY <1>1, <1>2, <1>3, <1>4, <1>5, <1>6, <1>7 DEF IInv, Held, Alone, Shelf, Erased

\* A step of a worker that touches its own copy only.
LEMMA LocalOK ==
    ASSUME IInv, NEW w \in Workers, NEW x \in Worker, worker' = [worker EXCEPT ![w] = x],
           WorkerOK(x), worker[w].pc \notin Gone,
           UNCHANGED <<file, deleted, lock, click, items, cut, restarts>>
    PROVE  IInv' /\ Kept
  <1>1. TypeOK'
    BY DEF IInv, TypeOK
  <1>2. worker'[w] = x /\ \A v \in Workers \ {w} : worker'[v] = worker[v]
    BY DEF IInv, TypeOK
  <1>3. Held' /\ Alone'
    BY <1>2 DEF IInv, Held, Alone, Absent
  <1>4. \A v \in Workers : WorkerOK(worker'[v])
    BY <1>2 DEF IInv, Shelf
  <1>5. \A y : WorkerOK(y)' <=> WorkerOK(y)
    BY DEF WorkerOK, NotDeep, Covers
  <1>6. Shelf'
    BY <1>4 DEF IInv, Shelf, WorkerOK, NotDeep, Covers
  <1>7. Kept /\ Erased' /\ Counted'
    BY DEF Kept, IInv, Erased, Absent, Counted, Stamping
  <1> QED  BY <1>1, <1>3, <1>6, <1>7 DEF IInv

\* A step of a worker that saves the session.
LEMMA SavingOK ==
    ASSUME IInv, NEW w \in Workers, NEW x \in Worker, worker' = [worker EXCEPT ![w] = x],
           LockFree, file' \in Session, WorkerOK(x)',
           \A v \in Workers \ {w} : worker[v].pc \in Gone,
           x.pc \notin Gone => file'.status \in {"reviewing", "absent"} /\ (Absent' => deleted),
           file'.status # "screened", deleted => Absent', Absent => Absent',
           file'.stamped \subseteq file'.cands,
           \A c \in Candidates \ Foldable : c \in file.stamped => c \in file'.stamped,
           UNCHANGED <<deleted, lock, click, items, cut, restarts>>
    PROVE  IInv'
  <1>1. TypeOK'
    BY DEF IInv, TypeOK
  <1>2. worker'[w] = x /\ \A v \in Workers \ {w} : worker'[v] = worker[v]
    BY DEF IInv, TypeOK
  <1>3. Held'
    BY ThreadsType DEF IInv, Held, LockFree
  <1>4. Alone'
    BY <1>2 DEF Alone
  <1>5. ASSUME NEW v \in Workers PROVE WorkerOK(worker[v])'
    <2>1. CASE v = w
      BY <1>2, <2>1 DEF WorkerOK
    <2>2. CASE v # w
      BY <1>2, <2>2 DEF IInv, Shelf, WorkerOK, Gone, Early, Late
    <2> QED  BY <2>1, <2>2
  <1>6. Shelf'
    BY <1>5 DEF Shelf
  <1>7. Counted'
    <2> SUFFICES ASSUME NEW c \in Candidates \ Foldable
                 PROVE  items[c]' <= cut[c]' + IF (Absent \/ c \in file.stamped \/ Stamping(c))' THEN 1 ELSE 0
      BY DEF Counted
    <2>1. Absent \/ c \in file.stamped \/ Stamping(c) => (Absent \/ c \in file.stamped \/ Stamping(c))'
      BY DEF Stamping
    <2>2. items[c] <= cut[c] + IF Absent \/ c \in file.stamped \/ Stamping(c) THEN 1 ELSE 0
      BY DEF IInv, Counted
    <2>3. items[c] \in Nat /\ cut[c] \in Nat /\ items'[c] = items[c] /\ cut'[c] = cut[c]
      BY DEF IInv, TypeOK
    <2> QED  BY <2>1, <2>2, <2>3
  <1> QED  BY <1>1, <1>3, <1>4, <1>6, <1>7 DEF IInv, Erased

-----------------------------------------------------------------------------
(* The worker.                                                             *)

\* What the steps of a worker need to know of it.
LEMMA Working ==
    ASSUME IInv, NEW w \in Workers, worker[w].pc \notin Gone
    PROVE  /\ worker[w] \in Worker /\ WorkerOK(worker[w])
           /\ file.status \in {"reviewing", "absent"} /\ (Absent <=> deleted)
           /\ \A v \in Workers \ {w} : worker[v].pc \in Gone
           /\ file \in Session /\ file.stamped \subseteq file.cands
  BY DEF IInv, TypeOK, Alone, Shelf, Erased

LEMMA ClaimOK ==
    ASSUME IInv, NEW w \in Workers, Claim(w)
    PROVE  IInv' /\ Kept
  <1>a. PICK x : x = [worker[w] EXCEPT !.pc = "round"]
    OBVIOUS
  <1>1. /\ worker[w] \in Worker /\ worker[w].pc = "off" /\ file \in Session
        /\ file.status = "screened" /\ LockFree /\ NotDeep(file)
        /\ file.stamped \subseteq file.cands
        /\ \A v \in Workers : worker[v].pc \in Gone
    BY DEF Claim, IInv, TypeOK, Alone, Shelf
  <1>2. x \in Worker /\ x.pc = "round" /\ x.mem = worker[w].mem /\ x.left = worker[w].left
    BY <1>1, <1>a DEF Worker
  <1>3. file' \in Session /\ (file' = file \/ file' = [file EXCEPT !.status = "reviewing"])
    BY <1>1 DEF Claim, Save, Session
  <1>4. deleted = FALSE
    BY <1>1 DEF IInv, TypeOK, Erased, Absent
  <1>5. WorkerOK(worker[w])
    BY DEF IInv, Shelf
  <1>6. file'.status = "reviewing" /\ file'.review = file.review /\ file'.cands = file.cands
        /\ file'.stamped = file.stamped
    BY <1>1, <1>4 DEF Claim, Save, Session
  <1>7. WorkerOK(x)'
    BY <1>1, <1>2, <1>5, <1>6 DEF WorkerOK, Early, Late, NotDeep, Covers
  <1>8. Kept
    BY <1>1, <1>6 DEF Kept
  <1>9. worker' = [worker EXCEPT ![w] = x]
    BY <1>a DEF Claim, Goto
  <1> QED  BY <1>1, <1>2, <1>3, <1>4, <1>6, <1>7, <1>8, <1>9, SavingOK DEF Claim, Only, Absent

\* A step that only moves the worker on.
LEMMA GotoOK ==
    ASSUME IInv, NEW w \in Workers, worker[w].pc \notin Gone, UNCHANGED file, Only(w),
           NEW pc \in {"load", "fail", "saveband"}, Goto(w, pc),
           pc = "saveband" => worker[w].pc = "light", pc = "load" => worker[w].pc = "round"
    PROVE  IInv' /\ Kept
  <1>a. PICK x : x = [worker[w] EXCEPT !.pc = pc]
    OBVIOUS
  <1>1. worker[w] \in Worker /\ WorkerOK(worker[w])
    BY Working
  <1>2. /\ x \in Worker /\ x.pc = pc /\ x.mem = worker[w].mem /\ x.left = worker[w].left
        /\ x.rounds = worker[w].rounds
    BY <1>1, <1>a DEF Worker
  <1>3. WorkerOK(x)
    BY <1>1, <1>2 DEF WorkerOK, Early, Late, Covers
  <1> QED  BY <1>2, <1>3, <1>a, LocalOK DEF Goto, Only

LEMMA QuitOK ==
    ASSUME IInv, NEW w \in Workers, worker[w].pc \notin Gone, UNCHANGED file, Only(w), Quit(w)
    PROVE  IInv' /\ Kept
  BY ThreadType, LocalOK DEF Quit, Only, Gone

LEMMA StartRoundsOK ==
    ASSUME IInv, NEW w \in Workers, StartRounds(w)
    PROVE  IInv' /\ Kept
  <1>1. worker[w].pc = "round"
    BY DEF StartRounds
  <1>2. worker[w] \in Worker /\ WorkerOK(worker[w]) /\ file \in Session /\ file.status \in {"reviewing", "absent"}
        /\ file.stamped \subseteq file.cands
    BY <1>1, Working DEF Gone
  <1>3. CASE Absent
    BY <1>1, <1>3, GotoOK DEF StartRounds, Gone
  <1>4. CASE ~Absent
    <2>a. PICK x : x = [worker[w] EXCEPT !.mem = file]
      OBVIOUS
    <2>1. x \in Worker /\ x.pc = "round" /\ x.mem = file /\ x.left = worker[w].left
      BY <1>1, <1>2, <2>a DEF Worker
    <2>2. x.left \subseteq Candidates
      BY <2>1 DEF Worker
    <2>3. WorkerOK(x)
      BY <1>1, <1>2, <2>1, <2>2 DEF WorkerOK, Early, Late, NotDeep, Covers
    <2> QED  BY <1>1, <1>4, <2>1, <2>3, <2>a, LocalOK DEF StartRounds, Only, Gone
  <1> QED  BY <1>3, <1>4

LEMMA RoundOK ==
    ASSUME IInv, NEW w \in Workers, Round(w)
    PROVE  IInv' /\ Kept
  <1>1. worker[w].pc = "round" /\ worker[w].mem.status # "absent" /\ worker[w].rounds < MaxRounds
    BY DEF Round
  <1>2. worker[w] \in Worker /\ WorkerOK(worker[w])
    BY <1>1, Working DEF Gone
  <1>3. PICK s \in Unions(worker[w].mem) :
          worker' = [worker EXCEPT ![w].pc = "saveround", ![w].mem = s, ![w].rounds = @ + 1]
    BY DEF Round
  <1>4. worker[w].mem \in Session
    BY <1>2 DEF Worker
  <1>b. PICK m : m = worker[w].mem
    OBVIOUS
  <1>c. m.stamped \subseteq m.cands /\ Covers(m)
    BY <1>1, <1>2, <1>b DEF WorkerOK
  <1>5. /\ s \in Session /\ s.status = worker[w].mem.status /\ s.review = worker[w].mem.review
        /\ s.stamped \subseteq s.cands /\ Covers(s)
    <2>1. ASSUME NEW more \in SUBSET (Candidates \ m.cands), s = Joined(m, more)
          PROVE  /\ s \in Session /\ s.status = m.status /\ s.review = m.review
                 /\ s.stamped \subseteq s.cands /\ Covers(s)
      BY <1>4, <1>b, <1>c, <2>1 DEF Session, Joined, Covers
    <2>2. ASSUME NEW t \in Twins \cap (m.cands \X m.cands), s = Folded(m, t[1], t[2])
          PROVE  /\ s \in Session /\ s.status = m.status /\ s.review = m.review
                 /\ s.stamped \subseteq s.cands /\ Covers(s)
      <3>1. /\ t[1] \in Candidates /\ t[2] \in Candidates /\ t[1] # t[2]
            /\ t[1] \in m.cands /\ t[2] \in Foldable
        BY CandidatesType DEF Foldable
      <3>2. m \in Session
        BY <1>4, <1>b
      <3>3. /\ s.cands = m.cands \ {t[2]}
            /\ s.stamped \subseteq (m.stamped \ {t[2]}) \cup {t[1]}
            /\ s \in Session /\ s.status = m.status /\ s.review = m.review
        BY <2>2, <3>1, <3>2 DEF Session, Folded
      <3> QED  BY <1>c, <3>1, <3>3 DEF Covers
    <2>3. s \in Unions(m)
      BY <1>3, <1>b
    <2> QED  BY <2>1, <2>2, <2>3, <1>b DEF Unions
  <1>a. PICK x : x = [worker[w] EXCEPT !.pc = "saveround", !.mem = s, !.rounds = @ + 1]
    OBVIOUS
  <1>6. x \in Worker /\ x.pc = "saveround" /\ x.mem = s /\ x.left = worker[w].left
    <2>1. worker[w].rounds + 1 \in 0..MaxRounds
      BY <1>1, <1>2, LimitsType DEF Worker
    <2> QED  BY <1>1, <1>2, <1>5, <1>a, <2>1 DEF Worker
  <1>7. WorkerOK(x)
    BY <1>1, <1>2, <1>5, <1>6 DEF WorkerOK, Early, Late, NotDeep, Covers
  <1>8. worker' = [worker EXCEPT ![w] = x]
    BY <1>3, <1>a DEF IInv, TypeOK
  <1> QED  BY <1>1, <1>6, <1>7, <1>8, LocalOK DEF Round, Only, Gone

LEMMA EndRoundsOK ==
    ASSUME IInv, NEW w \in Workers, EndRounds(w)
    PROVE  IInv' /\ Kept
  BY GotoOK DEF EndRounds, Gone

LEMMA LoadOK ==
    ASSUME IInv, NEW w \in Workers, Load(w)
    PROVE  IInv' /\ Kept
  <1>1. worker[w].pc = "load"
    BY DEF Load
  <1>2. /\ worker[w] \in Worker /\ WorkerOK(worker[w]) /\ file \in Session
        /\ file.status \in {"reviewing", "absent"} /\ file.stamped \subseteq file.cands
    BY <1>1, Working DEF Gone
  <1>3. CASE Absent
    BY <1>1, <1>3, GotoOK DEF Load, Gone
  <1>4. CASE ~Absent
    <2>1. PICK band \in SUBSET file.cands :
            worker' = [worker EXCEPT ![w].pc = "light", ![w].mem = file, ![w].left = band]
      BY <1>4 DEF Load
    <2>a. PICK x : x = [worker[w] EXCEPT !.pc = "light", !.mem = file, !.left = band]
      OBVIOUS
    <2>2. band \subseteq Candidates
      BY <1>2 DEF Session
    <2>3. x \in Worker /\ x.pc = "light" /\ x.mem = file /\ x.left = band
      BY <1>2, <2>2, <2>a DEF Worker
    <2>4. WorkerOK(x)
      BY <1>1, <1>2, <1>4, <2>2, <2>3 DEF WorkerOK, Early, Late, NotDeep, Absent, Covers
    <2>5. worker' = [worker EXCEPT ![w] = x]
      BY <2>1, <2>a DEF IInv, TypeOK
    <2> QED  BY <1>1, <2>3, <2>4, <2>5, LocalOK DEF Load, Only, Gone
  <1> QED  BY <1>3, <1>4

LEMMA LightOK ==
    ASSUME IInv, NEW w \in Workers, NEW c \in Candidates, Light(w, c)
    PROVE  IInv' /\ Kept
  <1>1. worker[w].pc = "light" /\ c \in worker[w].left
    BY DEF Light
  <1>2. worker[w] \in Worker /\ WorkerOK(worker[w])
    BY <1>1, Working DEF Gone
  <1>3. CASE deleted
    BY <1>1, <1>3, QuitOK DEF Light, Gone
  <1>4. CASE ~deleted
    <2>1. PICK r \in {"light", "error"} :
            worker' = [worker EXCEPT ![w].left = @ \ {c}, ![w].mem.review[c] = r]
      BY <1>4 DEF Light
    <2>a. PICK x : x = [worker[w] EXCEPT !.left = @ \ {c}, !.mem.review[c] = r]
      OBVIOUS
    <2>2. worker[w].mem \in Session
      BY <1>2 DEF Worker
    <2>b. PICK m : m = [worker[w].mem EXCEPT !.review[c] = r]
      OBVIOUS
    <2>3. /\ m \in Session /\ m.status = worker[w].mem.status
          /\ m.cands = worker[w].mem.cands /\ m.stamped = worker[w].mem.stamped
          /\ \A d \in Candidates : m.review[d] = IF d = c THEN r ELSE worker[w].mem.review[d]
      BY <2>2, <2>b DEF Session, Reviews
    <2>4. x \in Worker /\ x.pc = "light" /\ x.mem = m /\ x.left = worker[w].left \ {c}
          /\ x.left \subseteq Candidates
      BY <1>1, <1>2, <2>3, <2>a, <2>b DEF Worker
    <2>5. WorkerOK(x)
      BY <1>1, <1>2, <2>3, <2>4 DEF WorkerOK, Early, Late, NotDeep, Covers
    <2>6. worker' = [worker EXCEPT ![w] = x]
      BY <2>1, <2>a DEF IInv, TypeOK
    <2> QED  BY <1>1, <2>4, <2>5, <2>6, LocalOK DEF Light, Only, Gone
  <1> QED  BY <1>3, <1>4

LEMMA LightDoneOK ==
    ASSUME IInv, NEW w \in Workers, LightDone(w)
    PROVE  IInv' /\ Kept
  BY GotoOK, QuitOK DEF LightDone, Gone

LEMMA DeepOK ==
    ASSUME IInv, NEW w \in Workers, NEW c \in Candidates, Deep(w, c)
    PROVE  IInv' /\ Kept
  <1>1. worker[w].pc = "deep" /\ c \in worker[w].left
    BY DEF Deep
  <1>2. worker[w] \in Worker /\ WorkerOK(worker[w])
    BY <1>1, Working DEF Gone
  <1>3. CASE deleted
    BY <1>1, <1>3, QuitOK DEF Deep, Gone
  <1>4. CASE worker' = [worker EXCEPT ![w].left = @ \ {c}]
    <2>a. PICK x : x = [worker[w] EXCEPT !.left = @ \ {c}]
      OBVIOUS
    <2>1. x \in Worker /\ x.pc = "deep" /\ x.mem = worker[w].mem /\ x.left = worker[w].left \ {c}
      BY <1>1, <1>2, <2>a DEF Worker
    <2>2. WorkerOK(x)
      BY <1>1, <1>2, <2>1 DEF WorkerOK, Early, Late, Covers
    <2>3. worker' = [worker EXCEPT ![w] = x]
      BY <1>4, <2>a DEF IInv, TypeOK
    <2> QED  BY <1>1, <2>1, <2>2, <2>3, LocalOK DEF Deep, Only, Gone
  <1>5. CASE \E r \in {"deep", "error"} :
                worker' = [worker EXCEPT ![w].pc = "savedeep", ![w].left = @ \ {c},
                                         ![w].mem.review[c] = r]
    <2>1. PICK r \in {"deep", "error"} :
                worker' = [worker EXCEPT ![w].pc = "savedeep", ![w].left = @ \ {c},
                                         ![w].mem.review[c] = r]
      BY <1>5
    <2>a. PICK x : x = [worker[w] EXCEPT !.pc = "savedeep", !.left = @ \ {c}, !.mem.review[c] = r]
      OBVIOUS
    <2>2. worker[w].mem \in Session
      BY <1>2 DEF Worker
    <2>b. PICK m : m = [worker[w].mem EXCEPT !.review[c] = r]
      OBVIOUS
    <2>3. /\ m \in Session /\ m.status = worker[w].mem.status
          /\ m.cands = worker[w].mem.cands /\ m.stamped = worker[w].mem.stamped
          /\ \A d \in Candidates : m.review[d] = IF d = c THEN r ELSE worker[w].mem.review[d]
      BY <2>2, <2>b DEF Session, Reviews
    <2>4. x \in Worker /\ x.pc = "savedeep" /\ x.mem = m /\ x.left = worker[w].left \ {c}
          /\ x.left \subseteq Candidates
      BY <1>1, <1>2, <2>3, <2>a, <2>b DEF Worker
    <2>5. worker[w].mem.review[c] # "deep"
      BY <1>1, <1>2 DEF WorkerOK, Covers
    <2>6. WorkerOK(x)
      BY <1>1, <1>2, <2>3, <2>4, <2>5 DEF WorkerOK, Early, Late, Covers
    <2>7. worker' = [worker EXCEPT ![w] = x]
      BY <2>1, <2>a DEF IInv, TypeOK
    <2> QED  BY <1>1, <2>4, <2>6, <2>7, LocalOK DEF Deep, Only, Gone
  <1> QED  BY <1>3, <1>4, <1>5 DEF Deep

LEMMA DeepDoneOK ==
    ASSUME IInv, NEW w \in Workers, DeepDone(w)
    PROVE  IInv' /\ Kept
  <1>1. worker[w].pc = "deep" /\ worker[w].left = {}
    BY DEF DeepDone
  <1>2. worker[w] \in Worker /\ WorkerOK(worker[w])
    BY <1>1, Working DEF Gone
  <1>3. CASE deleted
    BY <1>1, <1>3, QuitOK DEF DeepDone, Gone
  <1>4. CASE ~deleted
    <2>a. PICK x : x = [worker[w] EXCEPT !.pc = "savefinal", !.mem.status = "reviewed"]
      OBVIOUS
    <2>1. worker[w].mem \in Session
      BY <1>2 DEF Worker
    <2>2. /\ x \in Worker /\ x.pc = "savefinal" /\ x.mem.status = "reviewed"
          /\ x.mem.review = worker[w].mem.review /\ x.left = {}
          /\ x.mem.cands = worker[w].mem.cands /\ x.mem.stamped = worker[w].mem.stamped
      BY <1>1, <1>2, <2>1, <2>a DEF Worker, Session
    <2>3. WorkerOK(x)
      BY <1>1, <1>2, <2>2 DEF WorkerOK, Early, Late, Covers
    <2>4. worker' = [worker EXCEPT ![w] = x]
      BY <1>4, <2>a DEF DeepDone, IInv, TypeOK
    <2> QED  BY <1>1, <2>2, <2>3, <2>4, LocalOK DEF DeepDone, Only, Gone
  <1> QED  BY <1>3, <1>4

LEMMA RaiseOK ==
    ASSUME IInv, NEW w \in Workers, Raise(w)
    PROVE  IInv' /\ Kept
  BY GotoOK DEF Raise, Gone

LEMMA SaveMergeOK ==
    ASSUME IInv, NEW w \in Workers, SaveMerge(w)
    PROVE  IInv' /\ Kept
  <1>1. /\ worker[w].pc \in {"saveround", "saveband", "savedeep", "savefinal"} /\ LockFree
        /\ UNCHANGED <<deleted, lock, click, items, cut, restarts>>
    BY DEF SaveMerge, Only
  <1>2. /\ worker[w] \in Worker /\ WorkerOK(worker[w]) /\ file \in Session
        /\ file.status \in {"reviewing", "absent"} /\ (Absent <=> deleted)
        /\ \A v \in Workers \ {w} : worker[v].pc \in Gone
        /\ file.stamped \subseteq file.cands
    BY <1>1, Working DEF Gone
  <1>a. PICK m : m = Merged(worker[w].mem)
    OBVIOUS
  <1>3. /\ m \in Session /\ m.status = worker[w].mem.status /\ m.review = worker[w].mem.review
        /\ \A c \in m.cands : c \in file.stamped => c \in m.stamped
        /\ m.cands = worker[w].mem.cands /\ m.stamped \subseteq worker[w].mem.stamped \cup m.cands
    BY <1>2, <1>a DEF Merged, Session, Worker
  <1>c. m.stamped \subseteq m.cands /\ Covers(m)
    BY <1>1, <1>2, <1>3 DEF WorkerOK, Covers
  <1>4. file' = IF deleted THEN file ELSE m
    BY <1>a DEF SaveMerge, Save
  <1>5. /\ file' \in Session
        /\ file'.status \in {"reviewing", "reviewed", "absent"}
        /\ file'.status = "reviewed" => worker[w].pc = "savefinal"
        /\ Absent' <=> deleted
    BY <1>1, <1>2, <1>3, <1>4 DEF Absent, WorkerOK
  <1>d. /\ file'.stamped \subseteq file'.cands
        /\ \A c \in Candidates \ Foldable : c \in file.stamped => c \in file'.stamped
    BY <1>2, <1>3, <1>4, <1>c DEF Covers
  <1>6. Kept
    <2>1. CASE deleted
      BY <1>4, <2>1 DEF Kept
    <2>2. CASE ~deleted
      <3>1. worker[w].pc \in Early \cup Late
        BY <1>1 DEF Early, Late
      <3>2. \A c \in Candidates : file.review[c] = "deep" => m.review[c] = "deep"
        BY <1>2, <1>3, <3>1 DEF WorkerOK, NotDeep, Covers
      <3>3. file' = m /\ file.cands \subseteq Candidates
        BY <1>2, <1>4, <2>2 DEF Session
      <3> QED  BY <1>2, <1>3, <3>2, <3>3 DEF Kept
    <2> QED  BY <2>1, <2>2
  <1>b. PICK mem : mem = IF deleted THEN worker[w].mem ELSE m
    OBVIOUS
  <1>7. /\ mem \in Session /\ mem.status = worker[w].mem.status /\ mem.review = worker[w].mem.review
        /\ mem.stamped \subseteq mem.cands /\ Covers(mem)'
    <2>1. Covers(worker[w].mem) /\ worker[w].mem.stamped \subseteq worker[w].mem.cands
      BY <1>1, <1>2 DEF WorkerOK
    <2> QED  BY <1>2, <1>3, <1>4, <1>b, <1>c, <2>1 DEF Worker, Covers
  <1>8. ASSUME NEW pc \in {"round", "load", "deep"}, NEW left \in SUBSET Candidates,
               AfterSave(w, pc, left)
        PROVE  \E x \in Worker : /\ worker' = [worker EXCEPT ![w] = x]
                                 /\ x.pc = pc /\ x.left = left /\ x.mem = mem
    <2>a. PICK x : x = [worker[w] EXCEPT !.pc = pc, !.left = left, !.mem = mem]
      OBVIOUS
    <2>1. x \in Worker /\ x.pc = pc /\ x.left = left /\ x.mem = mem
      BY <1>2, <1>7, <2>a DEF Worker
    <2>2. worker' = [worker EXCEPT ![w] = x]
      BY <1>8, <1>a, <1>b, <2>a DEF AfterSave, IInv, TypeOK
    <2> QED  BY <2>1, <2>2
  <1>9. CASE worker[w].pc = "saveround"
    <2>1. NotDeep(file)' /\ NotDeep(mem) /\ mem.status = "reviewing"
      BY <1>2, <1>3, <1>4, <1>7, <1>9 DEF WorkerOK, Early, NotDeep, Covers
    <2>2. PICK pc \in {"round", "load"} : AfterSave(w, pc, {})
      BY <1>9 DEF SaveMerge
    <2>3. PICK x \in Worker : /\ worker' = [worker EXCEPT ![w] = x]
                              /\ x.pc = pc /\ x.left = {} /\ x.mem = mem
      BY <1>8, <2>2
    <2>4. WorkerOK(x)'
      BY <1>7, <2>1, <2>2, <2>3 DEF WorkerOK, Early, Late
    <2> QED  BY <1>1, <1>2, <1>5, <1>6, <1>d, <1>9, <2>3, <2>4, SavingOK DEF Gone
  <1>10. CASE worker[w].pc \in {"saveband", "savedeep"}
    <2>1. \A c \in Candidates : file'.review[c] = "deep" => mem.review[c] = "deep"
      BY <1>2, <1>3, <1>4, <1>7, <1>10 DEF WorkerOK, Early, Late, NotDeep, Covers
    <2>2. \E left \in SUBSET Candidates : /\ AfterSave(w, "deep", left)
                                          /\ \A c \in left : mem.review[c] # "deep"
      <3>1. CASE worker[w].pc = "saveband"
        <4>1. PICK deep \in SUBSET worker[w].mem.cands : AfterSave(w, "deep", deep)
          BY <3>1 DEF SaveMerge
        <4>2. deep \in SUBSET Candidates
          BY <1>2, <4>1 DEF Worker, Session
        <4>3. NotDeep(mem)
          BY <1>2, <1>7, <3>1 DEF WorkerOK, Early, NotDeep, Covers
        <4> QED  BY <4>1, <4>2, <4>3 DEF NotDeep
      <3>2. CASE worker[w].pc = "savedeep"
        <4>1. AfterSave(w, "deep", worker[w].left)
          BY <3>2 DEF SaveMerge
        <4>2. worker[w].left \in SUBSET Candidates
          BY <1>2 DEF Worker
        <4>3. \A c \in worker[w].left : mem.review[c] # "deep"
          BY <1>2, <1>7 DEF WorkerOK, Covers
        <4> QED  BY <4>1, <4>2, <4>3
      <3> QED  BY <1>10, <3>1, <3>2
    <2>3. PICK left \in SUBSET Candidates : /\ AfterSave(w, "deep", left)
                                           /\ \A c \in left : mem.review[c] # "deep"
      BY <2>2
    <2>4. PICK x \in Worker : /\ worker' = [worker EXCEPT ![w] = x]
                              /\ x.pc = "deep" /\ x.left = left /\ x.mem = mem
      BY <1>8, <2>3
    <2>5. mem.status = "reviewing"
      BY <1>2, <1>7, <1>10 DEF WorkerOK, Covers
    <2>6. WorkerOK(x)'
      BY <1>7, <2>1, <2>3, <2>4, <2>5 DEF WorkerOK, Early, Late
    <2> QED  BY <1>1, <1>2, <1>5, <1>6, <1>d, <1>10, <2>4, <2>6, SavingOK DEF Gone
  <1>11. CASE worker[w].pc = "savefinal"
    <2>1. worker' = [worker EXCEPT ![w] = Thread("over")]
      BY <1>11 DEF SaveMerge, Quit
    <2>2. Thread("over") \in Worker /\ Thread("over").pc = "over" /\ Thread("over").left = {}
      BY ThreadType DEF Gone
    <2>5. Thread("over").mem.stamped \subseteq Thread("over").mem.cands
      BY NoSessionType DEF Thread
    <2>3. PICK x : x = Thread("over")
      OBVIOUS
    <2>4. WorkerOK(x)'
      BY <2>2, <2>3, <2>5 DEF WorkerOK, Early, Late, Covers
    <2> QED  BY <1>1, <1>2, <1>5, <1>6, <1>d, <2>1, <2>2, <2>3, <2>4, SavingOK DEF Gone
  <1> QED  BY <1>1, <1>9, <1>10, <1>11

LEMMA SaveErrorOK ==
    ASSUME IInv, NEW w \in Workers, SaveError(w)
    PROVE  IInv' /\ Kept
  <1>1. /\ worker[w].pc = "fail" /\ LockFree
        /\ UNCHANGED <<deleted, lock, click, items, cut, restarts>>
    BY DEF SaveError, Only
  <1>2. /\ file \in Session /\ file.status \in {"reviewing", "absent"} /\ (Absent <=> deleted)
        /\ \A v \in Workers \ {w} : worker[v].pc \in Gone
        /\ file.stamped \subseteq file.cands
    BY <1>1, Working DEF Gone
  <1>3. file' = IF deleted THEN file ELSE [file EXCEPT !.status = "error"]
    BY <1>2 DEF SaveError, Save, Failed
  <1>4. /\ file' \in Session /\ file'.status \in {"error", "absent"} /\ (deleted => Absent')
        /\ file'.stamped = file.stamped /\ file'.cands = file.cands /\ (Absent => Absent')
        /\ Kept
    BY <1>2, <1>3 DEF Session, Absent, Kept
  <1>5. PICK x : x = Thread("over")
    OBVIOUS
  <1>6. /\ x \in Worker /\ x.pc = "over" /\ x.left = {} /\ worker' = [worker EXCEPT ![w] = x]
        /\ x.mem.stamped \subseteq x.mem.cands
    BY <1>5, ThreadType, NoSessionType DEF SaveError, Quit, Gone, Thread
  <1>7. WorkerOK(x)'
    BY <1>6 DEF WorkerOK, Early, Late, Covers
  <1> QED  BY <1>1, <1>2, <1>4, <1>6, <1>7, SavingOK DEF Gone

-----------------------------------------------------------------------------
(* The clicks, the deletion and the restart.                               *)

\* A step of a click that leaves the file alone.
LEMMA ClickOK ==
    ASSUME IInv, NEW k \in Clicks, click' \in [Clicks -> Click],
           \A m \in Clicks \ {k} : click'[m] = click[m],
           click'[k].pc \in {"write", "stamp"} =>
               /\ lock' = k /\ click'[k].mem = file /\ ~Absent /\ click'[k].cand \in file.cands
               /\ click'[k].pc = "write" => click'[k].cand \notin file.stamped,
           lock' \in Clicks \cup {Nobody}, lock = k \/ LockFree,
           items' \in [Candidates -> Nat], Counted',
           UNCHANGED <<file, deleted, worker, restarts, cut>>
    PROVE  IInv' /\ Kept
  <1>1. TypeOK'
    BY DEF IInv, TypeOK
  <1>2. \A m \in Clicks \ {k} : click'[m].pc \notin {"write", "stamp"}
    BY ThreadsType DEF IInv, Held, LockFree
  <1>3. Held'
    BY <1>2 DEF Held, Absent
  <1>4. Alone' /\ Erased'
    BY DEF IInv, Alone, Erased, Absent
  <1>5. Shelf'
    BY DEF IInv, Shelf, WorkerOK, NotDeep, Covers
  <1> QED  BY <1>1, <1>3, <1>4, <1>5 DEF IInv, Kept

\* As long as nothing that allows for an item is taken away ...
LEMMA CountedGrows ==
    ASSUME IInv, items' = items, \A c \in Candidates : cut'[c] = cut[c], Absent => Absent',
           \A c \in Candidates \ Foldable :
               c \in file.stamped \/ Stamping(c) => (Absent \/ c \in file.stamped \/ Stamping(c))'
    PROVE  Counted'
  <1> SUFFICES ASSUME NEW c \in Candidates \ Foldable
               PROVE  items'[c] <= cut'[c] + IF (Absent \/ c \in file.stamped \/ Stamping(c))' THEN 1 ELSE 0
    BY DEF Counted
  <1>1. items[c] <= cut[c] + IF Absent \/ c \in file.stamped \/ Stamping(c) THEN 1 ELSE 0
    BY DEF IInv, Counted
  <1>2. Absent \/ c \in file.stamped \/ Stamping(c) => (Absent \/ c \in file.stamped \/ Stamping(c))'
    OBVIOUS
  <1>3. items[c] \in Nat /\ cut[c] \in Nat /\ items'[c] = items[c] /\ cut'[c] = cut[c]
    BY DEF IInv, TypeOK
  <1> QED  BY <1>1, <1>2, <1>3

LEMMA AddOK ==
    ASSUME IInv, NEW k \in Clicks, Add(k)
    PROVE  IInv' /\ Kept
  <1>1. click[k] \in Click /\ click[k].pc = "ready" /\ LockFree /\ file \in Session /\ TypeOK
    BY DEF Add, IInv, TypeOK
  <1>c. Counted'
    <2>1. \A c \in Candidates : Stamping(c) => Stamping(c)'
      <3>1. \A m \in Clicks \ {k} : click'[m] = click[m]
        BY <1>1, OverType DEF Add, TypeOK
      <3> QED  BY <1>1, <3>1 DEF Stamping
    <2>2. items' = items /\ cut' = cut /\ file' = file
      BY DEF Add
    <2>3. Absent => Absent'
      BY <2>2 DEF Absent
    <2> QED  BY <2>1, <2>2, <2>3, CountedGrows
  <1>2. CASE click' = Over(k) /\ UNCHANGED lock
    BY <1>1, <1>2, <1>c, OverType, ClickOK DEF Add, ClickStep, IInv, TypeOK
  <1>3. CASE /\ click' = [click EXCEPT ![k].pc = "write", ![k].mem = file] /\ lock' = k /\ ~Absent
             /\ click[k].cand \in file.cands /\ click[k].cand \notin file.stamped
    <2>a. PICK x : x = [click[k] EXCEPT !.pc = "write", !.mem = file]
      OBVIOUS
    <2>1. x \in Click /\ x.mem = file /\ x.cand = click[k].cand
      BY <1>1, <2>a DEF Click
    <2>2. click' \in [Clicks -> Click] /\ click'[k] = x /\ \A m \in Clicks \ {k} : click'[m] = click[m]
      BY <1>3, <2>1, <2>a DEF IInv, TypeOK
    <2> QED  BY <1>1, <1>3, <1>c, <2>1, <2>2, ClickOK DEF Add, ClickStep, TypeOK
  <1> QED  BY <1>2, <1>3 DEF Add

LEMMA WriteItemOK ==
    ASSUME IInv, NEW k \in Clicks, WriteItem(k)
    PROVE  IInv' /\ Kept
  <1>1. /\ click[k] \in Click /\ click[k].pc = "write" /\ lock = k /\ click[k].mem = file /\ ~Absent
        /\ click[k].cand \in file.cands /\ click[k].cand \notin file.stamped
    BY DEF WriteItem, IInv, TypeOK, Held
  <1>2. items' \in [Candidates -> Nat]
    BY <1>1 DEF WriteItem, IInv, TypeOK, Click
  <1>a. PICK x : x = [click[k] EXCEPT !.pc = "stamp"]
    OBVIOUS
  <1>3. x \in Click /\ x.pc = "stamp" /\ x.mem = file /\ x.cand = click[k].cand
    BY <1>1, <1>a DEF Click
  <1>4. click' \in [Clicks -> Click] /\ click'[k] = x /\ \A m \in Clicks \ {k} : click'[m] = click[m]
    BY <1>3, <1>a DEF WriteItem, IInv, TypeOK
  <1>5. ASSUME NEW c \in Candidates \ Foldable
        PROVE  items'[c] <= cut'[c] + IF (Absent \/ c \in file.stamped \/ Stamping(c))' THEN 1 ELSE 0
    <2>1. items[c] <= cut[c] + IF Absent \/ c \in file.stamped \/ Stamping(c) THEN 1 ELSE 0
      BY DEF IInv, Counted
    <2>2. items[c] \in Nat /\ cut[c] \in Nat /\ cut'[c] = cut[c] /\ file' = file
      BY DEF IInv, TypeOK, WriteItem
    <2>3. \A m \in Clicks \ {k} : click[m].pc # "stamp"
      BY <1>1 DEF IInv, Held
    <2>4. CASE c = click[k].cand
      <3>1. ~Stamping(c)
        BY <1>1, <2>3 DEF Stamping
      <3>2. items[c] <= cut[c]
        BY <1>1, <2>1, <2>2, <2>4, <3>1
      <3>3. items'[c] <= items[c] + 1
        BY <2>2 DEF WriteItem, IInv, TypeOK
      <3>4. Stamping(c)'
        BY <1>3, <1>4, <2>4 DEF Stamping
      <3>5. items'[c] \in Nat
        BY <1>2
      <3> QED  BY <2>2, <3>2, <3>3, <3>4, <3>5
    <2>5. CASE c # click[k].cand
      <3>1. items'[c] = items[c]
        BY <1>1, <2>5 DEF WriteItem, IInv, TypeOK
      <3>2. Stamping(c)' <=> Stamping(c)
        BY <1>1, <1>3, <1>4, <2>5 DEF Stamping
      <3> QED  BY <2>1, <2>2, <3>1, <3>2 DEF Absent
    <2> QED  BY <2>4, <2>5
  <1>6. Counted'
    BY <1>5 DEF Counted
  <1> QED  BY <1>1, <1>2, <1>3, <1>4, <1>6, ClickOK DEF WriteItem, ClickStep

LEMMA WriteFailsOK ==
    ASSUME IInv, NEW k \in Clicks, WriteFails(k)
    PROVE  IInv' /\ Kept
  <1>1. lock = k /\ TypeOK /\ click[k].pc = "write"
    BY DEF WriteFails, IInv, Held
  <1>2. Counted'
    <2>1. \A c \in Candidates : Stamping(c) => Stamping(c)'
      <3>1. \A m \in Clicks \ {k} : click'[m] = click[m]
        BY <1>1, OverType DEF WriteFails
      <3> QED  BY <1>1, <3>1 DEF Stamping
    <2>2. items' = items /\ cut' = cut /\ file' = file
      BY DEF WriteFails
    <2>3. Absent => Absent'
      BY <2>2 DEF Absent
    <2> QED  BY <2>1, <2>2, <2>3, CountedGrows
  <1> QED  BY <1>1, <1>2, OverType, ClickOK DEF WriteFails, ClickStep, TypeOK

LEMMA StampOK ==
    ASSUME IInv, NEW k \in Clicks, Stamp(k)
    PROVE  IInv' /\ Kept
  <1>1. /\ click[k] \in Click /\ click[k].pc = "stamp" /\ lock = k /\ click[k].mem = file
        /\ ~Absent /\ ~deleted /\ file \in Session /\ TypeOK
        /\ click[k].cand \in file.cands /\ file.stamped \subseteq file.cands
    BY DEF Stamp, IInv, TypeOK, Held, Erased, Shelf
  <1>2. file' = [file EXCEPT !.stamped = @ \cup {click[k].cand}] /\ click[k].cand \in Candidates
    BY <1>1 DEF Stamp, Save, Click
  <1>3. /\ file' \in Session /\ file'.status = file.status /\ file'.review = file.review
        /\ file'.cands = file.cands /\ file'.stamped = file.stamped \cup {click[k].cand}
    BY <1>1, <1>2 DEF Session
  <1>4. click' = Over(k) /\ lock' = Nobody /\ UNCHANGED <<items, cut, deleted, worker, restarts>>
    BY DEF Stamp, ClickStep
  <1>5. click' \in [Clicks -> Click] /\ \A m \in Clicks : click'[m].pc \notin {"write", "stamp"}
    <2>1. \A m \in Clicks \ {k} : click[m].pc \notin {"write", "stamp"}
      BY <1>1 DEF IInv, Held
    <2> QED  BY <1>1, <1>4, <2>1, OverType
  <1>6. TypeOK'
    BY <1>3, <1>4, <1>5 DEF IInv, TypeOK
  <1>7. Held' /\ Alone' /\ Erased' /\ Kept
    BY <1>1, <1>3, <1>4, <1>5 DEF IInv, Held, Alone, Erased, Absent, Kept
  <1>8. Shelf'
    BY <1>1, <1>3, <1>4 DEF IInv, Shelf, WorkerOK, NotDeep, Covers
  <1>9. Counted'
    <2>1. \A c \in Candidates : Stamping(c) => c = click[k].cand
      BY <1>1 DEF IInv, Held, Stamping
    <2>2. Absent => Absent'
      BY <1>1
    <2> QED  BY <1>3, <1>4, <2>1, <2>2, CountedGrows
  <1> QED  BY <1>6, <1>7, <1>8, <1>9 DEF IInv

LEMMA DeleteOK ==
    ASSUME IInv, Delete
    PROVE  IInv' /\ Kept
  <1>1. deleted' = TRUE /\ file' = NoSession /\ LockFree /\ UNCHANGED <<lock, worker, click, items, cut, restarts>>
    BY DEF Delete
  <1>2. file' \in Session /\ file'.status = "absent" /\ NotDeep(file)'
    BY <1>1, NoSessionType DEF NotDeep
  <1>3. TypeOK'
    BY <1>1, <1>2 DEF IInv, TypeOK
  <1>4. Held' /\ Alone' /\ Erased' /\ Kept
    BY <1>1, <1>2, ThreadsType DEF IInv, Held, Alone, Erased, Absent, Kept, LockFree
  <1>5. Shelf'
    BY <1>1, <1>2, NoSessionType DEF IInv, Shelf, WorkerOK, NotDeep, Covers
  <1>6. Counted'
    BY <1>1, <1>2, CountedGrows DEF Absent
  <1> QED  BY <1>3, <1>4, <1>5, <1>6 DEF IInv

LEMMA RestartOK ==
    ASSUME IInv, Restart
    PROVE  IInv' /\ Kept
  <1>1. /\ deleted' = FALSE /\ lock' = Nobody /\ UNCHANGED <<file, items>>
        /\ restarts' \in 0..MaxRestarts
    BY LimitsType DEF Restart, IInv, TypeOK
  <1>2. worker' \in [Workers -> Worker] /\ \A w \in Workers : worker'[w].pc \in Gone /\ worker'[w].left = {}
                                          /\ worker'[w].mem = NoSession
    BY ThreadType DEF Restart, Gone, Thread
  <1>3. click' \in [Clicks -> Click] /\ \A k \in Clicks : click'[k].pc \notin {"write", "stamp"}
    <2>1. \A k \in Clicks : Over(k)[k] \in Click /\ Over(k)[k].pc = "over" /\ click[k] \in Click
      BY OverType DEF IInv, TypeOK
    <2> QED  BY <2>1 DEF Restart
  <1>4. cut' \in [Candidates -> Nat]
    <2>1. \A c \in Candidates : Cardinality({k \in Clicks : click[k].pc = "stamp" /\ click[k].cand = c}) \in Nat
      BY ThreadsType, FS_Subset, FS_CardinalityType
    <2>2. cut \in [Candidates -> Nat]
      BY DEF IInv, TypeOK
    <2> QED  BY <2>1, <2>2 DEF Restart
  <1>5. TypeOK'
    BY <1>1, <1>2, <1>3, <1>4 DEF IInv, TypeOK
  <1>6. Held' /\ Alone' /\ Erased' /\ Kept
    BY <1>1, <1>2, <1>3 DEF Held, Alone, Erased, Kept
  <1>7. Shelf'
    BY <1>1, <1>2, NoSessionType DEF IInv, Shelf, WorkerOK, NotDeep, Gone, Early, Late, Covers
  <1>8. ASSUME NEW c \in Candidates \ Foldable
        PROVE  items'[c] <= cut'[c] + IF (Absent \/ c \in file.stamped \/ Stamping(c))' THEN 1 ELSE 0
    <2> DEFINE S == {k \in Clicks : click[k].pc = "stamp" /\ click[k].cand = c}
    <2>1. items[c] <= cut[c] + IF Absent \/ c \in file.stamped \/ Stamping(c) THEN 1 ELSE 0
      BY DEF IInv, Counted
    <2>2. items[c] \in Nat /\ cut[c] \in Nat /\ items'[c] = items[c] /\ file' = file
      BY <1>1 DEF IInv, TypeOK
    <2>3. cut'[c] = cut[c] + Cardinality(S)
      BY DEF Restart
    <2>4. Cardinality(S) \in Nat /\ (Stamping(c) => Cardinality(S) # 0)
      <3>1. IsFiniteSet(S)
        BY ThreadsType, FS_Subset
      <3>2. Cardinality(S) \in Nat /\ (Cardinality(S) = 0 <=> S = {})
        BY <3>1, FS_CardinalityType, FS_EmptySet
      <3>3. Stamping(c) => S # {}
        BY DEF Stamping
      <3> QED  BY <3>2, <3>3
    <2> HIDE DEF S
    <2> QED  BY <2>1, <2>2, <2>3, <2>4 DEF Absent
  <1>9. Counted'
    BY <1>8 DEF Counted
  <1> QED  BY <1>5, <1>6, <1>7, <1>9 DEF IInv

-----------------------------------------------------------------------------
(* The theorems.                                                           *)

LEMMA NextOK ==
    ASSUME IInv, Next
    PROVE  IInv' /\ Kept
  <1>1. ASSUME NEW w \in Workers, Claim(w) \/ WorkerStep(w) PROVE IInv' /\ Kept
    BY <1>1, ClaimOK, StartRoundsOK, RoundOK, EndRoundsOK, LoadOK, LightOK, LightDoneOK, DeepOK,
       DeepDoneOK, SaveMergeOK, RaiseOK, SaveErrorOK DEF WorkerStep
  <1>2. ASSUME NEW k \in Clicks, Add(k) \/ WriteItem(k) \/ WriteFails(k) \/ Stamp(k)
        PROVE  IInv' /\ Kept
    BY <1>2, AddOK, WriteItemOK, WriteFailsOK, StampOK
  <1> QED  BY <1>1, <1>2, DeleteOK, RestartOK DEF Next

LEMMA StutterOK ==
    IInv /\ UNCHANGED vars => IInv'
  BY DEF vars, IInv, TypeOK, Held, Alone, Shelf, Erased, WorkerOK, NotDeep, Absent, Covers,
         Counted, Stamping

\* The variables have their types in every reachable state.
THEOREM TypeCorrect == Spec => []TypeOK
  <1>1. IInv => TypeOK
    BY DEF IInv
  <1>2. IInv /\ [Next]_vars => IInv'
    BY NextOK, StutterOK
  <1> QED  BY <1>1, <1>2, InitOK, PTL DEF Spec

\* No save undoes what the session's file says, neither a stamp nor a deep
\* review nor the end of a review, whoever holds an older copy.
THEOREM NothingLost == Spec => NothingSavedIsLost
  <1>1. IInv /\ [Next]_vars => [Kept]_vars
    BY NextOK
  <1>2. IInv /\ [Next]_vars => IInv'
    BY NextOK, StutterOK
  <1>3. Spec => [][Kept]_vars
    BY <1>1, <1>2, InitOK, PTL DEF Spec
  <1> QED  BY <1>3 DEF NothingSavedIsLost, Kept

\* However many clicks there are and whatever the worker saves in between, a
\* candidate that is not folded gets one item, and one more for each restart
\* that cut its stamp off.
THEOREM OneItem == Spec => []OneItemPerCandidate
  <1>1. IInv => OneItemPerCandidate
    <2> SUFFICES ASSUME IInv, NEW c \in Candidates \ Foldable PROVE items[c] <= 1 + cut[c]
      BY DEF OneItemPerCandidate
    <2>1. items[c] \in Nat /\ cut[c] \in Nat
      BY DEF IInv, TypeOK
    <2>2. items[c] <= cut[c] + IF Absent \/ c \in file.stamped \/ Stamping(c) THEN 1 ELSE 0
      BY DEF IInv, Counted
    <2> QED  BY <2>1, <2>2
  <1>2. IInv /\ [Next]_vars => IInv'
    BY NextOK, StutterOK
  <1> QED  BY <1>1, <1>2, InitOK, PTL DEF Spec

\* Two workers never refine or review one session at once (claim).
THEOREM OneWorker ==
    Spec => [](\A v, w \in Workers : worker[v].pc \notin Gone /\ worker[w].pc \notin Gone => v = w)
  <1>1. IInv => \A v, w \in Workers : worker[v].pc \notin Gone /\ worker[w].pc \notin Gone => v = w
    BY DEF IInv, Alone
  <1>2. IInv /\ [Next]_vars => IInv'
    BY NextOK, StutterOK
  <1> QED  BY <1>1, <1>2, InitOK, PTL DEF Spec
=============================================================================
