--------------------------- MODULE FeedTick_proofs ---------------------------
(***************************************************************************)
(* Proofs about FeedTick, for any items, loops and bounds.                 *)
(*                                                                         *)
(* IInv says that a loop in a tick holds the lock (so that the others are  *)
(* quiet), what its tick has found out about the rows of its items at each *)
(* phase (TickOK), and what the rows of the read items say (ReadOK).       *)
(* LostInv adds where the copies of the dropped items are.                 *)
(***************************************************************************)
EXTENDS FeedTick, FiniteSetTheorems, WellFoundedInduction, TLAPS

Outside == {"off", "idle"}
Waiting == Outside \cup {"pick", "prepare"}
Sorted  == {"library", "triage", "record"}
Working == Sorted \cup {"processed"}

Fresh(t) == t.todo = {} /\ t.stale = {} /\ t.verdict = Nothing

Quiet(l) == loop[l].pc \in Outside /\ Fresh(loop[l])

\* The items of a tick that are not copies.
Kept(t) == t.todo \cup {i \in Items : t.verdict[i] \in {"triaged", "rejected", "rejected_dedup_library"}}

\* Until a tick records its verdicts, its items have no row, but for those
\* without a guid.
Unrecorded(t) ==
    \A i \in Items : (i \in t.todo \/ t.verdict[i] # "none") => row[i] = "none" \/ i \in Guidless

\* A row that stands for a decision, as far as the key of the item allows.
Recorded(i) == row[i] # "none" /\ (i \in Guidless \/ Decided(i))

Apart(t) == \A i \in Kept(t) : \A j \in CopiesOf(i) \ {i} : ~Judged(j) /\ j \notin Kept(t)

TickOK(l) ==
    LET t == loop[l]
    IN  /\ t.pc \notin Outside => lock = l
        /\ t.pc \in Waiting => Fresh(t)
        /\ t.pc \notin Outside \cup {"pick"} => t.order \in Orders
        /\ t.todo \subseteq t.raw /\ t.raw \subseteq arrived /\ t.stale \subseteq arrived
        /\ \A i \in Items : t.verdict[i] # "none" => i \in arrived
        /\ \A i \in t.stale : Decided(i)
        /\ t.pc \in Working => Unrecorded(t)
        /\ t.pc = "processed" => t.verdict = Nothing
        /\ t.pc \in Sorted => Apart(t)
        /\ t.pc = "record" => t.todo = {}
        /\ t.pc = "mark" => \A i \in Items : t.verdict[i] \notin Undecided => Recorded(i)

ReadOK == \A i \in read : Recorded(i)

IInv == TypeOK /\ (\A l \in Loops : TickOK(l)) /\ ReadOK /\ OneTriagePerPaper

-----------------------------------------------------------------------------
(* The order of a batch.                                                   *)

\* Two items of a batch are ordered one way or the other.
LEMMA BeforeIsTotal ==
    ASSUME NEW order \in Orders, NEW raw \in SUBSET Items,
           NEW i \in raw, NEW j \in raw, i # j
    PROVE  Before(order, raw, i, j) \/ Before(order, raw, j, i)
  <1> DEFINE S(x) == {y \in raw : Older(y, x)}
  <1>1. IsFiniteSet(raw)
    BY FS_Subset, ItemsType
  <1>2. \A x \in raw : IsFiniteSet(S(x)) /\ Cardinality(S(x)) \in Nat
    <2> SUFFICES ASSUME NEW x \in raw PROVE IsFiniteSet(S(x)) /\ Cardinality(S(x)) \in Nat
      OBVIOUS
    <2>1. S(x) \in SUBSET raw
      OBVIOUS
    <2>2. IsFiniteSet(S(x))
      BY <1>1, <2>1, FS_Subset
    <2> QED  BY <2>2, FS_CardinalityType
  <1>3. ASSUME NEW x \in raw, NEW y \in raw, Older(x, y)
        PROVE  Cardinality(S(x)) < Cardinality(S(y))
    <2>1. S(x) \cup {x} \in SUBSET S(y) /\ x \notin S(x)
      BY <1>3, AgeType DEF Older
    <2>2. Cardinality(S(x) \cup {x}) = Cardinality(S(x)) + 1
      BY <1>2, <2>1, FS_AddElement
    <2>3. Cardinality(S(x) \cup {x}) <= Cardinality(S(y))
      BY <1>2, <2>1, FS_Subset
    <2>4. Cardinality(S(x)) \in Nat /\ Cardinality(S(y)) \in Nat
      BY <1>2
    <2> HIDE DEF S
    <2> QED  BY <2>2, <2>3, <2>4
  <1>4. \A x \in raw : Rank(x, raw) = Cardinality(S(x))
    BY DEF Rank
  <1> HIDE DEF S
  <1>5. CASE Feed[i] = Feed[j]
    <2>1. Older(i, j) \/ Older(j, i)
      BY <1>5, AgeType DEF Older
    <2> QED  BY <1>3, <1>4, <2>1 DEF Before
  <1>6. CASE Feed[i] # Feed[j]
    <2>1. Feed[i] \in Feeds /\ Feed[j] \in Feeds
      BY DEF Feeds
    <2>2. order[Feed[i]] \in Nat /\ order[Feed[j]] \in Nat /\ order[Feed[i]] # order[Feed[j]]
      BY <1>6, <2>1 DEF Orders
    <2> QED  BY <1>2, <1>4, <2>2 DEF Before
  <1> QED  BY <1>5, <1>6

\* What content dedup leaves has no decided copy and no copy in the batch.
LEMMA LeftAreApart ==
    ASSUME NEW t, t.order \in Orders, t.raw \in SUBSET Items, NEW items \in SUBSET t.raw,
           NEW i \in items \ ContentDuplicates(t, items), NEW j \in CopiesOf(i) \ {i}
    PROVE  ~Judged(j) /\ j \notin items \ ContentDuplicates(t, items)
  <1>1. Content[i] # NoPaper /\ Content[j] = Content[i] /\ j \in Items /\ i \in Items /\ i # j
    BY DEF CopiesOf
  <1>2. ~Decided(j)
    BY <1>1 DEF ContentDuplicates
  <1>3. ~Judged(j)
    BY <1>2 DEF Judged, Decided, Undecided
  <1>4. ASSUME j \in items \ ContentDuplicates(t, items) PROVE FALSE
    <2>1. Before(t.order, t.raw, i, j) \/ Before(t.order, t.raw, j, i)
      BY <1>1, <1>4, BeforeIsTotal
    <2>2. ~Before(t.order, t.raw, j, i)
      BY <1>1, <1>4 DEF ContentDuplicates
    <2>3. ~Before(t.order, t.raw, i, j)
      BY <1>1, <1>4 DEF ContentDuplicates
    <2> QED  BY <2>1, <2>2, <2>3
  <1> QED  BY <1>3, <1>4

-----------------------------------------------------------------------------
(* The invariant.                                                          *)

LEMMA InitOK ==
    Init => IInv
  <1> SUFFICES ASSUME Init PROVE IInv
    OBVIOUS
  <1>1. Nothing \in [Items -> Verdicts \cup {"none"}] /\ Off \in Tick
    BY DEF Nothing, Off, Idle, Tick
  <1>2. TypeOK
    BY <1>1, LimitsType DEF Init, TypeOK, Nothing, Decisions
  <1>3. \A l \in Loops : TickOK(l)
    BY DEF Init, TickOK, Off, Idle, Outside, Waiting, Fresh, Working, Sorted, Nothing
  <1>4. ReadOK /\ OneTriagePerPaper
    BY DEF Init, ReadOK, OneTriagePerPaper, Judged, Nothing
  <1> QED  BY <1>2, <1>3, <1>4 DEF IInv

\* The steps outside the loops.
LEMMA FetchOK ==
    ASSUME IInv, NEW i \in Items, Fetch(i)
    PROVE  IInv'
  <1>1. TypeOK'
    BY DEF IInv, TypeOK, Fetch
  <1>2. ASSUME NEW l \in Loops PROVE TickOK(l)'
    <2>1. TickOK(l) /\ loop' = loop /\ lock' = lock /\ row' = row /\ arrived \subseteq arrived'
      BY DEF IInv, Fetch
    <2> QED  BY <2>1 DEF TickOK, Unrecorded, Apart, Judged, Recorded, Decided
  <1>3. ReadOK' /\ OneTriagePerPaper'
    BY DEF IInv, Fetch, ReadOK, Recorded, Decided, OneTriagePerPaper, Judged
  <1> QED  BY <1>1, <1>2, <1>3 DEF IInv

LEMMA RejectOK ==
    ASSUME IInv, NEW i \in Items, Reject(i)
    PROVE  IInv'
  <1>1. TypeOK'
    BY DEF IInv, TypeOK, Reject, Decisions
  <1>2. row \in [Items -> Decisions \cup {"none"}]
    BY DEF IInv, TypeOK
  <1>3. \A j \in Items : /\ Judged(j)' <=> Judged(j)
                         /\ Decided(j)' <=> Decided(j)
                         /\ row'[j] = "none" <=> row[j] = "none"
    BY <1>2 DEF Reject, Judged, Decided, Undecided
  <1>4. \A j \in Items : Recorded(j)' <=> Recorded(j)
    BY <1>3 DEF Recorded
  <1>5. ASSUME NEW l \in Loops PROVE TickOK(l)'
    <2>1. TickOK(l) /\ loop' = loop /\ lock' = lock /\ arrived' = arrived
      BY DEF IInv, Reject
    <2>2. loop[l] \in Tick
      BY DEF IInv, TypeOK
    <2>3. Unrecorded(loop[l]) => Unrecorded(loop[l])'
      BY <1>3, <2>1 DEF Unrecorded
    <2>4. Apart(loop[l]) => Apart(loop[l])'
      BY <1>3, <2>1, <2>2 DEF Apart, Kept, CopiesOf, Tick
    <2> QED  BY <1>3, <1>4, <2>1, <2>2, <2>3, <2>4 DEF TickOK, Tick
  <1>6. ReadOK'
    BY <1>4 DEF IInv, TypeOK, ReadOK, Reject
  <1>7. OneTriagePerPaper'
    BY <1>3 DEF IInv, OneTriagePerPaper
  <1> QED  BY <1>1, <1>5, <1>6, <1>7 DEF IInv

\* The rows, the items and the lock are left alone: a step of one tick only.
LEMMA TickAlone ==
    ASSUME IInv, NEW l \in Loops, TickOK(l)', loop' \in [Loops -> Tick],
           \A k \in Loops \ {l} : loop'[k] = loop[k],
           UNCHANGED <<arrived, read, row, lock>>,
           errors' \in 0..MaxErrors, deaths' \in 0..MaxDeaths
    PROVE  IInv'
  <1>1. TypeOK'
    BY DEF IInv, TypeOK
  <1>2. ASSUME NEW k \in Loops \ {l} PROVE TickOK(k)'
    BY <1>2 DEF IInv, TickOK, Unrecorded, Apart, Judged, Recorded, Decided
  <1>3. ReadOK' /\ OneTriagePerPaper'
    BY DEF IInv, ReadOK, Recorded, Decided, OneTriagePerPaper, Judged
  <1> QED  BY <1>1, <1>2, <1>3 DEF IInv

\* A loop that does not hold the lock is quiet.
LEMMA OthersAreQuiet ==
    ASSUME IInv, NEW k \in Loops, lock # k
    PROVE  Quiet(k)
  BY DEF IInv, TickOK, Quiet, Waiting

\* Whatever happens to rows and lock, a quiet loop stays in order.
LEMMA QuietIsOK ==
    ASSUME NEW k \in Loops, TickOK(k), Quiet(k), loop'[k] = loop[k], arrived \subseteq arrived'
    PROVE  TickOK(k)'
  BY DEF Quiet, TickOK, Outside, Waiting, Working, Sorted, Fresh, Nothing

-----------------------------------------------------------------------------
(* The steps of the loops, one by one.                                     *)

LEMMA StartLoopOK ==
    ASSUME IInv, NEW l \in Loops, StartLoop(l)
    PROVE  IInv'
  <1>1. Idle \in Tick
    BY DEF Idle, Tick, Nothing
  <1>2. loop'[l] = Idle /\ loop' \in [Loops -> Tick] /\ \A k \in Loops \ {l} : loop'[k] = loop[k]
    BY <1>1 DEF StartLoop, IInv, TypeOK
  <1>3. TickOK(l)'
    BY <1>2 DEF TickOK, Idle, Outside, Waiting, Working, Sorted, Fresh, Nothing
  <1> QED  BY <1>2, <1>3, TickAlone DEF StartLoop, IInv, TypeOK

LEMMA OffOK ==
    ASSUME NEW l \in Loops, NEW end \in {Off, Idle}, loop'[l] = end
    PROVE  TickOK(l)' /\ end \in Tick
  <1>1. Idle \in Tick
    BY DEF Idle, Tick, Nothing
  <1>2. Off \in Tick /\ Off.pc = "off" /\ Fresh(Off) /\ Off.raw = {}
    BY <1>1 DEF Off, Tick, Fresh, Idle
  <1>3. Idle.pc = "idle" /\ Fresh(Idle) /\ Idle.raw = {}
    BY DEF Idle, Fresh
  <1> QED  BY <1>1, <1>2, <1>3 DEF TickOK, Outside, Waiting, Working, Sorted, Fresh, Nothing

\* The end of a tick, planned or not, gives up the lock.
LEMMA LockGivenUp ==
    ASSUME IInv, NEW l \in Loops, NEW end \in {Off, Idle}, loop' = [loop EXCEPT ![l] = end],
           lock' = IF lock = l THEN Nobody ELSE lock,
           UNCHANGED <<arrived, read, row, errors>>, deaths' \in 0..MaxDeaths
    PROVE  IInv'
  <1>1. loop'[l] = end /\ \A k \in Loops \ {l} : loop'[k] = loop[k]
    BY DEF IInv, TypeOK
  <1>2. TickOK(l)' /\ end \in Tick
    BY <1>1, OffOK
  <1>3. TypeOK'
    BY <1>2 DEF IInv, TypeOK
  <1>4. ASSUME NEW k \in Loops \ {l} PROVE TickOK(k)'
    <2>1. TickOK(k) /\ loop'[k] = loop[k] /\ (lock = k => lock' = k)
      BY <1>1 DEF IInv
    <2> QED  BY <2>1 DEF TickOK, Unrecorded, Apart, Judged, Recorded, Decided
  <1>5. ReadOK' /\ OneTriagePerPaper'
    BY DEF IInv, ReadOK, Recorded, Decided, OneTriagePerPaper, Judged
  <1> QED  BY <1>2, <1>3, <1>4, <1>5 DEF IInv

LEMMA EndTickOK ==
    ASSUME IInv, NEW l \in Loops, EndTick(l)
    PROVE  IInv'
  <1>1. lock = l
    BY DEF EndTick, IInv, TickOK, Outside
  <1>2. \E end \in {Off, Idle} : loop' = [loop EXCEPT ![l] = end]
    BY DEF EndTick
  <1> QED  BY <1>1, <1>2, LockGivenUp DEF EndTick, IInv, TypeOK

LEMMA DieOK ==
    ASSUME IInv, NEW l \in Loops, Die(l)
    PROVE  IInv'
  <1>1. deaths' \in 0..MaxDeaths
    BY LimitsType DEF Die, IInv, TypeOK
  <1> QED  BY <1>1, LockGivenUp DEF Die

LEMMA StartTickOK ==
    ASSUME IInv, NEW l \in Loops, StartTick(l)
    PROVE  IInv'
  <1>1. CASE LockFree(l)
    <2>1. lock' = l /\ lock = Nobody /\ loop' = [loop EXCEPT ![l].pc = "pick"]
      BY <1>1 DEF StartTick, LockFree
    <2>2. loop[l] \in Tick /\ TickOK(l) /\ Fresh(loop[l]) /\ loop[l].pc = "idle"
      BY DEF StartTick, IInv, TypeOK, TickOK, Waiting, Outside
    <2>3. /\ loop'[l] = [loop[l] EXCEPT !.pc = "pick"] /\ loop'[l] \in Tick
          /\ \A k \in Loops \ {l} : loop'[k] = loop[k]
      BY <2>1, <2>2 DEF IInv, TypeOK, Tick
    <2>4. TickOK(l)'
      BY <2>1, <2>2, <2>3 DEF StartTick, TickOK, Outside, Waiting, Working, Sorted, Fresh, Tick, Nothing
    <2>5. ASSUME NEW k \in Loops \ {l} PROVE TickOK(k)'
      <3>1. Quiet(k) /\ TickOK(k)
        BY <2>1, OthersAreQuiet, LoopsDisjoint DEF IInv
      <3> QED  BY <2>3, <3>1, QuietIsOK DEF StartTick
    <2>6. TypeOK'
      BY <2>1, <2>3 DEF StartTick, IInv, TypeOK
    <2>7. ReadOK' /\ OneTriagePerPaper'
      BY DEF StartTick, IInv, ReadOK, Recorded, Decided, OneTriagePerPaper, Judged
    <2> QED  BY <2>4, <2>5, <2>6, <2>7 DEF IInv
  <1>2. CASE ~LockFree(l)
    <2>1. loop' = [loop EXCEPT ![l] = Off] /\ lock' = lock
      BY <1>2 DEF StartTick
    <2>2. loop'[l] = Off /\ \A k \in Loops \ {l} : loop'[k] = loop[k]
      BY <2>1 DEF IInv, TypeOK
    <2>3. TickOK(l)' /\ Off \in Tick
      BY <2>2, OffOK
    <2>4. loop' \in [Loops -> Tick]
      BY <2>1, <2>3 DEF IInv, TypeOK
    <2> QED  BY <2>1, <2>2, <2>3, <2>4, TickAlone DEF StartTick, IInv, TypeOK
  <1> QED  BY <1>1, <1>2

\* What the phases need to know of the tick they belong to.
LEMMA Holder ==
    ASSUME IInv, NEW l \in Loops, loop[l].pc \notin Outside
    PROVE  /\ loop[l] \in Tick /\ TickOK(l) /\ lock = l
           /\ \A k \in Loops \ {l} : Quiet(k) /\ TickOK(k)
  BY OthersAreQuiet DEF IInv, TypeOK, TickOK

LEMMA PickOK ==
    ASSUME IInv, NEW l \in Loops, Pick(l)
    PROVE  IInv'
  <1>1. PICK order \in Orders : loop' = [loop EXCEPT ![l] =
              [@ EXCEPT !.pc = "prepare", !.order = order,
                        !.raw = Batch(order, arrived \ read)]]
    BY DEF Pick
  <1>2. loop[l] \in Tick /\ TickOK(l) /\ lock = l
    BY Holder DEF Pick, Outside
  <1>3. Batch(order, arrived \ read) \subseteq arrived /\ arrived \subseteq Items
    BY DEF Batch, IInv, TypeOK
  <1>4. order \in [Feeds -> Nat]
    BY FS_CardinalityType, ItemsType DEF Orders
  <1> DEFINE t == [loop[l] EXCEPT !.pc = "prepare", !.order = order,
                                  !.raw = Batch(order, arrived \ read)]
  <1>5. t \in Tick
    BY <1>2, <1>3, <1>4 DEF Tick
  <1>6. loop'[l] = t /\ loop' \in [Loops -> Tick] /\ \A k \in Loops \ {l} : loop'[k] = loop[k]
    BY <1>1, <1>5 DEF IInv, TypeOK
  <1>7. TickOK(l)'
    BY <1>2, <1>3, <1>6 DEF Pick, TickOK, Outside, Waiting, Working, Sorted, Fresh, Tick, Nothing
  <1> QED  BY <1>6, <1>7, TickAlone DEF Pick, IInv, TypeOK

\* Steps that write rows: the other loops are quiet, so that only the tick of
\* the step and the invariants of the rows remain.
LEMMA RowsWritten ==
    ASSUME IInv, NEW l \in Loops, loop[l].pc \notin Outside, NEW t \in Tick,
           loop' = [loop EXCEPT ![l] = t],
           row' \in [Items -> Decisions \cup {"none"}], UNCHANGED <<arrived, read, lock, errors, deaths>>,
           TickOK(l)', OneTriagePerPaper',
           \A i \in Items : Recorded(i) => Recorded(i)'
    PROVE  IInv'
  <1>1. loop'[l] = t /\ \A k \in Loops \ {l} : loop'[k] = loop[k]
    BY DEF IInv, TypeOK
  <1>2. TypeOK'
    BY DEF IInv, TypeOK
  <1>3. ASSUME NEW k \in Loops \ {l} PROVE TickOK(k)'
    BY <1>1, Holder, QuietIsOK
  <1>4. ReadOK'
    BY DEF IInv, TypeOK, ReadOK
  <1> QED  BY <1>2, <1>3, <1>4 DEF IInv

LEMMA PrepareOK ==
    ASSUME IInv, NEW l \in Loops, Prepare(l)
    PROVE  IInv'
  <1>a. PICK todo : todo = {i \in loop[l].raw : ~Seen(i)}
    OBVIOUS
  <1>b. PICK t : t = [loop[l] EXCEPT !.pc = "processed", !.todo = todo, !.stale = loop[l].raw \ todo]
    OBVIOUS
  <1>1. loop[l].pc = "prepare" /\ row' = Cleared(todo) /\ loop' = [loop EXCEPT ![l] = t]
    BY <1>a, <1>b DEF Prepare
  <1>2. loop[l] \in Tick /\ TickOK(l) /\ lock = l
    BY <1>1, Holder DEF Outside
  <1>3. row \in [Items -> Decisions \cup {"none"}] /\ arrived \subseteq Items
    BY DEF IInv, TypeOK
  <1>4. row' \in [Items -> Decisions \cup {"none"}]
    BY <1>1, <1>3 DEF Cleared
  <1>5. \A i \in Items : row'[i] = IF i \in todo /\ FoundByKey(i) /\ row[i] = "skipped_error" THEN "none" ELSE row[i]
    BY <1>1 DEF Cleared
  <1>6. \A i \in Items : /\ Decided(i)' <=> Decided(i)
                         /\ Judged(i)' <=> Judged(i)
                         /\ Recorded(i) => Recorded(i)'
    BY <1>5 DEF Decided, Judged, Recorded, Undecided, FoundByKey
  <1>7. t \in Tick
    BY <1>2, <1>a, <1>b DEF Tick
  <1>8. loop'[l] = t
    BY <1>1 DEF IInv, TypeOK
  <1>9. TickOK(l)'
    <2>1. todo \subseteq loop[l].raw /\ loop[l].raw \subseteq arrived /\ loop[l].verdict = Nothing
      BY <1>1, <1>2, <1>a DEF TickOK, Waiting, Fresh
    <2>2. \A i \in t.stale : Decided(i)'
      <3>1. \A i \in t.stale : i \in Items /\ Decided(i)
        BY <1>2, <1>a, <1>b DEF Seen, Tick
      <3> QED  BY <1>6, <3>1
    <2>3. Unrecorded(t)'
      <3> SUFFICES ASSUME NEW i \in todo, i \notin Guidless PROVE row'[i] = "none"
        BY <1>2, <1>b, <2>1 DEF Unrecorded, Nothing, Tick
      <3>1. FoundByKey(i) /\ row[i] \in Undecided /\ i \in Items
        BY <1>2, <1>a DEF Seen, FoundByKey, Decided, Tick
      <3> QED  BY <1>5, <3>1 DEF Undecided
    <2>4. t.pc = "processed" /\ t.todo = todo /\ t.raw = loop[l].raw /\ t.verdict = Nothing
          /\ t.order = loop[l].order /\ t.stale \subseteq t.raw
      BY <1>2, <1>b, <2>1 DEF Tick
    <2>5. t.order \in Orders
      BY <1>1, <1>2, <2>4 DEF TickOK, Outside
    <2>6. t.pc \notin Waiting /\ t.pc \notin Sorted /\ t.pc # "record" /\ t.pc # "mark"
      BY <2>4 DEF Outside, Waiting, Sorted
    <2>7. \A i \in Items : t.verdict[i] = "none"
      BY <2>4 DEF Nothing
    <2>8. /\ lock' = l /\ arrived' = arrived
          /\ t.todo \subseteq t.raw /\ t.raw \subseteq arrived /\ t.stale \subseteq arrived
      BY <1>2, <2>1, <2>4 DEF Prepare
    <2> QED  BY <1>8, <2>2, <2>3, <2>4, <2>5, <2>6, <2>7, <2>8 DEF TickOK
  <1>10. OneTriagePerPaper'
    BY <1>6 DEF IInv, OneTriagePerPaper
  <1> QED  BY <1>1, <1>4, <1>6, <1>7, <1>9, <1>10, RowsWritten DEF Prepare, Outside

LEMMA DedupProcessedOK ==
    ASSUME IInv, NEW l \in Loops, DedupProcessed(l)
    PROVE  IInv'
  <1>a. PICK s : s = loop[l]
    OBVIOUS
  <1>b. PICK trashed : trashed = {i \in s.todo : row[i] = "user_rejected"}
    OBVIOUS
  <1>c. PICK copies, gone : /\ copies = ContentDuplicates(s, s.todo \ trashed)
                            /\ gone = trashed \cup copies
    OBVIOUS
  <1>d. PICK t : t = [s EXCEPT !.pc = "library", !.todo = @ \ gone,
                               !.verdict = Give(@, gone, "rejected_dedup_processed")]
    OBVIOUS
  <1>1. s.pc = "processed" /\ loop' = [loop EXCEPT ![l] = t]
    BY <1>a, <1>b, <1>c, <1>d DEF DedupProcessed
  <1>2. s \in Tick /\ TickOK(l) /\ lock = l
    BY <1>1, <1>a, Holder DEF Outside
  <1>3. s.verdict = Nothing /\ s.todo \subseteq s.raw /\ s.raw \subseteq arrived /\ s.order \in Orders
        /\ Unrecorded(s) /\ s.stale \subseteq arrived /\ \A i \in s.stale : Decided(i)
    BY <1>1, <1>2, <1>a DEF TickOK, Working, Outside
  <1>4. copies \subseteq s.todo /\ gone \subseteq s.todo
    BY <1>b, <1>c DEF ContentDuplicates
  <1>5. Give(s.verdict, gone, "rejected_dedup_processed") \in [Items -> Verdicts \cup {"none"}]
    BY <1>2 DEF Give, Tick, Verdicts
  <1>6. t \in Tick
    BY <1>2, <1>5, <1>d DEF Tick
  <1>7. /\ t.pc = "library" /\ t.todo = s.todo \ gone /\ t.raw = s.raw /\ t.order = s.order
        /\ t.stale = s.stale
        /\ \A i \in Items : t.verdict[i] = IF i \in gone THEN "rejected_dedup_processed" ELSE "none"
    BY <1>2, <1>3, <1>d DEF Tick, Give, Nothing
  <1>8. loop'[l] = t /\ loop' \in [Loops -> Tick] /\ \A k \in Loops \ {l} : loop'[k] = loop[k]
    BY <1>1, <1>6 DEF IInv, TypeOK
  <1>9. Unrecorded(t)
    BY <1>3, <1>4, <1>7 DEF Unrecorded
  <1>10. Kept(t) = (s.todo \ trashed) \ copies
    BY <1>2, <1>3, <1>4, <1>7, <1>c DEF Kept, Tick
  <1>11. Apart(t)
    <2> SUFFICES ASSUME NEW i \in (s.todo \ trashed) \ copies, NEW j \in CopiesOf(i) \ {i}
                 PROVE  ~Judged(j) /\ j \notin (s.todo \ trashed) \ copies
      BY <1>10 DEF Apart
    <2>1. s.raw \in SUBSET Items /\ s.todo \ trashed \in SUBSET s.raw
      BY <1>2, <1>3 DEF Tick
    <2> QED  BY <1>3, <1>c, <2>1, LeftAreApart
  <1>12. TickOK(l)'
    <2>1. Unrecorded(t)' /\ Apart(t)'
      BY <1>9, <1>11 DEF DedupProcessed, Unrecorded, Apart, Judged
    <2>2. (\A i \in t.stale : Decided(i))' /\ arrived' = arrived /\ lock' = lock
      BY <1>3, <1>7 DEF DedupProcessed, Decided
    <2> QED  BY <1>2, <1>3, <1>4, <1>7, <1>8, <2>1, <2>2
             DEF TickOK, Outside, Waiting, Working, Sorted
  <1> QED  BY <1>8, <1>12, TickAlone DEF DedupProcessed, IInv, TypeOK

LEMMA DedupLibraryOK ==
    ASSUME IInv, NEW l \in Loops, DedupLibrary(l)
    PROVE  IInv'
  <1>a. PICK s : s = loop[l]
    OBVIOUS
  <1>c. PICK found \in SUBSET s.todo, failed \in SUBSET s.todo :
              /\ errors + Cardinality(failed) <= MaxErrors
              /\ errors' = errors + Cardinality(failed)
              /\ loop' = [loop EXCEPT ![l] =
                    [s EXCEPT !.pc = "triage", !.todo = @ \ (found \cup failed),
                              !.verdict = Give(@, found, "rejected_dedup_library")]]
    BY <1>a DEF DedupLibrary
  <1>d. PICK t : t = [s EXCEPT !.pc = "triage", !.todo = @ \ (found \cup failed),
                               !.verdict = Give(@, found, "rejected_dedup_library")]
    OBVIOUS
  <1>1. s.pc = "library" /\ loop' = [loop EXCEPT ![l] = t]
    BY <1>a, <1>c, <1>d DEF DedupLibrary
  <1>2. s \in Tick /\ TickOK(l) /\ lock = l
    BY <1>1, <1>a, Holder DEF Outside
  <1>3. /\ s.todo \subseteq s.raw /\ s.raw \subseteq arrived /\ s.order \in Orders
        /\ Unrecorded(s) /\ Apart(s) /\ s.stale \subseteq arrived /\ \A i \in s.stale : Decided(i)
        /\ \A i \in Items : s.verdict[i] # "none" => i \in arrived
    BY <1>1, <1>2, <1>a DEF TickOK, Working, Sorted, Outside
  <1>4. found \subseteq s.todo /\ failed \subseteq s.todo /\ s.todo \subseteq Items
    BY <1>2 DEF Tick
  <1>5. Give(s.verdict, found, "rejected_dedup_library") \in [Items -> Verdicts \cup {"none"}]
    BY <1>2 DEF Give, Tick, Verdicts
  <1>6. t \in Tick
    BY <1>2, <1>5, <1>d DEF Tick
  <1>7. /\ t.pc = "triage" /\ t.todo = s.todo \ (found \cup failed) /\ t.raw = s.raw
        /\ t.order = s.order /\ t.stale = s.stale
        /\ \A i \in Items : t.verdict[i] = IF i \in found THEN "rejected_dedup_library" ELSE s.verdict[i]
    BY <1>2, <1>d DEF Tick, Give
  <1>8. loop'[l] = t /\ loop' \in [Loops -> Tick] /\ \A k \in Loops \ {l} : loop'[k] = loop[k]
    BY <1>1, <1>6 DEF IInv, TypeOK
  <1>9. Unrecorded(t)
    BY <1>3, <1>4, <1>7 DEF Unrecorded
  <1>10. Kept(t) \subseteq Kept(s)
    BY <1>4, <1>7 DEF Kept
  <1>11. Apart(t)
    BY <1>3, <1>10 DEF Apart
  <1>12. TickOK(l)'
    <2>1. Unrecorded(t)' /\ Apart(t)'
      BY <1>9, <1>11 DEF DedupLibrary, Unrecorded, Apart, Judged
    <2>2. (\A i \in t.stale : Decided(i))' /\ arrived' = arrived /\ lock' = lock
      BY <1>3, <1>7 DEF DedupLibrary, Decided
    <2> QED  BY <1>2, <1>3, <1>4, <1>7, <1>8, <2>1, <2>2
             DEF TickOK, Outside, Waiting, Working, Sorted
  <1>13. errors' \in 0..MaxErrors
    <2>1. failed \in SUBSET Items
      BY <1>4
    <2>2. Cardinality(failed) \in Nat
      BY <2>1, ItemsType, FS_Subset, FS_CardinalityType
    <2> QED  BY <1>c, <2>2, LimitsType DEF IInv, TypeOK
  <1> QED  BY <1>8, <1>12, <1>13, TickAlone DEF DedupLibrary, IInv, TypeOK

LEMMA TriageOK ==
    ASSUME IInv, NEW l \in Loops, Triage(l)
    PROVE  IInv'
  <1>a. PICK s : s = loop[l]
    OBVIOUS
  <1>b. PICK failed \in SUBSET s.todo, dropped \in SUBSET s.todo :
              /\ errors + Cardinality(failed) <= MaxErrors
              /\ errors' = errors + Cardinality(failed)
              /\ loop' = [loop EXCEPT ![l] =
                    [s EXCEPT !.pc = "record", !.todo = {},
                              !.verdict = Triaged(s, failed, dropped)]]
    BY <1>a DEF Triage
  <1>c. PICK verdict : verdict = Triaged(s, failed, dropped)
    OBVIOUS
  <1>d. PICK t : t = [s EXCEPT !.pc = "record", !.todo = {}, !.verdict = verdict]
    OBVIOUS
  <1>1. s.pc = "triage" /\ loop' = [loop EXCEPT ![l] = t]
    BY <1>a, <1>b, <1>c, <1>d DEF Triage
  <1>2. s \in Tick /\ TickOK(l) /\ lock = l
    BY <1>1, <1>a, Holder DEF Outside
  <1>3. /\ s.todo \subseteq s.raw /\ s.raw \subseteq arrived /\ s.order \in Orders
        /\ Unrecorded(s) /\ Apart(s) /\ s.stale \subseteq arrived /\ \A i \in s.stale : Decided(i)
        /\ \A i \in Items : s.verdict[i] # "none" => i \in arrived
    BY <1>1, <1>2, <1>a DEF TickOK, Working, Sorted, Outside
  <1>4. /\ \A i \in Items : i \notin s.todo => verdict[i] = s.verdict[i]
        /\ \A i \in Items : i \in s.todo => verdict[i] \in {"skipped_error", "rejected", "triaged"}
    BY <1>b, <1>c DEF Triaged
  <1>5. verdict \in [Items -> Verdicts \cup {"none"}]
    BY <1>2, <1>c, <1>4 DEF Tick, Verdicts, Triaged
  <1>6. t \in Tick
    BY <1>2, <1>5, <1>d DEF Tick
  <1>7. /\ t.pc = "record" /\ t.todo = {} /\ t.raw = s.raw
        /\ t.order = s.order /\ t.stale = s.stale /\ t.verdict = verdict
    BY <1>2, <1>d DEF Tick
  <1>8. loop'[l] = t /\ loop' \in [Loops -> Tick] /\ \A k \in Loops \ {l} : loop'[k] = loop[k]
    BY <1>1, <1>6 DEF IInv, TypeOK
  <1>9. Unrecorded(t)
    BY <1>3, <1>4, <1>7 DEF Unrecorded
  <1>10. Kept(t) \subseteq Kept(s)
    BY <1>4, <1>7 DEF Kept
  <1>11. Apart(t)
    BY <1>3, <1>10 DEF Apart
  <1>12. TickOK(l)'
    <2>1. Unrecorded(t)' /\ Apart(t)'
      BY <1>9, <1>11 DEF Triage, Unrecorded, Apart, Judged
    <2>2. (\A i \in t.stale : Decided(i))' /\ arrived' = arrived /\ lock' = lock
      BY <1>3, <1>7 DEF Triage, Decided
    <2>3. \A i \in Items : t.verdict[i] # "none" => i \in arrived
      BY <1>3, <1>4, <1>7
    <2> QED  BY <1>2, <1>3, <1>7, <1>8, <2>1, <2>2, <2>3
             DEF TickOK, Outside, Waiting, Working, Sorted
  <1>13. errors' \in 0..MaxErrors
    <2>1. failed \in SUBSET Items
      BY <1>2 DEF Tick
    <2>2. Cardinality(failed) \in Nat
      BY <2>1, ItemsType, FS_Subset, FS_CardinalityType
    <2> QED  BY <1>b, <2>2, LimitsType DEF IInv, TypeOK
  <1> QED  BY <1>8, <1>12, <1>13, TickAlone DEF Triage, IInv, TypeOK

LEMMA RecordOK ==
    ASSUME IInv, NEW l \in Loops, Record(l)
    PROVE  IInv'
  <1>a. PICK s : s = loop[l]
    OBVIOUS
  <1>b. PICK t : t = [s EXCEPT !.pc = "mark"]
    OBVIOUS
  <1>1. s.pc = "record" /\ row' = Inserted(s) /\ loop' = [loop EXCEPT ![l] = t]
    BY <1>a, <1>b DEF Record
  <1>2. s \in Tick /\ TickOK(l) /\ lock = l
    BY <1>1, <1>a, Holder DEF Outside
  <1>3. /\ s.todo = {} /\ s.raw \subseteq arrived /\ s.order \in Orders
        /\ Unrecorded(s) /\ Apart(s) /\ s.stale \subseteq arrived /\ \A i \in s.stale : Decided(i)
        /\ \A i \in Items : s.verdict[i] # "none" => i \in arrived
    BY <1>1, <1>2, <1>a DEF TickOK, Working, Sorted, Outside
  <1>4. row \in [Items -> Decisions \cup {"none"}] /\ arrived \subseteq Items
    BY DEF IInv, TypeOK
  <1>5. \A i \in Items : row'[i] = IF row[i] = "none" THEN s.verdict[i] ELSE row[i]
    BY <1>1 DEF Inserted
  <1>6. row' \in [Items -> Decisions \cup {"none"}]
    BY <1>1, <1>2, <1>4 DEF Inserted, Tick, Decisions
  <1>7. \A i \in Items : /\ Decided(i) => Decided(i)'
                         /\ Recorded(i) => Recorded(i)'
                         /\ Judged(i)' => Judged(i) \/ i \in Kept(s)
    <2> TAKE i \in Items
    <2>1. s.verdict[i] \in Verdicts \cup {"none"}
      BY <1>2 DEF Tick
    <2> QED  BY <1>5, <2>1 DEF Decided, Recorded, Judged, Kept, Undecided, Verdicts
  <1>8. t \in Tick /\ t.pc = "mark" /\ t.todo = {} /\ t.raw = s.raw /\ t.order = s.order
        /\ t.stale = s.stale /\ t.verdict = s.verdict
    BY <1>2, <1>3, <1>b DEF Tick
  <1>9. loop'[l] = t
    BY <1>1 DEF IInv, TypeOK
  <1>10. \A i \in Items : s.verdict[i] \notin Undecided => Recorded(i)'
    <2> SUFFICES ASSUME NEW i \in Items, s.verdict[i] \notin Undecided PROVE Recorded(i)'
      OBVIOUS
    <2>1. row[i] = "none" \/ i \in Guidless
      BY <1>3 DEF Unrecorded, Undecided
    <2> QED  BY <1>5, <2>1 DEF Recorded, Decided, Undecided
  <1>11. TickOK(l)'
    <2>1. (\A i \in t.stale : Decided(i))'
      BY <1>3, <1>4, <1>7, <1>8
    <2> QED  BY <1>2, <1>3, <1>8, <1>9, <1>10, <2>1
             DEF TickOK, Outside, Waiting, Working, Sorted, Record
  <1>12. OneTriagePerPaper'
    <2> SUFFICES ASSUME NEW i \in Items, NEW j \in CopiesOf(i), Judged(i)', Judged(j)', i # j
                 PROVE  FALSE
      BY DEF OneTriagePerPaper
    <2>1. j \in Items /\ i \in CopiesOf(j)
      BY DEF CopiesOf
    <2>2. (Judged(i) \/ i \in Kept(s)) /\ (Judged(j) \/ j \in Kept(s))
      BY <1>7, <2>1
    <2>3. i \in Kept(s) => ~Judged(j) /\ j \notin Kept(s)
      BY <1>3 DEF Apart
    <2>4. j \in Kept(s) => ~Judged(i) /\ i \notin Kept(s)
      BY <1>3, <2>1 DEF Apart
    <2> QED  BY <2>1, <2>2, <2>3, <2>4 DEF IInv, OneTriagePerPaper
  <1> QED  BY <1>1, <1>6, <1>7, <1>8, <1>11, <1>12, <1>a, RowsWritten DEF Record, Outside

LEMMA MarkReadOK ==
    ASSUME IInv, NEW l \in Loops, MarkRead(l)
    PROVE  IInv'
  <1>a. PICK s : s = loop[l]
    OBVIOUS
  <1>b. PICK t : t = [s EXCEPT !.pc = "done"]
    OBVIOUS
  <1>1. s.pc = "mark" /\ read' = read \cup Touched(s) /\ loop' = [loop EXCEPT ![l] = t]
    BY <1>a, <1>b DEF MarkRead
  <1>2. s \in Tick /\ TickOK(l) /\ lock = l
    BY <1>1, <1>a, Holder DEF Outside
  <1>3. t \in Tick /\ t.pc = "done" /\ t.todo = s.todo /\ t.raw = s.raw /\ t.order = s.order
        /\ t.stale = s.stale /\ t.verdict = s.verdict
    BY <1>2, <1>b DEF Tick
  <1>4. loop'[l] = t /\ loop' \in [Loops -> Tick] /\ \A k \in Loops \ {l} : loop'[k] = loop[k]
    BY <1>1, <1>3 DEF IInv, TypeOK
  <1>5. s.stale \subseteq arrived /\ arrived \subseteq Items /\ (\A i \in s.stale : Decided(i))
        /\ (\A i \in Items : s.verdict[i] # "none" => i \in arrived)
        /\ (\A i \in Items : s.verdict[i] \notin Undecided => Recorded(i))
    BY <1>1, <1>2, <1>a DEF TickOK, IInv, TypeOK
  <1>6. Touched(s) \subseteq arrived
    BY <1>5 DEF Touched, Undecided
  <1>7. \A i \in Touched(s) : Recorded(i)
    BY <1>5 DEF Touched, Recorded, Decided, Undecided
  <1>8. TypeOK'
    BY <1>1, <1>4, <1>6 DEF IInv, TypeOK, MarkRead
  <1>9. \A i \in Items : /\ Recorded(i)' <=> Recorded(i)
                         /\ Decided(i)' <=> Decided(i)
                         /\ Judged(i)' <=> Judged(i)
    BY DEF MarkRead, Recorded, Decided, Judged
  <1>10. TickOK(l)'
    BY <1>2, <1>3, <1>4, <1>5, <1>9, <1>a
       DEF TickOK, Outside, Waiting, Working, Sorted, MarkRead
  <1>11. ASSUME NEW k \in Loops \ {l} PROVE TickOK(k)'
    BY <1>1, <1>4, <1>a, Holder, QuietIsOK DEF MarkRead, Outside
  <1>12. ReadOK'
    BY <1>1, <1>5, <1>6, <1>7, <1>9 DEF IInv, TypeOK, ReadOK
  <1>13. OneTriagePerPaper'
    BY <1>9 DEF IInv, OneTriagePerPaper
  <1> QED  BY <1>8, <1>10, <1>11, <1>12, <1>13 DEF IInv

-----------------------------------------------------------------------------
(* The theorems.                                                           *)

LEMMA StutterOK ==
    IInv /\ UNCHANGED vars => IInv'
  BY DEF vars, IInv, TypeOK, TickOK, ReadOK, OneTriagePerPaper, Unrecorded, Apart, Kept, Fresh,
         Recorded, Decided, Judged

LEMMA StepOK ==
    IInv /\ [Next]_vars => IInv'
  <1> SUFFICES ASSUME IInv, Next PROVE IInv'
    BY StutterOK
  <1>1. ASSUME NEW i \in Items, Fetch(i) \/ Reject(i) PROVE IInv'
    BY <1>1, FetchOK, RejectOK
  <1>2. ASSUME NEW l \in Loops, StartLoop(l) \/ Die(l) PROVE IInv'
    BY <1>2, StartLoopOK, DieOK
  <1>3. ASSUME NEW l \in Loops, TickStep(l) PROVE IInv'
    BY <1>3, StartTickOK, PickOK, PrepareOK, DedupProcessedOK, DedupLibraryOK, TriageOK,
       RecordOK, MarkReadOK, EndTickOK DEF TickStep
  <1> QED  BY <1>1, <1>2, <1>3 DEF Next

\* The variables have their types in every reachable state.
THEOREM TypeCorrect == Spec => []TypeOK
  <1>1. IInv => TypeOK
    BY DEF IInv
  <1> QED  BY <1>1, InitOK, StepOK, PTL DEF Spec

\* Whatever copies of a paper arrive, however many loops tick and wherever
\* they die, one copy at most goes through the lookup, the gate and the triage.
THEOREM OneTriage == Spec => []OneTriagePerPaper
  <1>1. IInv => OneTriagePerPaper
    BY DEF IInv
  <1> QED  BY <1>1, InitOK, StepOK, PTL DEF Spec

\* No item is read unless its decision is recorded, or it has no guid and
\* failed.
THEOREM ReadDecided == Spec => []ReadItemsWereDecided
  <1>1. IInv => ReadItemsWereDecided
    BY DEF IInv, TypeOK, ReadOK, Recorded, Decided, Undecided, ReadItemsWereDecided
  <1> QED  BY <1>1, InitOK, StepOK, PTL DEF Spec

\* Two ticks never run at once: the loop in a tick holds the lock.
THEOREM TicksExclude ==
    Spec => [](\A k, l \in Loops : loop[k].pc \notin Outside /\ loop[l].pc \notin Outside => k = l)
  <1>1. IInv => \A k, l \in Loops : loop[k].pc \notin Outside /\ loop[l].pc \notin Outside => k = l
    BY DEF IInv, TickOK
  <1> QED  BY <1>1, InitOK, StepOK, PTL DEF Spec

\* No step changes a decision, unless the user rejects the paper.
LEMMA DecisionStep ==
    ASSUME IInv, [Next]_vars, NEW i \in Items, Decided(i)
    PROVE  row'[i] \in {row[i], "user_rejected"}
  <1>1. row \in [Items -> Decisions \cup {"none"}]
    BY DEF IInv, TypeOK
  <1>2. ASSUME NEW j \in Items, Fetch(j) \/ Reject(j) PROVE row'[i] \in {row[i], "user_rejected"}
    BY <1>1, <1>2 DEF Fetch, Reject
  <1>3. ASSUME NEW l \in Loops, StartLoop(l) \/ Die(l) PROVE row' = row
    BY <1>3 DEF StartLoop, Die
  <1>4. ASSUME NEW l \in Loops, Prepare(l) PROVE row'[i] = row[i]
    BY <1>4 DEF Prepare, Cleared, Decided, Undecided
  <1>5. ASSUME NEW l \in Loops, Record(l) PROVE row'[i] = row[i]
    BY <1>5 DEF Record, Inserted, Decided, Undecided
  <1>6. ASSUME NEW l \in Loops, TickStep(l), ~Prepare(l), ~Record(l) PROVE row' = row
    BY <1>6 DEF TickStep, StartTick, Pick, DedupProcessed, DedupLibrary, Triage, MarkRead, EndTick
  <1>7. UNCHANGED vars => row' = row
    BY DEF vars
  <1> QED  BY <1>2, <1>3, <1>4, <1>5, <1>6, <1>7 DEF Next

\* A decision is never revised by a later tick, only by the user.
THEOREM DecisionsAreFinal == Spec => DecisionsStick
  <1>1. IInv /\ [Next]_vars => [\A i \in Items : Decided(i) => row'[i] \in {row[i], "user_rejected"}]_vars
    BY DecisionStep
  <1> QED  BY <1>1, InitOK, StepOK, PTL DEF Spec, DecisionsStick

-----------------------------------------------------------------------------
(* No paper is lost while nothing fails: a row, and a verdict about to      *)
(* become one, stands for a copy that was judged or is about to be.         *)

Saved(i) == \E j \in CopiesOf(i) : Judged(j)

RowsSaved == \A i \in Items : row[i] # "skipped_error" /\ (row[i] # "none" => Saved(i))

Flawless(t) == \A i \in Items : t.verdict[i] # "skipped_error"

\* What a tick dropped as a duplicate has its copy.
Backed(t) ==
    \A i \in Items : t.verdict[i] = "rejected_dedup_processed" =>
        \E j \in CopiesOf(i) : Judged(j) \/ j \in Kept(t)

TickBacked(l) == Flawless(loop[l]) /\ (loop[l].pc \in Sorted => Backed(loop[l]))

LostInv == errors = 0 => RowsSaved /\ \A l \in Loops : TickBacked(l)

LEMMA CopiesCompose ==
    ASSUME NEW i \in Items, NEW j \in CopiesOf(i)
    PROVE  j \in Items /\ CopiesOf(j) \subseteq CopiesOf(i)
  BY DEF CopiesOf

\* Of finitely or infinitely many numbers one is the least.
LEMMA LeastValue ==
    ASSUME NEW S, S # {}, NEW f, \A x \in S : f[x] \in Nat
    PROVE  \E m \in S : \A x \in S : f[m] <= f[x]
  <1> DEFINE V == {f[x] : x \in S}
  <1> DEFINE R == OpToRel(<, Nat)
  <1>1. \A a, b \in Nat : a < b => <<a, b>> \in R
    BY DEF OpToRel
  <1>2. V \subseteq Nat /\ V # {}
    OBVIOUS
  <1>3. IsWellFoundedOn(R, Nat)
    BY NatLessThanWellFounded, Zenon
  <1>4. \E v \in V : \A w \in V : ~(<<w, v>> \in R)
    <2> HIDE DEF V, R
    <2> QED  BY <1>2, <1>3, WFMin, Zenon
  <1>5. PICK v \in V : \A w \in V : ~(w < v)
    BY <1>1, <1>2, <1>4
  <1>6. PICK m \in S : v = f[m]
    OBVIOUS
  <1> SUFFICES ASSUME NEW x \in S PROVE f[m] <= f[x]
    OBVIOUS
  <1>7. f[x] \in V /\ f[x] \in Nat /\ f[m] \in Nat
    OBVIOUS
  <1>8. ~(f[x] < f[m])
    <2> HIDE DEF V, R
    <2> QED  BY <1>5, <1>6, <1>7
  <1> QED  BY <1>7, <1>8

\* Some of the items of a batch come before all the others of them.
LEMMA FirstOfBatch ==
    ASSUME NEW order \in Orders, NEW raw \in SUBSET Items, NEW S \in SUBSET raw, S # {}
    PROVE  \E m \in S : \A j \in S : ~Before(order, raw, j, m)
  <1>1. \A x \in raw : Rank(x, raw) \in Nat
    <2> SUFFICES ASSUME NEW x \in raw PROVE Rank(x, raw) \in Nat
      OBVIOUS
    <2>1. {y \in raw : Older(y, x)} \in SUBSET Items
      OBVIOUS
    <2>2. IsFiniteSet({y \in raw : Older(y, x)})
      BY <2>1, ItemsType, FS_Subset
    <2> QED  BY <2>2, FS_CardinalityType DEF Rank
  <1>2. \A x \in raw : order[Feed[x]] \in Nat
    <2> SUFFICES ASSUME NEW x \in raw PROVE order[Feed[x]] \in Nat
      OBVIOUS
    <2>1. Feed[x] \in Feeds
      BY DEF Feeds
    <2> QED  BY <2>1 DEF Orders
  <1>3. PICK rank : rank = [x \in S |-> Rank(x, raw)]
    OBVIOUS
  <1>4. \A x \in S : rank[x] = Rank(x, raw) /\ rank[x] \in Nat
    BY <1>1, <1>3
  <1>5. PICK f \in S : \A x \in S : rank[f] <= rank[x]
    BY <1>4, LeastValue
  <1>6. PICK T : T = {x \in S : rank[x] = rank[f]}
    OBVIOUS
  <1>7. PICK place : place = [x \in T |-> order[Feed[x]]]
    OBVIOUS
  <1>8. \A x \in T : place[x] = order[Feed[x]] /\ place[x] \in Nat /\ x \in S
    BY <1>2, <1>6, <1>7
  <1>9. f \in T
    BY <1>6
  <1>10. PICK m \in T : \A x \in T : place[m] <= place[x]
    BY <1>8, <1>9, LeastValue
  <1>11. ASSUME NEW j \in S PROVE ~Before(order, raw, j, m)
    <2>1. rank[j] \in Nat /\ rank[m] \in Nat /\ rank[m] <= rank[j]
      BY <1>4, <1>5, <1>6
    <2>2. ~(Rank(j, raw) < Rank(m, raw))
      BY <1>4, <1>6, <2>1
    <2>3. ASSUME Rank(j, raw) = Rank(m, raw) PROVE ~(order[Feed[j]] < order[Feed[m]])
      <3>1. j \in T
        BY <1>4, <1>6, <2>3
      <3> QED  BY <1>8, <1>10, <3>1
    <2> QED  BY <2>2, <2>3 DEF Before
  <1> QED  BY <1>6, <1>11

\* Content dedup drops no item without a copy that was decided or stays.
LEMMA DuplicatesHaveCopies ==
    ASSUME NEW t, t.order \in Orders, t.raw \in SUBSET Items, NEW items \in SUBSET t.raw,
           NEW i \in ContentDuplicates(t, items)
    PROVE  \E j \in CopiesOf(i) : Decided(j) \/ j \in items \ ContentDuplicates(t, items)
  <1>1. i \in items /\ Content[i] # NoPaper /\ items \subseteq Items
    BY DEF ContentDuplicates
  <1>2. PICK S : S = {j \in items : Content[j] = Content[i]}
    OBVIOUS
  <1>3. i \in S /\ S \in SUBSET t.raw
    BY <1>1, <1>2
  <1>4. PICK m \in S : \A j \in S : ~Before(t.order, t.raw, j, m)
    BY <1>3, FirstOfBatch
  <1>5. m \in items /\ Content[m] = Content[i] /\ m \in CopiesOf(i)
    BY <1>1, <1>2 DEF CopiesOf
  <1>6. ASSUME m \in ContentDuplicates(t, items) PROVE \E j \in CopiesOf(i) : Decided(j)
    <2>1. PICK j \in Items : Decided(j) /\ Content[j] = Content[m]
      <3>1. \A j \in items : Content[j] = Content[m] => j \in S
        BY <1>2, <1>5
      <3> QED  BY <1>4, <1>6, <3>1 DEF ContentDuplicates
    <2> QED  BY <1>1, <1>5, <2>1 DEF CopiesOf
  <1> QED  BY <1>5, <1>6

LEMMA LostInit ==
    Init => LostInv
  BY DEF Init, LostInv, RowsSaved, TickBacked, Flawless, Off, Idle, Nothing, Sorted

\* A judged row stays one.
LEMMA JudgedStays ==
    ASSUME IInv, [Next]_vars, NEW i \in Items, Judged(i)
    PROVE  Judged(i)'
  <1>1. Decided(i)
    BY DEF Judged, Decided, Undecided
  <1>2. row'[i] \in {row[i], "user_rejected"}
    BY <1>1, DecisionStep DEF vars
  <1> QED  BY <1>2 DEF Judged

\* The other ticks lose no copy by a step.
LEMMA OneTickBacked ==
    ASSUME LostInv, NEW l \in Loops,
           \A k \in Loops \ {l} : loop'[k] = loop[k],
           \A i \in Items : Judged(i) => Judged(i)',
           errors' = 0 => errors = 0,
           errors' = 0 => RowsSaved' /\ TickBacked(l)'
    PROVE  LostInv'
  <1> SUFFICES ASSUME errors' = 0, NEW k \in Loops \ {l} PROVE TickBacked(k)'
    BY DEF LostInv
  <1>1. TickBacked(k) /\ loop'[k] = loop[k]
    BY DEF LostInv
  <1>2. Flawless(loop[k]) => Flawless(loop[k])'
    BY <1>1 DEF Flawless
  <1>3. Backed(loop[k]) => Backed(loop[k])'
    <2> SUFFICES ASSUME Backed(loop[k]), NEW i \in Items,
                        loop[k].verdict[i] = "rejected_dedup_processed"
                 PROVE  \E j \in CopiesOf(i) : Judged(j)' \/ j \in Kept(loop[k])
      BY <1>1 DEF Backed, Kept
    <2>1. PICK j \in CopiesOf(i) : Judged(j) \/ j \in Kept(loop[k])
      BY DEF Backed
    <2> QED  BY <2>1, CopiesCompose
  <1> QED  BY <1>1, <1>2, <1>3 DEF TickBacked

LEMMA RowsStaySaved ==
    ASSUME RowsSaved, row' = row
    PROVE  RowsSaved'
  BY DEF RowsSaved, Saved, Judged

\* Steps outside the phases that find copies or write verdicts.
LEMMA PlainStepBacked ==
    ASSUME IInv, LostInv, [Next]_vars, NEW l \in Loops, row' = row, errors' = errors,
           \A k \in Loops \ {l} : loop'[k] = loop[k],
           loop'[l].pc \notin Sorted, loop'[l].verdict \in {loop[l].verdict, Nothing}
    PROVE  LostInv'
  <1>1. errors' = 0 => RowsSaved'
    BY RowsStaySaved DEF LostInv
  <1>2. errors' = 0 => TickBacked(l)'
    BY DEF LostInv, TickBacked, Flawless, Nothing
  <1> QED  BY <1>1, <1>2, OneTickBacked, JudgedStays

LEMMA RejectBacked ==
    ASSUME IInv, LostInv, NEW i \in Items, Reject(i)
    PROVE  LostInv'
  <1>1. row \in [Items -> Decisions \cup {"none"}]
    BY DEF IInv, TypeOK
  <1>2. \A j \in Items : Judged(j) => Judged(j)'
    BY <1>1 DEF Reject, Judged
  <1>3. \A j \in Items : (row'[j] = "none" <=> row[j] = "none")
                         /\ (row'[j] = "skipped_error" <=> row[j] = "skipped_error")
    BY <1>1 DEF Reject
  <1>4. errors' = errors /\ loop' = loop
    BY DEF Reject
  <1>5. RowsSaved => RowsSaved'
    BY <1>2, <1>3, CopiesCompose DEF RowsSaved, Saved
  <1>6. ASSUME NEW l \in Loops, TickBacked(l) PROVE TickBacked(l)'
    <2>1. \A j \in Items : \A k \in CopiesOf(j) : k \in Items
      BY CopiesCompose
    <2> QED  BY <1>2, <1>4, <1>6, <2>1 DEF TickBacked, Flawless, Backed, Kept
  <1> QED  BY <1>4, <1>5, <1>6 DEF LostInv

LEMMA PrepareBacked ==
    ASSUME IInv, LostInv, [Next]_vars, NEW l \in Loops, Prepare(l)
    PROVE  LostInv'
  <1>1. PICK todo : row' = Cleared(todo)
    BY DEF Prepare
  <1>2. row \in [Items -> Decisions \cup {"none"}] /\ loop \in [Loops -> Tick]
    BY DEF IInv, TypeOK
  <1>3. loop'[l].pc = "processed" /\ loop'[l].verdict = loop[l].verdict /\ errors' = errors
        /\ \A k \in Loops \ {l} : loop'[k] = loop[k]
    BY <1>2 DEF Prepare, Tick
  <1>4. ASSUME errors = 0 PROVE row' = row
    <2>1. \A i \in Items : row[i] # "skipped_error"
      BY <1>4 DEF LostInv, RowsSaved
    <2> QED  BY <1>1, <1>2, <2>1 DEF Cleared
  <1>5. errors' = 0 => RowsSaved'
    BY <1>3, <1>4, RowsStaySaved DEF LostInv
  <1>6. errors' = 0 => TickBacked(l)'
    BY <1>3 DEF LostInv, TickBacked, Flawless, Sorted
  <1> QED  BY <1>3, <1>5, <1>6, OneTickBacked, JudgedStays

LEMMA DedupProcessedBacked ==
    ASSUME IInv, LostInv, [Next]_vars, NEW l \in Loops, DedupProcessed(l)
    PROVE  LostInv'
  <1>a. PICK s : s = loop[l]
    OBVIOUS
  <1>b. PICK trashed : trashed = {i \in s.todo : row[i] = "user_rejected"}
    OBVIOUS
  <1>c. PICK copies, gone : /\ copies = ContentDuplicates(s, s.todo \ trashed)
                            /\ gone = trashed \cup copies
    OBVIOUS
  <1>d. PICK t : t = [s EXCEPT !.pc = "library", !.todo = @ \ gone,
                               !.verdict = Give(@, gone, "rejected_dedup_processed")]
    OBVIOUS
  <1>1. s.pc = "processed" /\ loop' = [loop EXCEPT ![l] = t]
    BY <1>a, <1>b, <1>c, <1>d DEF DedupProcessed
  <1>2. s \in Tick /\ TickOK(l)
    BY <1>1, <1>a, Holder DEF Outside
  <1>3. s.verdict = Nothing /\ s.todo \subseteq s.raw /\ s.order \in Orders /\ s.raw \in SUBSET Items
    BY <1>1, <1>2, <1>a DEF TickOK, Working, Outside, Tick
  <1>4. t.pc = "library" /\ t.todo = s.todo \ gone
        /\ \A i \in Items : t.verdict[i] = IF i \in gone THEN "rejected_dedup_processed" ELSE "none"
    BY <1>2, <1>3, <1>d DEF Tick, Give, Nothing
  <1>5. loop'[l] = t /\ \A k \in Loops \ {l} : loop'[k] = loop[k]
    BY <1>1 DEF IInv, TypeOK
  <1>6. row' = row /\ errors' = errors
    BY DEF DedupProcessed
  <1>7. errors' = 0 => RowsSaved'
    BY <1>6, RowsStaySaved DEF LostInv
  <1>8. ASSUME errors = 0, NEW i \in gone
        PROVE  \E j \in CopiesOf(i) : Judged(j) \/ j \in t.todo
    <2>1. CASE i \in trashed
      <3>1. i \in CopiesOf(i) /\ Judged(i)
        BY <1>3, <1>b, <2>1 DEF CopiesOf, Judged
      <3> QED  BY <3>1
    <2>2. CASE i \in copies
      <3>1. PICK j \in CopiesOf(i) : Decided(j) \/ j \in (s.todo \ trashed) \ copies
        BY <1>3, <1>c, <2>2, DuplicatesHaveCopies
      <3>2. i \in Items
        BY <1>3, <1>c, <2>2 DEF ContentDuplicates
      <3>3. j \in Items /\ CopiesOf(j) \subseteq CopiesOf(i)
        BY <3>2, CopiesCompose
      <3>4. CASE Decided(j)
        <4>1. row[j] # "none"
          BY <3>4 DEF Decided, Undecided
        <4>2. Saved(j)
          BY <1>8, <3>3, <4>1 DEF LostInv, RowsSaved
        <4> QED  BY <3>3, <4>2 DEF Saved
      <3>5. CASE j \in (s.todo \ trashed) \ copies
        BY <1>4, <1>c, <3>5
      <3> QED  BY <3>1, <3>4, <3>5
    <2> QED  BY <1>c, <2>1, <2>2
  <1>9. errors' = 0 => TickBacked(l)'
    <2> SUFFICES ASSUME errors = 0 PROVE TickBacked(l)'
      BY <1>6
    <2>1. Flawless(t)
      BY <1>4 DEF Flawless
    <2>2. Backed(t)'
      <3> SUFFICES ASSUME NEW i \in Items, t.verdict[i] = "rejected_dedup_processed"
                   PROVE  \E j \in CopiesOf(i) : Judged(j)' \/ j \in t.todo
        BY DEF Backed, Kept
      <3>1. i \in gone
        BY <1>4
      <3> QED  BY <1>6, <1>8, <3>1 DEF Judged
    <2> QED  BY <1>5, <2>1, <2>2 DEF TickBacked, Flawless
  <1> QED  BY <1>5, <1>6, <1>7, <1>9, OneTickBacked, JudgedStays

\* Without an error none of the items failed.
LEMMA NoneFailed ==
    ASSUME IInv, NEW failed \in SUBSET Items,
           errors' = errors + Cardinality(failed), errors' = 0
    PROVE  errors = 0 /\ failed = {}
  <1>1. IsFiniteSet(failed)
    BY ItemsType, FS_Subset
  <1>2. Cardinality(failed) \in Nat /\ errors \in Nat
    BY <1>1, FS_CardinalityType, LimitsType DEF IInv, TypeOK
  <1>3. Cardinality(failed) = 0 /\ errors = 0
    BY <1>2
  <1> QED  BY <1>1, <1>3, FS_EmptySet

\* A tick that keeps what it kept and drops nothing more as a duplicate.
LEMMA StillBacked ==
    ASSUME NEW s \in Tick, NEW t \in Tick, Backed(s), Kept(s) \subseteq Kept(t), row' = row,
           \A i \in Items : t.verdict[i] = "rejected_dedup_processed"
                                => s.verdict[i] = "rejected_dedup_processed"
    PROVE  Backed(t)'
  <1> SUFFICES ASSUME NEW i \in Items, t.verdict[i] = "rejected_dedup_processed"
               PROVE  \E j \in CopiesOf(i) : Judged(j)' \/ j \in Kept(t)
    BY DEF Backed, Kept
  <1>1. PICK j \in CopiesOf(i) : Judged(j) \/ j \in Kept(s)
    BY DEF Backed
  <1> QED  BY <1>1 DEF Judged

LEMMA DedupLibraryBacked ==
    ASSUME IInv, LostInv, [Next]_vars, NEW l \in Loops, DedupLibrary(l)
    PROVE  LostInv'
  <1>a. PICK s : s = loop[l]
    OBVIOUS
  <1>c. PICK found \in SUBSET s.todo, failed \in SUBSET s.todo :
              /\ errors' = errors + Cardinality(failed)
              /\ loop' = [loop EXCEPT ![l] =
                    [s EXCEPT !.pc = "triage", !.todo = @ \ (found \cup failed),
                              !.verdict = Give(@, found, "rejected_dedup_library")]]
    BY <1>a DEF DedupLibrary
  <1>d. PICK t : t = [s EXCEPT !.pc = "triage", !.todo = @ \ (found \cup failed),
                               !.verdict = Give(@, found, "rejected_dedup_library")]
    OBVIOUS
  <1>1. s.pc = "library" /\ loop' = [loop EXCEPT ![l] = t] /\ row' = row
    BY <1>a, <1>c, <1>d DEF DedupLibrary
  <1>2. s \in Tick /\ s.todo \subseteq Items
    BY <1>1, <1>a, Holder DEF Outside, Tick
  <1>3. errors' = 0 => errors = 0 /\ failed = {}
    BY <1>2, <1>c, NoneFailed
  <1>4. t \in Tick
    <2>1. Give(s.verdict, found, "rejected_dedup_library") \in [Items -> Verdicts \cup {"none"}]
      BY <1>2 DEF Give, Tick, Verdicts
    <2> QED  BY <1>2, <1>d, <2>1 DEF Tick
  <1>5. t.pc = "triage" /\ t.todo = s.todo \ (found \cup failed)
        /\ \A i \in Items : t.verdict[i] = IF i \in found THEN "rejected_dedup_library" ELSE s.verdict[i]
    BY <1>2, <1>d DEF Tick, Give
  <1>6. loop'[l] = t /\ \A k \in Loops \ {l} : loop'[k] = loop[k]
    BY <1>1 DEF IInv, TypeOK
  <1>7. errors' = 0 => RowsSaved'
    BY <1>1, <1>3, RowsStaySaved DEF LostInv
  <1>8. errors' = 0 => TickBacked(l)'
    <2> SUFFICES ASSUME errors' = 0 PROVE TickBacked(l)'
      OBVIOUS
    <2>1. errors = 0 /\ failed = {}
      BY <1>3
    <2>2. Flawless(s) /\ Backed(s)
      BY <1>1, <1>a, <2>1 DEF LostInv, TickBacked, Sorted
    <2>3. Kept(s) \subseteq Kept(t)
      BY <1>2, <1>5, <2>1 DEF Kept
    <2>4. Flawless(t)
      BY <1>5, <2>2 DEF Flawless
    <2>5. Backed(t)'
      BY <1>1, <1>2, <1>4, <1>5, <2>2, <2>3, StillBacked
    <2> QED  BY <1>6, <2>4, <2>5 DEF TickBacked, Flawless
  <1> QED  BY <1>3, <1>6, <1>7, <1>8, OneTickBacked, JudgedStays

LEMMA TriageBacked ==
    ASSUME IInv, LostInv, [Next]_vars, NEW l \in Loops, Triage(l)
    PROVE  LostInv'
  <1>a. PICK s : s = loop[l]
    OBVIOUS
  <1>b. PICK failed \in SUBSET s.todo, dropped \in SUBSET s.todo :
              /\ errors' = errors + Cardinality(failed)
              /\ loop' = [loop EXCEPT ![l] =
                    [s EXCEPT !.pc = "record", !.todo = {},
                              !.verdict = Triaged(s, failed, dropped)]]
    BY <1>a DEF Triage
  <1>c. PICK verdict : verdict = Triaged(s, failed, dropped)
    OBVIOUS
  <1>d. PICK t : t = [s EXCEPT !.pc = "record", !.todo = {}, !.verdict = verdict]
    OBVIOUS
  <1>1. s.pc = "triage" /\ loop' = [loop EXCEPT ![l] = t] /\ row' = row
    BY <1>a, <1>b, <1>c, <1>d DEF Triage
  <1>2. s \in Tick /\ s.todo \subseteq Items
    BY <1>1, <1>a, Holder DEF Outside, Tick
  <1>3. errors' = 0 => errors = 0 /\ failed = {}
    BY <1>2, <1>b, NoneFailed
  <1>4. \A i \in Items : IF i \in s.todo
                         THEN verdict[i] \in IF i \in failed THEN {"skipped_error"} ELSE {"rejected", "triaged"}
                         ELSE verdict[i] = s.verdict[i]
    BY <1>b, <1>c DEF Triaged
  <1>5. verdict \in [Items -> Verdicts \cup {"none"}]
    BY <1>2, <1>c, <1>4 DEF Tick, Verdicts, Triaged
  <1>6. t \in Tick /\ t.pc = "record" /\ t.todo = {} /\ t.verdict = verdict
    BY <1>2, <1>5, <1>d DEF Tick
  <1>7. loop'[l] = t /\ \A k \in Loops \ {l} : loop'[k] = loop[k]
    BY <1>1 DEF IInv, TypeOK
  <1>8. errors' = 0 => RowsSaved'
    BY <1>1, <1>3, RowsStaySaved DEF LostInv
  <1>9. errors' = 0 => TickBacked(l)'
    <2> SUFFICES ASSUME errors' = 0 PROVE TickBacked(l)'
      OBVIOUS
    <2>1. errors = 0 /\ failed = {}
      BY <1>3
    <2>2. Flawless(s) /\ Backed(s)
      BY <1>1, <1>a, <2>1 DEF LostInv, TickBacked, Sorted
    <2>3. Kept(s) \subseteq Kept(t)
      BY <1>2, <1>4, <1>6, <2>1 DEF Kept
    <2>4. Flawless(t)
      BY <1>4, <1>6, <2>1, <2>2 DEF Flawless
    <2>5. Backed(t)'
      <3>1. \A i \in Items : t.verdict[i] = "rejected_dedup_processed"
                                => s.verdict[i] = "rejected_dedup_processed"
        BY <1>4, <1>6
      <3> QED  BY <1>1, <1>2, <1>6, <2>2, <2>3, <3>1, StillBacked
    <2> QED  BY <1>7, <2>4, <2>5 DEF TickBacked, Flawless
  <1> QED  BY <1>3, <1>7, <1>8, <1>9, OneTickBacked, JudgedStays

\* The verdicts become rows: the copy a duplicate stands back for was judged
\* before or is judged now.
LEMMA RecordBacked ==
    ASSUME IInv, LostInv, [Next]_vars, NEW l \in Loops, Record(l)
    PROVE  LostInv'
  <1>a. PICK s : s = loop[l]
    OBVIOUS
  <1>1. s.pc = "record" /\ row' = Inserted(s) /\ errors' = errors
    BY <1>a DEF Record
  <1>2. s \in Tick /\ TickOK(l)
    BY <1>1, <1>a, Holder DEF Outside
  <1>3. s.todo = {}
    BY <1>1, <1>2, <1>a DEF TickOK
  <1>4. loop \in [Loops -> Tick]
    BY DEF IInv, TypeOK
  <1>5. loop'[l].pc = "mark" /\ loop'[l].verdict = s.verdict /\ \A k \in Loops \ {l} : loop'[k] = loop[k]
    BY <1>4, <1>a DEF Record, Tick
  <1>6. \A i \in Items : row'[i] = IF row[i] = "none" THEN s.verdict[i] ELSE row[i]
    BY <1>1 DEF Inserted
  <1>7. \A i \in Items : Judged(i) => Judged(i)'
    BY JudgedStays
  <1>8. ASSUME errors = 0 PROVE RowsSaved' /\ TickBacked(l)'
    <2>1. RowsSaved /\ Flawless(s) /\ Backed(s)
      BY <1>1, <1>8, <1>a DEF LostInv, TickBacked, Sorted
    <2>2. ASSUME NEW i \in Items, row[i] # "none" PROVE \E j \in CopiesOf(i) : Judged(j)'
      <3>1. PICK j \in CopiesOf(i) : Judged(j)
        BY <2>1, <2>2 DEF RowsSaved, Saved
      <3> QED  BY <1>7, <3>1, CopiesCompose
    <2>3. ASSUME NEW i \in Kept(s) PROVE \E j \in CopiesOf(i) : Judged(j)'
      <3>1. i \in Items /\ s.verdict[i] \in {"triaged", "rejected", "rejected_dedup_library"}
        BY <1>3, <2>3 DEF Kept
      <3>2. i \in CopiesOf(i)
        BY <3>1 DEF CopiesOf
      <3>3. CASE row[i] = "none"
        BY <1>6, <3>1, <3>2, <3>3 DEF Judged
      <3>4. CASE row[i] # "none"
        BY <2>2, <3>1, <3>4
      <3> QED  BY <3>3, <3>4
    <2>4. ASSUME NEW i \in Items, s.verdict[i] = "rejected_dedup_processed"
          PROVE  \E j \in CopiesOf(i) : Judged(j)'
      <3>1. PICK j \in CopiesOf(i) : Judged(j) \/ j \in Kept(s)
        BY <2>1, <2>4 DEF Backed
      <3>2. j \in Items /\ CopiesOf(j) \subseteq CopiesOf(i)
        BY CopiesCompose
      <3> QED  BY <1>7, <2>3, <3>1, <3>2
    <2>5. ASSUME NEW i \in Items PROVE row'[i] # "skipped_error"
      BY <1>6, <2>1 DEF RowsSaved, Flawless
    <2>6. ASSUME NEW i \in Items, row'[i] # "none" PROVE \E j \in CopiesOf(i) : Judged(j)'
      <3>1. CASE row[i] # "none"
        BY <2>2, <3>1
      <3>2. CASE row[i] = "none"
        <4>1. s.verdict[i] \in Verdicts /\ s.verdict[i] # "skipped_error"
          BY <1>2, <1>6, <2>1, <2>6, <3>2 DEF Tick, Flawless
        <4>2. CASE s.verdict[i] = "rejected_dedup_processed"
          BY <2>4, <4>2
        <4>3. CASE s.verdict[i] # "rejected_dedup_processed"
          BY <2>3, <4>1, <4>3 DEF Verdicts, Kept
        <4> QED  BY <4>2, <4>3
      <3> QED  BY <3>1, <3>2
    <2>7. RowsSaved'
      BY <2>5, <2>6 DEF RowsSaved, Saved
    <2>8. TickBacked(l)'
      BY <1>5, <2>1 DEF TickBacked, Flawless, Sorted
    <2> QED  BY <2>7, <2>8
  <1> QED  BY <1>1, <1>5, <1>7, <1>8, OneTickBacked

\* A step of one loop.
LEMMA LoopBacked ==
    ASSUME IInv, LostInv, [Next]_vars, NEW l \in Loops, StartLoop(l) \/ TickStep(l) \/ Die(l)
    PROVE  LostInv'
  <1>1. loop \in [Loops -> Tick] /\ loop[l] \in Tick
    BY DEF IInv, TypeOK
  <1>2. Off.pc = "off" /\ Idle.pc = "idle" /\ Off.verdict = Nothing /\ Idle.verdict = Nothing
    BY DEF Off, Idle
  <1>3. ASSUME NEW end \in {Off, Idle}, loop' = [loop EXCEPT ![l] = end], row' = row, errors' = errors
        PROVE  LostInv'
    <2>1. loop'[l] = end /\ \A k \in Loops \ {l} : loop'[k] = loop[k]
      BY <1>1, <1>3
    <2> QED  BY <1>2, <1>3, <2>1, PlainStepBacked DEF Sorted
  <1>4. CASE StartLoop(l)
    BY <1>3, <1>4 DEF StartLoop
  <1>5. CASE Die(l)
    BY <1>3, <1>5 DEF Die
  <1>6. CASE EndTick(l)
    <2>1. \E end \in {Off, Idle} : loop' = [loop EXCEPT ![l] = end]
      BY <1>6 DEF EndTick
    <2> QED  BY <1>3, <1>6, <2>1 DEF EndTick
  <1>7. CASE StartTick(l)
    <2>1. CASE LockFree(l)
      <3>1. loop'[l].pc = "pick" /\ loop'[l].verdict = loop[l].verdict
            /\ \A k \in Loops \ {l} : loop'[k] = loop[k]
        BY <1>1, <1>7, <2>1 DEF StartTick, Tick
      <3> QED  BY <1>7, <3>1, PlainStepBacked DEF StartTick, Sorted
    <2>2. CASE ~LockFree(l)
      BY <1>3, <1>7, <2>2 DEF StartTick
    <2> QED  BY <2>1, <2>2
  <1>8. CASE Pick(l)
    <2>1. loop'[l].pc = "prepare" /\ loop'[l].verdict = loop[l].verdict
          /\ \A k \in Loops \ {l} : loop'[k] = loop[k]
      BY <1>1, <1>8 DEF Pick, Tick
    <2> QED  BY <1>8, <2>1, PlainStepBacked DEF Pick, Sorted
  <1>9. CASE MarkRead(l)
    <2>1. loop'[l].pc = "done" /\ loop'[l].verdict = loop[l].verdict
          /\ \A k \in Loops \ {l} : loop'[k] = loop[k]
      BY <1>1, <1>9 DEF MarkRead, Tick
    <2> QED  BY <1>9, <2>1, PlainStepBacked DEF MarkRead, Sorted
  <1> QED  BY <1>4, <1>5, <1>6, <1>7, <1>8, <1>9, PrepareBacked, DedupProcessedBacked,
              DedupLibraryBacked, TriageBacked, RecordBacked DEF TickStep

LEMMA LostStep ==
    IInv /\ LostInv /\ [Next]_vars => LostInv'
  <1> SUFFICES ASSUME IInv, LostInv, [Next]_vars PROVE LostInv'
    OBVIOUS
  <1>1. ASSUME row' = row, loop' = loop, errors' = errors PROVE LostInv'
    BY <1>1 DEF LostInv, RowsSaved, Saved, TickBacked, Flawless, Backed, Kept, Judged
  <1>2. CASE UNCHANGED vars
    BY <1>1, <1>2 DEF vars
  <1>3. ASSUME NEW i \in Items, Fetch(i) PROVE LostInv'
    BY <1>1, <1>3 DEF Fetch
  <1> QED  BY <1>2, <1>3, RejectBacked, LoopBacked DEF Next

\* While no triage and no lookup failed, of a paper whose copies are all read
\* one copy was judged, whatever batches they came in and wherever ticks died.
THEOREM PapersAreKept == Spec => []NoPaperIsLost
  <1>1. IInv /\ LostInv => NoPaperIsLost
    <2> SUFFICES ASSUME IInv, LostInv, errors = 0, NEW i \in read
                 PROVE  \E j \in CopiesOf(i) : Judged(j)
      BY DEF NoPaperIsLost
    <2>1. i \in Items /\ row[i] # "none"
      BY DEF IInv, TypeOK, ReadOK, Recorded
    <2> QED  BY <2>1 DEF LostInv, RowsSaved, Saved
  <1> QED  BY <1>1, InitOK, StepOK, LostInit, LostStep, PTL DEF Spec
=============================================================================
