------------------------ MODULE PendingChanges_proofs ------------------------
(***************************************************************************)
(* Proofs about PendingChanges, for any items, payloads, number of         *)
(* concurrent apply requests, rows and crashes.                            *)
(*                                                                         *)
(* The inductive invariant IInv adds to the invariants of the module where *)
(* new rows come from (Unused), what a request that has written knows      *)
(* (DoneRowsWereDelivered), what it may hold (HeldRows) and when it looked *)
(* at the queue (SeenBefore).                                              *)
(***************************************************************************)
EXTENDS PendingChanges, FiniteSetTheorems, TLAPS

\* Row ids above the last one handed out are free.
Unused == \A c \in Ids : c > last => rows[c] = NoRow /\ delivered[c] = {}

IdsOf(batch) == {r[1] : r \in batch}

\* A request writes rows it has read, and a row it read as failed is never
\* pending again.
HeldRows ==
    \A w \in Appliers :
        /\ applier[w].done \subseteq IdsOf(applier[w].batch)
        /\ \A c \in IdsOf(applier[w].batch) :
              c <= last /\ (applier[w].source = "failed" => rows[c].status # "pending")

\* What a request holds as written was written.
DoneRowsWereDelivered == \A w \in Appliers : \A c \in applier[w].done : delivered[c] # {}

\* The last row id a request noted is one that was handed out.
SeenBefore == \A w \in Appliers : applier[w].seen <= last

IInv ==
    /\ TypeOK
    /\ Unused
    /\ DoneRowsWereDelivered
    /\ HeldRows
    /\ SeenBefore
    /\ AppliedRowsWereDelivered
    /\ DeliveriesAreRecorded
    /\ InboxCheckedAgainstQueue

-----------------------------------------------------------------------------
(* Operators.                                                              *)

\* set_pending_changes_status touches nothing but the status of listed rows
\* that have the expected status.
LEMMA MarkedRows ==
    ASSUME rows \in [Ids -> Row \cup {NoRow}], NEW S, NEW source \in Open,
           NEW status \in Open \cup Closed
    PROVE  /\ Marked(S, source, status) \in [Ids -> Row \cup {NoRow}]
           /\ \A c \in Ids :
                 IF c \in S /\ rows[c].status = source
                 THEN /\ Marked(S, source, status)[c].status = status
                      /\ Marked(S, source, status)[c].item = rows[c].item
                 ELSE Marked(S, source, status)[c] = rows[c]
  <1>1. \A c \in Ids : rows[c].status = source => rows[c] \in Row
    BY DEF Row, NoRow, Open
  <1> QED  BY <1>1 DEF Marked, Row, NoRow

\* The rows queue_changes adds are above every earlier one.
LEMMA QueuedRows ==
    ASSUME TypeOK, NEW i \in Items, NEW P \in SUBSET Payloads, QueueChanges(i, P)
    PROVE  /\ last' \in 0..MaxRows
           /\ last < last'
           /\ rows' \in [Ids -> Row \cup {NoRow}]
           /\ \A c \in Ids : c <= last \/ c > last' => rows'[c] = rows[c]
           /\ \A c \in Ids : c > last /\ c <= last' => rows'[c].status = "pending"
  <1>1. IsFiniteSet(P) /\ Cardinality(P) \in Nat /\ Cardinality(P) # 0
    BY PayloadsFinite, FS_Subset, FS_CardinalityType, FS_EmptySet DEF QueueChanges
  <1>2. last' = last + Cardinality(P) /\ last + Cardinality(P) <= MaxRows
    BY DEF QueueChanges
  <1>3. PICK order \in [last + 1 .. last + Cardinality(P) -> P] :
          rows' = [c \in Ids |->
                     IF c \in DOMAIN order
                     THEN [item |-> i, payload |-> order[c], status |-> "pending"]
                     ELSE rows[c]]
    BY DEF QueueChanges
  <1>4. DOMAIN order = last + 1 .. last'
    BY <1>2, <1>3
  <1>5. \A c \in DOMAIN order : [item |-> i, payload |-> order[c], status |-> "pending"] \in Row
    BY <1>3 DEF Row, Open
  <1>6. last \in Nat /\ MaxRows \in Nat
    BY BoundsType DEF TypeOK
  <1>7. rows' \in [Ids -> Row \cup {NoRow}]
    BY <1>3, <1>5 DEF TypeOK
  <1> QED  BY <1>1, <1>2, <1>3, <1>4, <1>6, <1>7 DEF Ids

-----------------------------------------------------------------------------
(* Type correctness.                                                       *)

LEMMA TypeInit == Init => TypeOK
  <1> SUFFICES ASSUME Init PROVE TypeOK
    OBVIOUS
  <1>1. Idle \in Applier
    BY DEF Idle, Applier, Open
  <1> QED  BY <1>1, BoundsType DEF Init, TypeOK

\* What a request reads is a triple of its row's id, item and payload.
LEMMA BatchType ==
    ASSUME TypeOK, NEW S \in SUBSET Ids, NEW source \in Open
    PROVE  {<<c, rows[c].item, rows[c].payload>> : c \in S \cap WithStatus(source)}
              \in SUBSET (Ids \X Items \X Payloads)
  <1>1. \A c \in WithStatus(source) : rows[c] \in Row
    BY DEF TypeOK, WithStatus, Row, NoRow, Open
  <1> QED  BY <1>1 DEF Row

LEMMA TypeStep == TypeOK /\ [Next]_vars => TypeOK'
  <1> SUFFICES ASSUME TypeOK, [Next]_vars PROVE TypeOK'
    OBVIOUS
  <1>1. ASSUME NEW i \in Items, NEW P \in SUBSET Payloads, QueueChanges(i, P)
        PROVE  TypeOK'
    BY <1>1, QueuedRows DEF TypeOK, QueueChanges
  <1>2. ASSUME NEW c \in Ids, NEW p \in Payloads, EditChange(c, p)
        PROVE  TypeOK'
    <2>1. rows[c] \in Row
      BY <1>2 DEF TypeOK, EditChange, NoRow
    <2>2. [rows[c] EXCEPT !.payload = p] \in Row
      BY <2>1 DEF Row
    <2> QED  BY <1>2, <2>2 DEF TypeOK, EditChange
  <1>3. ASSUME NEW S \in SUBSET WithStatus("pending"), RejectChanges(S)
        PROVE  TypeOK'
    BY <1>3, MarkedRows DEF TypeOK, RejectChanges, Open, Closed
  <1>4. ASSUME NEW w \in Appliers, Apply(w) PROVE TypeOK'
    <2>0. applier[w] \in Applier
      BY DEF TypeOK
    <2>1. ASSUME NEW S \in SUBSET Ids, NEW source \in Open, StartApply(w, S, source)
          PROVE  TypeOK'
      <3>1. [Idle EXCEPT !.pc = "write", !.source = source,
               !.batch = {<<c, rows[c].item, rows[c].payload>> : c \in S \cap WithStatus(source)}]
               \in Applier
        BY BatchType DEF Applier, Idle
      <3> QED  BY <2>1, <3>1 DEF TypeOK, StartApply
    <2>2. CASE WriteZotero(w)
      <3>1. PICK ok \in SUBSET applier[w].batch :
              /\ delivered' = [c \in Ids |->
                    delivered[c] \cup {r[3] : r \in {x \in ok : x[1] = c}}]
              /\ applier' = [applier EXCEPT ![w].pc = "applied",
                    ![w].done = AppliedIds(applier[w].batch, ok),
                    ![w].refused = {r[1] : r \in applier[w].batch} \ AppliedIds(applier[w].batch, ok)]
        BY <2>2 DEF WriteZotero
      <3>4. applier[w].batch \in SUBSET (Ids \X Items \X Payloads)
        BY <2>0 DEF Applier
      <3>5. delivered' \in [Ids -> SUBSET Payloads]
        BY <3>1, <3>4 DEF TypeOK
      <3>6. AppliedIds(applier[w].batch, ok) \in SUBSET Ids
            /\ {r[1] : r \in applier[w].batch} \in SUBSET Ids
        BY <3>1, <3>4 DEF AppliedIds
      <3>7. \A D \in SUBSET Ids, R \in SUBSET Ids :
              [applier[w] EXCEPT !.pc = "applied", !.done = D, !.refused = R] \in Applier
        BY <2>0 DEF Applier
      <3>8. applier' \in [Appliers -> Applier]
        BY <3>1, <3>6, <3>7 DEF TypeOK
      <3> QED  BY <2>2, <3>5, <3>8 DEF TypeOK, WriteZotero
    <2>3. CASE WriteFails(w) \/ RemoveFromInbox(w) \/ RemovalFails(w) \/ BreakOff(w)
      <3>1. Idle \in Applier
        BY DEF Idle, Applier, Open
      <3> QED  BY <2>3, <3>1 DEF TypeOK, WriteFails, RemoveFromInbox, RemovalFails, BreakOff
    <2>4. CASE MarkApplied(w)
      <3>1. rows' \in [Ids -> Row \cup {NoRow}]
        BY <2>4, <2>0, MarkedRows DEF TypeOK, MarkApplied, Applier, Open, Closed
      <3> QED  BY <2>4, <2>0, <3>1 DEF TypeOK, MarkApplied, Applier
    <2>5. CASE MarkFailed(w)
      <3>1. PICK c \in applier[w].refused :
              /\ rows' = Marked({c}, applier[w].source, "failed")
              /\ applier' = [applier EXCEPT ![w].refused = @ \ {c}]
        BY <2>5 DEF MarkFailed
      <3>2. rows' \in [Ids -> Row \cup {NoRow}]
        BY <2>0, <3>1, MarkedRows DEF TypeOK, Applier, Open
      <3> QED  BY <2>5, <2>0, <3>1, <3>2 DEF TypeOK, MarkFailed, Applier
    <2>6. CASE OutcomesRecorded(w)
      <3>1. Idle \in Applier
        BY DEF Idle, Applier, Open
      <3> QED  BY <2>6, <2>0, <3>1 DEF TypeOK, OutcomesRecorded, Applier
    <2>7. CASE FindComplete(w)
      <3>1. Idle \in Applier
        BY DEF Idle, Applier, Open
      <3>2. ItemsDone(w) \in SUBSET Items
        BY <2>0 DEF Applier, ItemsDone
      <3>3. last \in Nat
        BY BoundsType DEF TypeOK
      <3> QED  BY <2>7, <2>0, <3>1, <3>2, <3>3 DEF TypeOK, FindComplete, Applier
    <2> QED  BY <1>4, <2>1, <2>2, <2>3, <2>4, <2>5, <2>6, <2>7 DEF Apply
  <1>5. CASE Crash
    <2>1. Idle \in Applier
      BY DEF Idle, Applier, Open
    <2> QED  BY <1>5, <2>1 DEF TypeOK, Crash
  <1>6. CASE UNCHANGED vars
    BY <1>6 DEF TypeOK, vars
  <1> QED  BY <1>1, <1>2, <1>3, <1>4, <1>5, <1>6 DEF Next, Produce, Review

\* The queue, Zotero and every request stay well formed.
THEOREM TypeCorrect == Spec => []TypeOK
  BY TypeInit, TypeStep, PTL DEF Spec

-----------------------------------------------------------------------------
(* How rows change: the lemma the invariants of the queue rest on.          *)

\* A step leaves closed rows alone, closes or fails an open one, or adds
\* pending rows above the last id.
RowStep(c) ==
    \/ rows'[c] = rows[c]
    \/ rows[c] = NoRow /\ c > last /\ c <= last' /\ rows'[c].status = "pending"
    \/ rows[c].status = "pending" /\ rows'[c].status \in Open \cup Closed /\ rows'[c].item = rows[c].item
    \/ rows[c].status = "failed" /\ rows'[c].status \in {"failed", "applied"} /\ rows'[c].item = rows[c].item

LEMMA RowsStep ==
    ASSUME TypeOK, Unused, [Next]_vars
    PROVE  /\ last <= last'
           /\ \A c \in Ids : RowStep(c)
           /\ \A c \in Ids : c > last' => rows'[c] = NoRow
  <1>0. last \in Nat /\ MaxRows \in Nat
    BY BoundsType DEF TypeOK
  <1>1. ASSUME NEW i \in Items, NEW P \in SUBSET Payloads, QueueChanges(i, P)
        PROVE  /\ last <= last'
               /\ \A c \in Ids : RowStep(c)
               /\ \A c \in Ids : c > last' => rows'[c] = NoRow
    <2>1. ASSUME NEW c \in Ids PROVE RowStep(c)
      <3>1. CASE c > last /\ c <= last'
        BY <1>0, <1>1, <3>1, QueuedRows DEF Unused, RowStep
      <3>2. CASE ~(c > last /\ c <= last')
        BY <1>0, <1>1, <3>2, QueuedRows DEF RowStep, Ids
      <3> QED  BY <3>1, <3>2
    <2> QED  BY <1>0, <1>1, <2>1, QueuedRows DEF Unused, Ids
  <1>2. ASSUME NEW S, NEW source \in Open, NEW status \in Open \cup Closed,
               source = "failed" => status \in {"failed", "applied"},
               rows' = Marked(S, source, status), last' = last
        PROVE  /\ last <= last'
               /\ \A c \in Ids : RowStep(c)
               /\ \A c \in Ids : c > last' => rows'[c] = NoRow
    <2>1. \A c \in Ids :
            IF c \in S /\ rows[c].status = source
            THEN rows'[c].status = status /\ rows'[c].item = rows[c].item
            ELSE rows'[c] = rows[c]
      <3>1. rows \in [Ids -> Row \cup {NoRow}]
        BY DEF TypeOK
      <3>2. \A c \in Ids : rows[c].status = source => rows[c] \in Row
        BY <1>2, <3>1 DEF Row, NoRow, Open
      <3> QED  BY <1>2, <3>1, <3>2 DEF Marked, Row
    <2>2. \A c \in Ids : RowStep(c)
      BY <1>2, <2>1 DEF RowStep, Open
    <2> QED  BY <1>0, <1>2, <2>1, <2>2 DEF Unused, NoRow, Open, Ids
  <1>3. ASSUME NEW c \in Ids, NEW p \in Payloads, EditChange(c, p)
        PROVE  /\ last <= last'
               /\ \A d \in Ids : RowStep(d)
               /\ \A d \in Ids : d > last' => rows'[d] = NoRow
    <2>1. rows[c] \in Row
      BY <1>3 DEF TypeOK, EditChange, NoRow
    <2>2. rows'[c].status = "pending" /\ rows'[c].item = rows[c].item
      BY <1>3, <2>1 DEF TypeOK, EditChange, Row
    <2>3. \A d \in Ids : d # c => rows'[d] = rows[d]
      BY <1>3 DEF TypeOK, EditChange
    <2>4. last' = last /\ rows[c].status = "pending"
      BY <1>3 DEF EditChange
    <2> QED  BY <1>0, <2>2, <2>3, <2>4 DEF Unused, RowStep, NoRow, Open, Ids
  <1>4. ASSUME NEW S \in SUBSET WithStatus("pending"), RejectChanges(S)
        PROVE  /\ last <= last'
               /\ \A c \in Ids : RowStep(c)
               /\ \A c \in Ids : c > last' => rows'[c] = NoRow
    BY <1>2, <1>4 DEF RejectChanges, Open, Closed
  <1>5. ASSUME NEW w \in Appliers, Apply(w)
        PROVE  /\ last <= last'
               /\ \A c \in Ids : RowStep(c)
               /\ \A c \in Ids : c > last' => rows'[c] = NoRow
    <2>1. applier[w].source \in Open
      BY DEF TypeOK, Applier
    <2>2. CASE MarkApplied(w)
      BY <1>2, <2>1, <2>2 DEF MarkApplied, Closed
    <2>3. CASE MarkFailed(w)
      BY <1>2, <2>1, <2>3 DEF MarkFailed, Open
    <2>4. CASE UNCHANGED <<rows, last>>
      BY <1>0, <2>4 DEF Unused, RowStep
    <2> QED  BY <1>5, <2>2, <2>3, <2>4 DEF Apply, StartApply, WriteZotero, WriteFails,
               OutcomesRecorded, FindComplete, RemoveFromInbox, RemovalFails, BreakOff
  <1>6. CASE Crash \/ UNCHANGED vars
    BY <1>0, <1>6 DEF Unused, RowStep, Crash, vars
  <1> QED  BY <1>1, <1>3, <1>4, <1>5, <1>6 DEF Next, Produce, Review

-----------------------------------------------------------------------------
(* How a request changes: it ends or starts afresh, writes Zotero, goes on  *)
(* with what it holds, or notes the complete items and the last row id.     *)

RequestStep(w) ==
    LET a == applier[w]
        b == applier'[w]
    IN  \/ b = a
        \/ b.pc # "inbox" /\ b.done = {} /\ b.seen = 0
        \/ b.pc = "applied" /\ WriteZotero(w) /\ b.seen = a.seen
        \/ b.pc \in {"failed", "check"} /\ b.done = a.done /\ b.seen = a.seen
        \/ /\ b.pc = "inbox" /\ b.done = a.done /\ b.seen = last
           /\ \A i \in b.complete : OpenOf(i) = {}
           /\ rows' = rows

LEMMA RequestsStep ==
    ASSUME TypeOK, [Next]_vars
    PROVE  \A w \in Appliers : RequestStep(w)
  <1>0. applier \in [Appliers -> Applier]
    BY DEF TypeOK
  <1>1. ASSUME NEW w \in Appliers, Apply(w)
        PROVE  /\ \A v \in Appliers \ {w} : applier'[v] = applier[v]
               /\ RequestStep(w)
    <2>0. applier[w] \in Applier
      BY <1>0
    <2>1. ASSUME NEW S \in SUBSET Ids, NEW source \in Open, StartApply(w, S, source)
          PROVE  /\ \A v \in Appliers \ {w} : applier'[v] = applier[v]
                 /\ RequestStep(w)
      BY <1>0, <2>1 DEF StartApply, Idle, RequestStep
    <2>2. CASE WriteZotero(w)
      <3>1. PICK D, R : applier' = [applier EXCEPT ![w].pc = "applied", ![w].done = D, ![w].refused = R]
        BY <2>2 DEF WriteZotero
      <3>2. \A v \in Appliers \ {w} : applier'[v] = applier[v]
        BY <1>0, <3>1
      <3>3. applier'[w] = [applier[w] EXCEPT !.pc = "applied", !.done = D, !.refused = R]
        BY <1>0, <3>1
      <3>4. applier'[w].pc = "applied" /\ applier'[w].seen = applier[w].seen
        BY <2>0, <3>3 DEF Applier
      <3> QED  BY <2>2, <3>2, <3>4 DEF RequestStep
    <2>3. CASE WriteFails(w) \/ RemoveFromInbox(w) \/ RemovalFails(w) \/ BreakOff(w)
      BY <1>0, <2>3 DEF WriteFails, RemoveFromInbox, RemovalFails, BreakOff, Idle, RequestStep
    <2>4. CASE MarkApplied(w)
      BY <1>0, <2>0, <2>4 DEF MarkApplied, Applier, RequestStep
    <2>5. CASE MarkFailed(w)
      <3>1. PICK R : applier' = [applier EXCEPT ![w].refused = R]
        BY <2>5 DEF MarkFailed
      <3>2. applier'[w] = [applier[w] EXCEPT !.refused = R]
        BY <1>0, <3>1
      <3>3. applier[w].pc = "failed"
        BY <2>5 DEF MarkFailed
      <3> QED  BY <1>0, <2>0, <3>1, <3>2, <3>3 DEF Applier, RequestStep
    <2>6. CASE OutcomesRecorded(w)
      <3>1. CASE applier[w].done = {}
        BY <1>0, <2>6, <3>1 DEF OutcomesRecorded, Idle, RequestStep
      <3>2. CASE applier[w].done # {}
        <4>1. applier' = [applier EXCEPT ![w] = [applier[w] EXCEPT !.pc = "check"]]
          BY <2>6, <3>2 DEF OutcomesRecorded
        <4> QED  BY <1>0, <2>0, <4>1 DEF Applier, RequestStep
      <3> QED  BY <3>1, <3>2
    <2>7. CASE FindComplete(w)
      <3> DEFINE complete == {i \in ItemsDone(w) : OpenOf(i) = {}}
      <3>1. CASE complete = {}
        BY <1>0, <2>7, <3>1 DEF FindComplete, Idle, RequestStep
      <3>2. CASE complete # {}
        <4>1. applier' = [applier EXCEPT ![w] =
                            [applier[w] EXCEPT !.pc = "inbox", !.complete = complete, !.seen = last]]
          BY <2>7, <3>2 DEF FindComplete
        <4>2. applier'[w] = [applier[w] EXCEPT !.pc = "inbox", !.complete = complete, !.seen = last]
          BY <1>0, <4>1
        <4>3. /\ applier'[w].pc = "inbox" /\ applier'[w].done = applier[w].done
              /\ applier'[w].seen = last /\ applier'[w].complete = complete
          BY <2>0, <4>2 DEF Applier
        <4>4. \A i \in complete : OpenOf(i) = {}
          OBVIOUS
        <4>5. rows' = rows
          BY <2>7 DEF FindComplete
        <4>6. RequestStep(w)
          BY <4>3, <4>4, <4>5 DEF RequestStep
        <4> QED  BY <1>0, <4>1, <4>6
      <3> QED  BY <3>1, <3>2
    <2> QED  BY <1>1, <2>1, <2>2, <2>3, <2>4, <2>5, <2>6, <2>7 DEF Apply
  <1>2. CASE Crash
    BY <1>2 DEF Crash, Idle, RequestStep
  <1>3. CASE applier' = applier
    BY <1>3 DEF RequestStep
  <1>4. ASSUME NEW w \in Appliers, Apply(w)
        PROVE  \A v \in Appliers : RequestStep(v)
    BY <1>1, <1>4 DEF RequestStep
  <1>5. Produce \/ Review \/ UNCHANGED vars => applier' = applier
    BY DEF Produce, QueueChanges, Review, EditChange, RejectChanges, vars
  <1> QED  BY <1>2, <1>3, <1>4, <1>5 DEF Next

-----------------------------------------------------------------------------
(* The inductive invariant.                                                *)

LEMMA InvInit == Init => IInv
  <1> SUFFICES ASSUME Init PROVE IInv
    OBVIOUS
  <1>1. TypeOK
    BY TypeInit
  <1>2. \A w \in Appliers : /\ applier[w].done = {} /\ applier[w].pc = "idle" /\ applier[w].seen = 0
                            /\ applier[w].batch = {}
    BY DEF Init, Idle
  <1>3. last = 0 /\ \A c \in Ids : rows[c] = NoRow /\ delivered[c] = {}
    BY DEF Init
  <1>4. /\ Unused /\ DoneRowsWereDelivered /\ HeldRows /\ SeenBefore
        /\ InboxCheckedAgainstQueue
    BY <1>2, <1>3 DEF Unused, DoneRowsWereDelivered, HeldRows, IdsOf, SeenBefore,
                      InboxCheckedAgainstQueue
  <1>5. AppliedRowsWereDelivered
    BY <1>3 DEF AppliedRowsWereDelivered, NoRow
  <1>6. DeliveriesAreRecorded
    BY <1>3 DEF DeliveriesAreRecorded
  <1> QED  BY <1>1, <1>4, <1>5, <1>6 DEF IInv

\* What was delivered stays delivered, and the rows a request comes to hold
\* as written have just been delivered.
LEMMA DeliveredStep ==
    ASSUME IInv, [Next]_vars
    PROVE  /\ \A c \in Ids : delivered[c] \subseteq delivered'[c]
           /\ DoneRowsWereDelivered'
  <1> USE DEF IInv
  <1>1. ASSUME NEW w \in Appliers, WriteZotero(w)
        PROVE  /\ \A c \in Ids : delivered[c] \subseteq delivered'[c]
               /\ DoneRowsWereDelivered'
    <2>0. applier[w] \in Applier /\ applier[w].batch \in SUBSET (Ids \X Items \X Payloads)
      BY DEF TypeOK, Applier
    <2>1. PICK ok \in SUBSET applier[w].batch :
            /\ delivered' = [c \in Ids |->
                  delivered[c] \cup {r[3] : r \in {x \in ok : x[1] = c}}]
            /\ applier' = [applier EXCEPT ![w].pc = "applied",
                  ![w].done = AppliedIds(applier[w].batch, ok),
                  ![w].refused = {r[1] : r \in applier[w].batch} \ AppliedIds(applier[w].batch, ok)]
      BY <1>1 DEF WriteZotero
    <2>2. \A c \in Ids : delivered[c] \subseteq delivered'[c]
      BY <2>1
    <2>3. applier'[w].done = AppliedIds(applier[w].batch, ok)
      BY <2>0, <2>1 DEF TypeOK, Applier
    <2>4. \A c \in applier'[w].done : delivered'[c] # {}
      <3> SUFFICES ASSUME NEW c \in applier'[w].done PROVE delivered'[c] # {}
        OBVIOUS
      <3>1. PICK r \in ok : c = r[1]
        BY <2>3 DEF AppliedIds
      <3>2. c \in Ids /\ r[3] \in delivered'[c]
        BY <2>0, <2>1, <3>1
      <3> QED  BY <3>2
    <2>5. \A v \in Appliers : v # w => applier'[v] = applier[v]
      BY <2>1 DEF TypeOK
    <2>6. \A v \in Appliers : applier[v].done \in SUBSET Ids
      BY DEF TypeOK, Applier
    <2> QED  BY <2>2, <2>4, <2>5, <2>6 DEF DoneRowsWereDelivered
  <1>2. ASSUME delivered' = delivered, \A w \in Appliers : ~WriteZotero(w)
        PROVE  DoneRowsWereDelivered'
    BY <1>2, RequestsStep DEF DoneRowsWereDelivered, RequestStep
  <1>3. delivered' = delivered \/ \E w \in Appliers : WriteZotero(w)
    BY DEF Next, Produce, QueueChanges, Review, EditChange, RejectChanges, Crash, vars,
           Apply, StartApply, WriteFails, MarkApplied, MarkFailed, OutcomesRecorded,
           FindComplete, RemoveFromInbox, RemovalFails, BreakOff
  <1> QED  BY <1>1, <1>2, <1>3

LEMMA SeenStep ==
    ASSUME IInv, [Next]_vars
    PROVE  SeenBefore'
  <1>1. last \in Nat /\ last <= last' /\ last' \in Nat
    BY RowsStep, TypeStep, BoundsType DEF IInv, TypeOK
  <1>2. \A w \in Appliers : applier[w].seen \in Nat /\ applier[w].seen <= last
    BY DEF IInv, SeenBefore, TypeOK, Applier
  <1>3. \A w \in Appliers : applier'[w].seen \in {applier[w].seen, last, 0}
    BY RequestsStep DEF IInv, RequestStep
  <1> QED  BY <1>1, <1>2, <1>3 DEF SeenBefore

\* A row becomes applied only at the hands of a request that holds it as
\* written.
LEMMA AppliedStep ==
    ASSUME IInv, [Next]_vars
    PROVE  AppliedRowsWereDelivered'
  <1>0. \A c \in Ids : delivered[c] \subseteq delivered'[c]
    BY DeliveredStep
  <1>1. ASSUME NEW c \in Ids, rows'[c].status = "applied", rows[c].status # "applied"
        PROVE  delivered[c] # {}
    <2>1. ASSUME NEW w \in Appliers, MarkApplied(w) PROVE delivered[c] # {}
      BY <1>1, <2>1 DEF MarkApplied, Marked, IInv, DoneRowsWereDelivered
    <2>2. ASSUME NEW w \in Appliers, MarkFailed(w) PROVE FALSE
      <3>1. PICK d \in applier[w].refused : rows' = Marked({d}, applier[w].source, "failed")
        BY <2>2 DEF MarkFailed
      <3>2. applier[w].source \in Open
        BY DEF IInv, TypeOK, Applier
      <3>3. rows'[c] = rows[c] \/ rows'[c].status = "failed"
        <4>1. rows[c].status = applier[w].source => rows[c] \in Row
          BY <3>2 DEF IInv, TypeOK, Row, NoRow, Open
        <4> QED  BY <3>1, <4>1 DEF Marked, Row
      <3> QED  BY <1>1, <3>3
    <2>3. ASSUME NEW w \in Appliers, Apply(w), ~MarkApplied(w), ~MarkFailed(w) PROVE FALSE
      BY <1>1, <2>3 DEF Apply, StartApply, WriteZotero, WriteFails, OutcomesRecorded,
                        FindComplete, RemoveFromInbox, RemovalFails, BreakOff
    <2>4. ASSUME NEW i \in Items, NEW P \in SUBSET Payloads, QueueChanges(i, P) PROVE FALSE
      <3>1. last \in Nat /\ last' \in Nat
        BY <2>4, QueuedRows, BoundsType DEF IInv, TypeOK
      <3> QED  BY <1>1, <2>4, <3>1, QueuedRows DEF IInv, Ids
    <2>5. ASSUME NEW d \in Ids, NEW p \in Payloads, EditChange(d, p) PROVE FALSE
      <3>1. rows[d] \in Row
        BY <2>5 DEF IInv, TypeOK, EditChange, NoRow
      <3> QED  BY <1>1, <2>5, <3>1 DEF IInv, TypeOK, EditChange, Row
    <2>6. ASSUME NEW S \in SUBSET WithStatus("pending"), RejectChanges(S) PROVE FALSE
      <3>1. rows'[c] = rows[c] \/ rows'[c].status = "rejected"
        BY <2>6, MarkedRows DEF RejectChanges, IInv, TypeOK, Open, Closed
      <3> QED  BY <1>1, <3>1
    <2> QED  BY <1>1, <2>1, <2>2, <2>3, <2>4, <2>5, <2>6 DEF Next, Produce, Review, Crash, vars
  <1> QED  BY <1>0, <1>1 DEF IInv, AppliedRowsWereDelivered

\* What a request holds: nothing, what it held, or rows it has just read.
HoldStep(w) ==
    LET a == applier[w]
        b == applier'[w]
    IN  \/ b.batch = {} /\ b.done = {}
        \/ /\ b.batch = a.batch /\ b.source = a.source
           /\ b.done = a.done \/ b.done \subseteq IdsOf(a.batch)
        \/ /\ b.done = {} /\ rows' = rows /\ last' = last
           /\ \A c \in IdsOf(b.batch) : c \in Ids /\ rows[c].status = b.source /\ b.source \in Open

LEMMA HoldsStep ==
    ASSUME TypeOK, [Next]_vars, NEW w \in Appliers
    PROVE  HoldStep(w)
  <1>0. applier \in [Appliers -> Applier] /\ applier[w] \in Applier
    BY DEF TypeOK
  <1>1. CASE applier'[w] = applier[w]
    BY <1>1 DEF HoldStep
  <1>2. CASE applier'[w] = Idle
    BY <1>2 DEF HoldStep, Idle
  <1>3. ASSUME NEW S \in SUBSET Ids, NEW source \in Open, StartApply(w, S, source)
        PROVE  HoldStep(w)
    <2>1. /\ applier'[w].done = {} /\ applier'[w].source = source
          /\ applier'[w].batch = {<<c, rows[c].item, rows[c].payload>> : c \in S \cap WithStatus(source)}
      BY <1>0, <1>3 DEF StartApply, Idle
    <2>2. \A c \in IdsOf(applier'[w].batch) : c \in Ids /\ rows[c].status = source
      BY <2>1 DEF IdsOf, WithStatus
    <2> QED  BY <1>3, <2>1, <2>2 DEF StartApply, HoldStep
  <1>4. CASE WriteZotero(w)
    <2>1. PICK ok \in SUBSET applier[w].batch :
            applier' = [applier EXCEPT ![w].pc = "applied",
                          ![w].done = AppliedIds(applier[w].batch, ok),
                          ![w].refused = {r[1] : r \in applier[w].batch} \ AppliedIds(applier[w].batch, ok)]
      BY <1>4 DEF WriteZotero
    <2>2. /\ applier'[w].batch = applier[w].batch /\ applier'[w].source = applier[w].source
          /\ applier'[w].done = AppliedIds(applier[w].batch, ok)
      BY <1>0, <2>1 DEF Applier
    <2> QED  BY <2>2 DEF HoldStep, AppliedIds, IdsOf
  <1>5. CASE MarkApplied(w) \/ MarkFailed(w) \/ OutcomesRecorded(w) \/ FindComplete(w)
    <2>1. ASSUME NEW pc, NEW R, NEW C, NEW n,
                 \/ applier'[w] = [applier[w] EXCEPT !.pc = pc]
                 \/ applier'[w] = [applier[w] EXCEPT !.refused = R]
                 \/ applier'[w] = [applier[w] EXCEPT !.pc = pc, !.complete = C, !.seen = n]
          PROVE  HoldStep(w)
      BY <1>0, <2>1 DEF HoldStep, Applier
    <2>2. CASE MarkApplied(w)
      BY <1>0, <2>1, <2>2 DEF MarkApplied
    <2>3. CASE MarkFailed(w)
      BY <1>0, <2>1, <2>3 DEF MarkFailed
    <2>4. CASE OutcomesRecorded(w)
      <3>1. applier'[w] = Idle \/ applier'[w] = [applier[w] EXCEPT !.pc = "check"]
        BY <1>0, <2>4 DEF OutcomesRecorded
      <3> QED  BY <1>2, <2>1, <3>1
    <2>5. CASE FindComplete(w)
      <3>1. applier'[w] = Idle \/ \E C : applier'[w] = [applier[w] EXCEPT !.pc = "inbox",
                                                           !.complete = C, !.seen = last]
        BY <1>0, <2>5 DEF FindComplete
      <3> QED  BY <1>2, <2>1, <3>1
    <2> QED  BY <1>5, <2>2, <2>3, <2>4, <2>5
  <1>6. ASSUME NEW v \in Appliers, Apply(v), v # w PROVE applier'[w] = applier[w]
    BY <1>0, <1>6 DEF Apply, StartApply, WriteZotero, WriteFails, MarkApplied, MarkFailed,
         OutcomesRecorded, FindComplete, RemoveFromInbox, RemovalFails, BreakOff
  <1>7. CASE WriteFails(w) \/ RemoveFromInbox(w) \/ RemovalFails(w) \/ BreakOff(w) \/ Crash
    BY <1>0, <1>2, <1>7 DEF WriteFails, RemoveFromInbox, RemovalFails, BreakOff, Crash
  <1>8. CASE Produce \/ Review \/ UNCHANGED vars
    BY <1>1, <1>8 DEF Produce, QueueChanges, Review, EditChange, RejectChanges, vars
  <1> QED  BY <1>1, <1>3, <1>4, <1>5, <1>6, <1>7, <1>8 DEF Next, Apply

LEMMA HeldStep ==
    ASSUME IInv, [Next]_vars
    PROVE  HeldRows'
  <1> SUFFICES ASSUME NEW w \in Appliers
               PROVE  /\ applier'[w].done \subseteq IdsOf(applier'[w].batch)
                      /\ \A c \in IdsOf(applier'[w].batch) :
                           c <= last' /\ (applier'[w].source = "failed" => rows'[c].status # "pending")
    BY DEF HeldRows, IdsOf
  <1>0. TypeOK /\ Unused /\ HoldStep(w)
    BY HoldsStep DEF IInv
  <1>1. /\ applier[w].done \subseteq IdsOf(applier[w].batch)
        /\ \A c \in IdsOf(applier[w].batch) :
              /\ c \in Ids /\ c <= last
              /\ applier[w].source = "failed" => rows[c].status # "pending"
    BY DEF IInv, HeldRows, TypeOK, Applier, IdsOf
  <1>2. last \in Nat /\ last' \in Nat /\ last <= last' /\ \A c \in Ids : RowStep(c) /\ c \in Nat
    BY <1>0, RowsStep, TypeStep, BoundsType DEF TypeOK, Ids
  <1>3. \A c \in Ids : c <= last /\ rows[c].status # "pending" => rows'[c].status # "pending"
    BY <1>2 DEF RowStep, NoRow
  <1>4. \A c \in Ids : rows[c].status \in Open => c <= last
    BY <1>0, <1>2 DEF Unused, NoRow, Open
  <1>5. CASE applier'[w].batch = {} /\ applier'[w].done = {}
    BY <1>5 DEF IdsOf
  <1>6. CASE /\ applier'[w].batch = applier[w].batch /\ applier'[w].source = applier[w].source
             /\ applier'[w].done = applier[w].done \/ applier'[w].done \subseteq IdsOf(applier[w].batch)
    BY <1>1, <1>2, <1>3, <1>6
  <1>7. CASE /\ applier'[w].done = {} /\ rows' = rows /\ last' = last
             /\ \A c \in IdsOf(applier'[w].batch) :
                  c \in Ids /\ rows[c].status = applier'[w].source /\ applier'[w].source \in Open
    BY <1>2, <1>4, <1>7
  <1> QED  BY <1>0, <1>5, <1>6, <1>7 DEF HoldStep

\* Only its write changes what was delivered for a row.
LEMMA UndeliveredStep ==
    ASSUME IInv, [Next]_vars
    PROVE  /\ Unused'
           /\ \A c \in Ids : delivered'[c] # {} /\ delivered[c] = {} =>
                 \E w \in Appliers : applier'[w].pc = "applied" /\ c \in applier'[w].done
  <1> USE DEF IInv
  <1>0. last \in Nat /\ last' \in Nat /\ last <= last' /\ \A c \in Ids : c \in Nat
    BY RowsStep, TypeStep, BoundsType DEF TypeOK, Ids
  <1>1. ASSUME NEW w \in Appliers, WriteZotero(w), NEW c \in Ids, delivered'[c] # delivered[c]
        PROVE  applier'[w].pc = "applied" /\ c \in applier'[w].done /\ c <= last
    <2>1. PICK ok \in SUBSET applier[w].batch :
            /\ delivered' = [d \in Ids |->
                  delivered[d] \cup {r[3] : r \in {x \in ok : x[1] = d}}]
            /\ applier' = [applier EXCEPT ![w].pc = "applied",
                  ![w].done = AppliedIds(applier[w].batch, ok),
                  ![w].refused = {r[1] : r \in applier[w].batch} \ AppliedIds(applier[w].batch, ok)]
      BY <1>1 DEF WriteZotero
    <2>2. PICK r \in ok : r[1] = c
      BY <1>1, <2>1
    <2>3. applier'[w].pc = "applied" /\ applier'[w].done = AppliedIds(applier[w].batch, ok)
      BY <2>1 DEF TypeOK, Applier
    <2> QED  BY <2>2, <2>3 DEF AppliedIds, HeldRows, IdsOf
  <1>2. delivered' = delivered \/ \E w \in Appliers : WriteZotero(w)
    BY DEF Next, Produce, QueueChanges, Review, EditChange, RejectChanges, Crash, vars,
           Apply, StartApply, WriteFails, MarkApplied, MarkFailed, OutcomesRecorded,
           FindComplete, RemoveFromInbox, RemovalFails, BreakOff
  <1>3. \A c \in Ids : delivered'[c] # delivered[c] =>
          c <= last /\ \E w \in Appliers : applier'[w].pc = "applied" /\ c \in applier'[w].done
    BY <1>1, <1>2
  <1>4. Unused'
    BY <1>0, <1>3, RowsStep DEF Unused, Ids
  <1> QED  BY <1>3, <1>4

\* A request that has written a pending row marks it applied next.
LEMMA RecordedStep ==
    ASSUME IInv, [Next]_vars
    PROVE  DeliveriesAreRecorded'
  <1> USE DEF IInv
  <1> SUFFICES ASSUME crashes' = 0, NEW c \in Ids, delivered'[c] # {}, rows'[c].status = "pending"
               PROVE  \E w \in Appliers : applier'[w].pc = "applied" /\ c \in applier'[w].done
    BY DEF DeliveriesAreRecorded
  <1>0. crashes = 0 /\ crashes' # crashes + 1
    <2>1. crashes' = crashes \/ crashes' = crashes + 1
      BY DEF Next, Produce, QueueChanges, Review, EditChange, RejectChanges, Crash, vars,
             Apply, StartApply, WriteZotero, WriteFails, MarkApplied, MarkFailed,
             OutcomesRecorded, FindComplete, RemoveFromInbox, RemovalFails, BreakOff
    <2>2. crashes \in Nat
      BY DEF TypeOK
    <2> QED  BY <2>1, <2>2
  <1>1. CASE delivered[c] = {}
    BY <1>1, UndeliveredStep
  <1>2. CASE delivered[c] # {}
    <2>1. c <= last /\ last \in Nat /\ c \in Nat
      BY <1>2, BoundsType DEF Unused, TypeOK, Ids
    <2>2. rows[c].status = "pending"
      BY <2>1, RowsStep DEF RowStep
    <2>3. PICK w \in Appliers : applier[w].pc = "applied" /\ c \in applier[w].done
      BY <1>0, <1>2, <2>2 DEF DeliveriesAreRecorded
    <2>4. applier[w].source = "pending"
      BY <2>2, <2>3 DEF HeldRows, TypeOK, Applier, Open
    <2>5. CASE MarkApplied(w)
      <3>1. rows'[c].status = "applied"
        BY <2>2, <2>3, <2>4, <2>5, MarkedRows DEF MarkApplied, TypeOK, Open, Closed
      <3> QED  BY <3>1
    <2>6. CASE ~MarkApplied(w)
      <3>1. ASSUME NEW v \in Appliers, Apply(v), v # w PROVE applier'[w] = applier[w]
        BY <3>1 DEF TypeOK, Apply, StartApply, WriteZotero, WriteFails, MarkApplied, MarkFailed,
             OutcomesRecorded, FindComplete, RemoveFromInbox, RemovalFails, BreakOff
      <3>2. ~Apply(w) /\ ~Crash
        BY <1>0, <2>3, <2>6 DEF Apply, StartApply, WriteZotero, WriteFails, MarkFailed, Crash,
             OutcomesRecorded, FindComplete, RemoveFromInbox, RemovalFails, BreakOff
      <3>3. Produce \/ Review \/ UNCHANGED vars => applier' = applier
        BY DEF Produce, QueueChanges, Review, EditChange, RejectChanges, vars
      <3> QED  BY <2>3, <3>1, <3>2, <3>3 DEF Next
    <2> QED  BY <2>5, <2>6
  <1> QED  BY <1>1, <1>2

\* Rows that are open after a step were open before it or are new; so an
\* item found complete can only be reopened by rows above the noted id.
LEMMA InboxStep ==
    ASSUME IInv, [Next]_vars
    PROVE  InboxCheckedAgainstQueue'
  <1> SUFFICES ASSUME NEW w \in Appliers, applier'[w].pc = "inbox",
                      NEW c \in Ids, rows'[c].status \in Open,
                      rows'[c].item \in applier'[w].complete
               PROVE  c > applier'[w].seen
    BY DEF InboxCheckedAgainstQueue
  <1> DEFINE i == rows'[c].item
  <1>1. RowStep(c)
    BY RowsStep DEF IInv
  <1>2. last \in Nat /\ applier[w].seen <= last /\ applier[w].seen \in Nat /\ c \in Nat
    BY BoundsType DEF IInv, TypeOK, SeenBefore, Applier, Ids
  <1>3. c \in OpenOf(i) \/ c > last
    BY <1>1 DEF RowStep, OpenOf, Open, Closed
  <1>4. CASE applier'[w] = applier[w]
    BY <1>2, <1>3, <1>4 DEF IInv, InboxCheckedAgainstQueue, OpenOf
  <1>5. CASE applier'[w] # applier[w]
    <2>1. applier'[w].seen = last /\ OpenOf(i) = {}
      BY <1>5, RequestsStep DEF IInv, RequestStep
    <2> QED  BY <1>2, <1>3, <2>1
  <1> QED  BY <1>4, <1>5

LEMMA InvStep == IInv /\ [Next]_vars => IInv'
  <1> SUFFICES ASSUME IInv, [Next]_vars PROVE IInv'
    OBVIOUS
  <1>1. TypeOK'
    BY TypeStep DEF IInv
  <1>2. Unused' /\ HeldRows'
    BY UndeliveredStep, HeldStep
  <1>3. DoneRowsWereDelivered'
    BY DeliveredStep
  <1>4. SeenBefore'
    BY SeenStep
  <1>5. AppliedRowsWereDelivered'
    BY AppliedStep
  <1>6. DeliveriesAreRecorded' /\ InboxCheckedAgainstQueue'
    BY RecordedStep, InboxStep
  <1> QED  BY <1>1, <1>2, <1>3, <1>4, <1>5, <1>6 DEF IInv

LEMMA Invariance == Spec => []IInv
  BY InvInit, InvStep, PTL DEF Spec

-----------------------------------------------------------------------------
(* The theorems.                                                           *)

\* A row is marked applied only after Zotero was written on its behalf, for
\* every overlap of requests, partial failure and crash.
THEOREM Delivered == Spec => []AppliedRowsWereDelivered
  <1>1. IInv => AppliedRowsWereDelivered
    BY DEF IInv
  <1> QED  BY <1>1, Invariance, PTL

\* Without a crash or an error in between, what was written to Zotero is not
\* left in the queue to be applied again: the request that wrote the row holds
\* it until it has marked it, and no edit, rejection or second request takes
\* that mark away from a row that is still pending.
THEOREM DeliveriesStayRecorded == Spec => []DeliveriesAreRecorded
  <1>1. IInv => DeliveriesAreRecorded
    BY DEF IInv
  <1> QED  BY <1>1, Invariance, PTL

\* When a request is about to remove an item from the Inbox, only rows
\* queued after it looked can be open.
THEOREM InboxChecked == Spec => []InboxCheckedAgainstQueue
  <1>1. IInv => InboxCheckedAgainstQueue
    BY DEF IInv
  <1> QED  BY <1>1, Invariance, PTL

\* Closed rows never change and failed rows can only be applied.
THEOREM StatusesStick == Spec => FinalStatusesStick
  <1>1. ASSUME IInv, [Next]_vars, NEW c \in Ids
        PROVE  /\ rows[c].status \in Closed => rows'[c] = rows[c]
               /\ rows[c].status = "failed" => rows'[c].status \in {"failed", "applied"}
    <2>1. RowStep(c)
      BY <1>1, RowsStep DEF IInv
    <2> QED  BY <2>1 DEF RowStep, NoRow, Closed
  <1>2. IInv /\ [Next]_vars =>
          [\A c \in Ids :
            /\ rows[c].status \in Closed => rows'[c] = rows[c]
            /\ rows[c].status = "failed" => rows'[c].status \in {"failed", "applied"}]_vars
    BY <1>1
  <1> QED  BY <1>2, Invariance, PTL DEF Spec, FinalStatusesStick
=============================================================================
