-------------------------- MODULE OfflineSync_proofs --------------------------
(***************************************************************************)
(* Proofs about OfflineSync, for any devices, tabs, keys and bounds.       *)
(*                                                                         *)
(* The argument rests on two facts that hold of every step (Frozen): the   *)
(* body of an issued mutation and the receipt of a decided one never       *)
(* change.  IInv adds to the types that messages carry issued mutations of *)
(* their own device, that a push accounts for each mutation it was sent    *)
(* (TabOK), and that only conflicts are resolved (Bodies).                 *)
(***************************************************************************)
EXTENDS OfflineSync, FiniteSetTheorems, SequenceTheorems, TLAPS

\* What one step may do to bodies and receipts.
Frozen ==
    \A m \in Mutations :
        /\ Issued(m) => mut'[m] = mut[m]
        /\ Known(m) => receipts'[m] = receipts[m]

Bodies ==
    /\ \A m \in Mutations : Issued(m) <=> outbox[m] # "unused"
    /\ \A m \in Mutations : Known(m) => Issued(m)
    /\ \A m \in Mutations : outbox[m] = "conflict" => Conflict(m)
    /\ \A m \in Mutations, b \in BOOLEAN : <<m, b>> \in choices => Conflict(m)

\* The mutations of s are issued, by device d.
Own(d, s) == \A i \in DOMAIN s : Issued(s[i]) /\ mut[s[i]].dev = d

\* Each mutation of q is still to be served, was refused or is decided.
Accounted(q) ==
    \A m \in RangeOf(q.sent) : m \in RangeOf(q.left) \/ m \in q.rejected \/ Known(m)

TabOK(t) ==
    /\ Own(DeviceOf[t], tab[t].todo)
    /\ Own(DeviceOf[t], req[t].sent)
    /\ Own(DeviceOf[t], req[t].left)
    /\ Accounted(req[t])

OrphanOK(q) == \A i \in DOMAIN q.left : Issued(q.left[i])

IInv ==
    /\ TypeOK
    /\ Bodies
    /\ \A t \in Tabs : TabOK(t)
    /\ \A q \in orphans : OrphanOK(q)
    /\ AcksNameAppliedReceipts
    /\ NoEditForgotten

-----------------------------------------------------------------------------
(* Records.                                                                *)

\* Drawn and undrawn UUIDs, decided and undecided mutations are told apart.
LEMMA Shapes ==
    /\ \A x \in Mutation : x # NoMutation
    /\ \A x \in Receipt : x # Undecided /\ x.status \in {"applied", "conflict"}
    /\ Undecided.status = "none"
  BY SMT DEF Mutation, NoMutation, Receipt, Undecided

LEMMA BodyType ==
    ASSUME TypeOK, NEW m \in Mutations, Issued(m)
    PROVE  /\ mut[m] \in Mutation
           /\ mut[m].dev \in Devices /\ mut[m].key \in Keys /\ mut[m].val \in FieldValue
           /\ mut[m].base \in Nat /\ mut[m].seq \in Nat /\ mut[m].resolves \in Mutations \cup {None}
  <1>1. mut[m] \in Mutation
    BY DEF TypeOK, Issued
  <1> QED  BY <1>1 DEF Mutation

LEMMA ReceiptType ==
    ASSUME TypeOK, NEW m \in Mutations
    PROVE  /\ Known(m) <=> receipts[m] \in Receipt
           /\ Applied(m) => Known(m)
           /\ Conflict(m) => Known(m)
           /\ Known(m) => Applied(m) \/ Conflict(m)
           /\ Known(m) => receipts[m].rev \in Nat /\ receipts[m].canon \in FieldValue
           /\ ~(Applied(m) /\ Conflict(m))
  <1>1. receipts[m] \in Receipt \cup {Undecided}
    BY DEF TypeOK
  <1>2. Known(m) <=> receipts[m] \in Receipt
    BY <1>1, Shapes DEF Known
  <1>3. \A x \in Receipt : x.rev \in Nat /\ x.canon \in FieldValue
    BY DEF Receipt
  <1> QED  BY <1>1, <1>2, <1>3, Shapes DEF Known, Applied, Conflict

\* Rows of a request, and a request one of whose fields changed.
LEMMA RequestType ==
    /\ NoRequest \in Request
    /\ \A q \in Request : /\ q.left \in Seq(Mutations) /\ q.sent \in Seq(Mutations)
                          /\ q.rejected \in SUBSET Mutations /\ q.last \in [Keys -> Nat]
  <1>1. <<>> \in Seq(Mutations)
    BY EmptySeq
  <1> QED  BY <1>1 DEF Request, NoRequest

-----------------------------------------------------------------------------
(* The server's step.                                                      *)

\* Deciding an issued mutation leaves the server well typed; the mutation has
\* a receipt, and no other receipt changes.
LEMMA Deciding ==
    ASSUME TypeOK, NEW m \in Mutations, Issued(m), NEW last \in [Keys -> Nat],
           Decide(m, last)
    PROVE  /\ canon' \in [Keys -> [val: FieldValue, rev: Nat, by: Devices \cup {Server}]]
           /\ revision' \in Nat
           /\ \E r \in Receipt : receipts' = [receipts EXCEPT ![m] = r]
  <1>1. PICK k : k = mut[m].key
    OBVIOUS
  <1>2. PICK v : v = mut[m].val
    OBVIOUS
  <1>3. PICK d : d = mut[m].dev
    OBVIOUS
  <1>4. k \in Keys /\ v \in FieldValue /\ d \in Devices
    BY <1>1, <1>2, <1>3, BodyType
  <1>5. canon[k] \in [val: FieldValue, rev: Nat, by: Devices \cup {Server}] /\ revision \in Nat
    BY <1>4 DEF TypeOK
  <1>6. Written(k, v, d) \in [val: FieldValue, rev: Nat, by: Devices \cup {Server}]
    BY <1>4, <1>5 DEF Written
  <1>7. CASE Overtaken(m, last)
    <2>1. receipts' = [receipts EXCEPT ![m] =
                   [status |-> "conflict", rev |-> canon[k].rev, canon |-> canon[k].val]]
          /\ canon' = canon /\ revision' = revision
      BY <1>7, <1>1 DEF Decide
    <2>2. [status |-> "conflict", rev |-> canon[k].rev, canon |-> canon[k].val] \in Receipt
      BY <1>5 DEF Receipt
    <2> QED  BY <2>1, <2>2 DEF TypeOK
  <1>8. CASE ~Overtaken(m, last)
    <2>1. /\ canon' = [canon EXCEPT ![k] = Written(k, v, d)]
          /\ revision' = IF canon[k].val = v THEN revision ELSE revision + 1
          /\ receipts' = [receipts EXCEPT ![m] =
                   [status |-> "applied", rev |-> canon'[k].rev, canon |-> v]]
      BY <1>8, <1>1, <1>2, <1>3 DEF Decide, WriteValue
    <2>2. canon' \in [Keys -> [val: FieldValue, rev: Nat, by: Devices \cup {Server}]]
      BY <2>1, <1>6 DEF TypeOK
    <2>3. canon'[k].rev \in Nat
      BY <2>2, <1>4
    <2>4. [status |-> "applied", rev |-> canon'[k].rev, canon |-> v] \in Receipt
      BY <2>3, <1>4 DEF Receipt
    <2>5. revision' \in Nat
      BY <2>1, <1>5
    <2> QED  BY <2>1, <2>2, <2>4, <2>5
  <1> QED  BY <1>7, <1>8

\* One iteration of the loop in service.push.
LEMMA Serving ==
    ASSUME TypeOK, NEW q \in Request, NEW refuse \in BOOLEAN,
           \A i \in DOMAIN q.left : Issued(q.left[i]),
           ServeMutation(q, refuse), mut' = mut
    PROVE  /\ q.left # <<>> /\ Head(q.left) \in Mutations /\ Issued(Head(q.left))
           /\ canon' \in [Keys -> [val: FieldValue, rev: Nat, by: Devices \cup {Server}]]
           /\ revision' \in Nat
           /\ receipts' \in [Mutations -> Receipt \cup {Undecided}]
           /\ Frozen
           /\ \A m \in Mutations : m # Head(q.left) => receipts'[m] = receipts[m]
           /\ ~refuse => receipts'[Head(q.left)] \in Receipt
           /\ refuse => UNCHANGED server
  <1>1. q.left # <<>>
    BY DEF ServeMutation
  <1>2. PICK m : m = Head(q.left)
    OBVIOUS
  <1>3. m \in Mutations /\ m = q.left[1] /\ 1 \in DOMAIN q.left
    BY <1>1, <1>2, RequestType, HeadTailProperties, LenProperties, EmptySeq
  <1>4. Issued(m)
    BY <1>3
  <1>5. CASE (refuse \/ Known(m)) /\ UNCHANGED server
    <2>2. canon' = canon /\ revision' = revision /\ receipts' = receipts
      BY <1>5 DEF server
    <2>3. refuse \/ receipts'[m] \in Receipt
      BY <1>3, <1>5, <2>2, ReceiptType
    <2> QED  BY <1>1, <1>2, <1>3, <1>4, <1>5, <2>2, <2>3 DEF TypeOK, Frozen
  <1>6. CASE ~refuse /\ ~Known(m) /\ Decide(m, q.last)
    <2>1. q.last \in [Keys -> Nat]
      BY RequestType
    <2>2. PICK r \in Receipt : receipts' = [receipts EXCEPT ![m] = r]
      BY <1>3, <1>4, <1>6, <2>1, Deciding
    <2>3. receipts' \in [Mutations -> Receipt \cup {Undecided}] /\ receipts'[m] = r
          /\ \A n \in Mutations : n # m => receipts'[n] = receipts[n]
      BY <1>3, <2>2 DEF TypeOK
    <2>4. Frozen
      BY <1>6, <2>3 DEF Frozen
    <2> QED  BY <1>1, <1>2, <1>3, <1>4, <1>6, <2>1, <2>3, <2>4, Deciding
  <1> QED  BY <1>2, <1>5, <1>6, Zenon DEF ServeMutation

\* The request afterwards.
LEMMA ServedRequest ==
    ASSUME NEW q \in Request, NEW refuse \in BOOLEAN, q.left # <<>>,
           mut' = mut, receipts' \in [Mutations -> Receipt \cup {Undecided}]
    PROVE  /\ Served(q, refuse) \in Request
           /\ Served(q, refuse).left = Tail(q.left)
           /\ Served(q, refuse).sent = q.sent
           /\ Served(q, refuse).rejected = q.rejected \cup (IF refuse THEN {Head(q.left)} ELSE {})
  <1>1. PICK m : m = Head(q.left)
    OBVIOUS
  <1>2. PICK rest : rest = Tail(q.left)
    OBVIOUS
  <1>3. m \in Mutations /\ rest \in Seq(Mutations)
    BY <1>1, <1>2, RequestType, HeadTailProperties
  <1>4. receipts'[m].status = "applied" => receipts'[m].rev \in Nat
    <2>1. receipts'[m] \in Receipt \cup {Undecided}
      BY <1>3
    <2>2. \A x \in Receipt : x.rev \in Nat
      BY DEF Receipt
    <2> QED  BY <2>1, <2>2, Shapes
  <1>5. PICK l : l = IF receipts'[m].status = "applied"
                     THEN [q.last EXCEPT ![mut[m].key] = receipts'[m].rev] ELSE q.last
    OBVIOUS
  <1>6. l \in [Keys -> Nat]
    BY <1>4, <1>5, RequestType
  <1>7. PICK rj : rj = IF refuse THEN q.rejected \cup {m} ELSE q.rejected
    OBVIOUS
  <1>8. rj \in SUBSET Mutations
    BY <1>3, <1>7, RequestType
  <1>9. Served(q, refuse) = [q EXCEPT !.left = rest, !.rejected = rj, !.last = l]
    BY <1>1, <1>2, <1>5, <1>7, Zenon DEF Served, Request
  <1> QED  BY <1>1, <1>2, <1>3, <1>6, <1>7, <1>8, <1>9 DEF Request

-----------------------------------------------------------------------------
(* What a step that freezes bodies and receipts keeps.                     *)

LEMMA Steady ==
    ASSUME TypeOK, TypeOK', Frozen, NEW m \in Mutations
    PROVE  /\ Issued(m) => Issued(m)' /\ mut'[m] = mut[m]
           /\ Known(m) => Known(m)' /\ receipts'[m] = receipts[m]
           /\ Applied(m) => Applied(m)'
           /\ Conflict(m) => Conflict(m)'
  <1>1. Issued(m) => Issued(m)' /\ mut'[m] = mut[m]
    BY DEF Frozen, Issued
  <1>2. Known(m) => Known(m)' /\ receipts'[m] = receipts[m]
    BY DEF Frozen, Known
  <1>3. Applied(m) \/ Conflict(m) => Known(m)
    BY ReceiptType
  <1>4. receipts'[m] = receipts[m] => (Applied(m) => Applied(m)') /\ (Conflict(m) => Conflict(m)')
    BY DEF Applied, Conflict
  <1> QED  BY <1>1, <1>2, <1>3, <1>4, Zenon

LEMMA OwnKept ==
    ASSUME TypeOK, TypeOK', Frozen, NEW d, NEW s \in Seq(Mutations), Own(d, s)
    PROVE  Own(d, s)'
  <1>1. \A i \in DOMAIN s : s[i] \in Mutations
    BY LenProperties, ElementOfSeq
  <1> QED  BY <1>1, Steady DEF Own

LEMMA TabKept ==
    ASSUME TypeOK, TypeOK', Frozen, NEW t \in Tabs, TabOK(t),
           tab'[t].todo = tab[t].todo, req'[t] = req[t]
    PROVE  TabOK(t)'
  <1>1. /\ tab[t].todo \in Seq(Mutations) /\ req[t] \in Request
        /\ req[t].sent \in Seq(Mutations) /\ req[t].left \in Seq(Mutations)
    BY RequestType DEF TypeOK
  <1>2. /\ Own(DeviceOf[t], tab[t].todo)'
        /\ Own(DeviceOf[t], req[t].sent)'
        /\ Own(DeviceOf[t], req[t].left)'
    <2>1. PICK todo : todo = tab[t].todo
      OBVIOUS
    <2>2. PICK sent : sent = req[t].sent
      OBVIOUS
    <2>3. PICK left : left = req[t].left
      OBVIOUS
    <2>4. Own(DeviceOf[t], todo)' /\ Own(DeviceOf[t], sent)' /\ Own(DeviceOf[t], left)'
      BY <1>1, <2>1, <2>2, <2>3, OwnKept DEF TabOK
    <2>5. tab'[t].todo = todo /\ req'[t].sent = sent /\ req'[t].left = left
      BY <2>1, <2>2, <2>3
    <2> QED  BY <2>4, <2>5 DEF Own
  <1>3. RangeOf(req[t].sent) \subseteq Mutations
    BY <1>1, LenProperties, ElementOfSeq DEF RangeOf
  <1>4. Accounted(req[t])'
    BY <1>3, Steady DEF TabOK, Accounted, RangeOf
  <1> QED  BY <1>2, <1>4 DEF TabOK

LEMMA OrphanKept ==
    ASSUME TypeOK, TypeOK', Frozen, NEW q \in Request, OrphanOK(q)
    PROVE  OrphanOK(q)'
  <1>1. \A i \in DOMAIN q.left : q.left[i] \in Mutations
    BY RequestType, LenProperties, ElementOfSeq
  <1> QED  BY <1>1, Steady DEF OrphanOK

LEMMA AcksKept ==
    ASSUME TypeOK, TypeOK', Bodies, Frozen, AcksNameAppliedReceipts, ack' = ack
    PROVE  AcksNameAppliedReceipts'
  <1> SUFFICES ASSUME NEW d \in Devices, NEW k \in Keys, ack[d][k].id # None
               PROVE  LET m == ack[d][k].id
                      IN  /\ Applied(m)' /\ mut'[m].dev = d /\ mut'[m].key = k
                          /\ receipts'[m].rev = ack[d][k].rev
    BY DEF AcksNameAppliedReceipts, Applied
  <1>1. PICK m : m = ack[d][k].id
    OBVIOUS
  <1>2. m \in Mutations
    BY <1>1 DEF TypeOK
  <1>3. Applied(m) /\ mut[m].dev = d /\ mut[m].key = k /\ receipts[m].rev = ack[d][k].rev
    BY <1>1 DEF AcksNameAppliedReceipts
  <1> QED  BY <1>1, <1>2, <1>3, Steady, ReceiptType DEF Bodies

LEMMA EditsKept ==
    ASSUME TypeOK, TypeOK', Frozen, NoEditForgotten,
           \A m \in Mutations : outbox'[m] = "retired" => outbox[m] = "retired" \/ Applied(m)
    PROVE  NoEditForgotten'
  <1> SUFFICES ASSUME NEW m \in Mutations, outbox'[m] = "retired"
               PROVE  Applied(m)' \/ \E r \in Mutations : mut'[r] # NoMutation /\ mut'[r].resolves = m
    BY DEF NoEditForgotten, Applied
  <1>1. CASE Applied(m)
    BY <1>1, Steady
  <1>2. CASE outbox[m] = "retired" /\ ~Applied(m)
    <2>1. PICK r \in Mutations : mut[r] # NoMutation /\ mut[r].resolves = m
      BY <1>2 DEF NoEditForgotten
    <2> QED  BY <2>1, Steady DEF Issued
  <1> QED  BY <1>1, <1>2

\* A step that leaves bodies, receipts and outbox alone.
LEMMA BodiesKept ==
    ASSUME TypeOK, TypeOK', Frozen, Bodies, mut' = mut, outbox' = outbox,
           \A m \in Mutations : receipts'[m] = receipts[m] \/ Issued(m),
           \A m \in Mutations, b \in BOOLEAN :
               <<m, b>> \in choices' => <<m, b>> \in choices \/ Conflict(m)
    PROVE  Bodies'
  <1>1. \A m \in Mutations : Issued(m)' = Issued(m)
    BY DEF Issued
  <1>2. \A m \in Mutations : Known(m)' => Known(m) \/ Issued(m)
    BY DEF Known
  <1> QED  BY <1>1, <1>2, Steady DEF Bodies

LEMMA TabsKept ==
    ASSUME IInv, TypeOK', Frozen, tab' = tab, req' = req
    PROVE  \A t \in Tabs : TabOK(t)'
  BY TabKept DEF IInv

LEMMA OrphansKept ==
    ASSUME IInv, TypeOK', Frozen, orphans' = orphans
    PROVE  \A q \in orphans' : OrphanOK(q)'
  <1>1. orphans \subseteq Request
    BY DEF IInv, TypeOK
  <1> QED  BY <1>1, OrphanKept DEF IInv

-----------------------------------------------------------------------------
(* The user's steps.                                                       *)

LEMMA QueueStep ==
    ASSUME IInv, NEW d \in Devices, NEW k \in Keys, NEW v \in FieldValue,
           QueueMutation(d, k, v)
    PROVE  IInv' /\ Frozen
  <1> USE DEF IInv
  <1>1. PICK row : row = [dev |-> d, key |-> k, val |-> v, base |-> BaseRevision(d, k),
                          seq |-> seq[d] + 1, resolves |-> None]
    OBVIOUS
  <1>2. PICK m \in Mutations :
          /\ ~Issued(m)
          /\ mut' = [mut EXCEPT ![m] = row]
          /\ outbox' = [outbox EXCEPT ![m] = "pending"]
    BY <1>1, Zenon DEF QueueMutation
  <1>3. /\ seq' = [seq EXCEPT ![d] = @ + 1]
        /\ paper' = [paper EXCEPT ![d][k].val = v]
        /\ UNCHANGED <<ack, choices, tab, req, orphans, canon, revision, receipts, shown, online, faults>>
    BY Zenon DEF QueueMutation, server
  <1>4. row \in Mutation
    BY <1>1 DEF Mutation, BaseRevision, TypeOK, Snapshot
  <1>5. TypeOK'
    <2>1. mut' \in [Mutations -> Mutation \cup {NoMutation}]
      BY <1>2, <1>4 DEF TypeOK
    <2>2. paper' \in [Devices -> Snapshot]
      <3>1. PICK shows : shows = paper[d]
        OBVIOUS
      <3>2. PICK cell : cell = [shows[k] EXCEPT !.val = v]
        OBVIOUS
      <3>3. shows \in [Keys -> [val: FieldValue, rev: Nat]]
        BY <3>1 DEF TypeOK, Snapshot
      <3>4. cell \in [val: FieldValue, rev: Nat]
        BY <3>2, <3>3
      <3>5. [shows EXCEPT ![k] = cell] \in Snapshot
        BY <3>3, <3>4 DEF Snapshot
      <3>6. paper' = [paper EXCEPT ![d] = [shows EXCEPT ![k] = cell]]
        BY <1>3, <3>1, <3>2, Zenon
      <3> QED  BY <3>5, <3>6 DEF TypeOK
    <2>3. outbox' \in [Mutations -> {"unused", "pending", "conflict", "rejected", "retired"}]
          /\ seq' \in [Devices -> Nat]
      BY <1>2, <1>3 DEF TypeOK
    <2> QED  BY <1>3, <2>1, <2>2, <2>3 DEF TypeOK
  <1>6. Frozen
    BY <1>2, <1>3 DEF TypeOK, Frozen
  <1>7. mut'[m] = row /\ outbox'[m] = "pending"
        /\ \A n \in Mutations : n # m => mut'[n] = mut[n] /\ outbox'[n] = outbox[n]
    BY <1>2 DEF TypeOK
  <1>8. Bodies'
    <2>1. Issued(m)' /\ \A n \in Mutations : n # m => Issued(n)' = Issued(n)
      BY <1>4, <1>7, Shapes DEF Issued
    <2>2. \A n \in Mutations : Known(n)' = Known(n) /\ Conflict(n)' = Conflict(n)
      BY <1>3 DEF Known, Conflict
    <2>3. \A n \in Mutations : Issued(n)' <=> outbox'[n] # "unused"
      BY <1>7, <2>1 DEF Bodies
    <2>4. \A n \in Mutations : Known(n)' => Issued(n)'
      BY <2>1, <2>2 DEF Bodies
    <2>5. \A n \in Mutations : outbox'[n] = "conflict" => Conflict(n)'
      BY <1>7, <2>2 DEF Bodies
    <2> QED  BY <1>3, <2>2, <2>3, <2>4, <2>5 DEF Bodies
  <1>9. (\A t \in Tabs : TabOK(t)') /\ (\A q \in orphans' : OrphanOK(q)')
    BY <1>3, <1>5, <1>6, TabsKept, OrphansKept
  <1>10. AcksNameAppliedReceipts'
    BY <1>3, <1>5, <1>6, AcksKept
  <1>11. NoEditForgotten'
    BY <1>5, <1>6, <1>7, EditsKept
  <1> QED  BY <1>5, <1>6, <1>8, <1>9, <1>10, <1>11

LEMMA ChooseStep ==
    ASSUME IInv, NEW m \in Mutations, NEW keepLocal \in BOOLEAN, ChooseResolution(m, keepLocal)
    PROVE  IInv' /\ Frozen
  <1> USE DEF IInv
  <1>1. /\ outbox[m] = "conflict"
        /\ choices' = choices \cup {<<m, keepLocal>>}
        /\ UNCHANGED <<mut, outbox, paper, ack, seq, tab, req, orphans, canon, revision,
                       receipts, shown, online, faults>>
    BY Zenon DEF ChooseResolution, server
  <1>2. TypeOK'
    <2>1. choices' \in SUBSET (Mutations \X BOOLEAN)
      BY <1>1 DEF TypeOK
    <2> QED  BY <1>1, <2>1 DEF TypeOK
  <1>3. Frozen
    BY <1>1 DEF Frozen
  <1>4. Bodies'
    <2>1. Conflict(m)
      BY <1>1 DEF Bodies
    <2>2. \A n \in Mutations, b \in BOOLEAN :
             <<n, b>> \in choices' => <<n, b>> \in choices \/ Conflict(n)
      BY <1>1, <2>1
    <2> QED  BY <1>1, <1>2, <1>3, <2>2, BodiesKept
  <1>5. (\A t \in Tabs : TabOK(t)') /\ (\A q \in orphans' : OrphanOK(q)')
    BY <1>1, <1>2, <1>3, TabsKept, OrphansKept
  <1>6. AcksNameAppliedReceipts'
    BY <1>1, <1>2, <1>3, AcksKept
  <1>7. NoEditForgotten'
    BY <1>1, <1>2, <1>3, EditsKept
  <1> QED  BY <1>2, <1>3, <1>4, <1>5, <1>6, <1>7

LEMMA ResolveStep ==
    ASSUME IInv, NEW m \in Mutations, NEW keepLocal \in BOOLEAN, WriteResolution(m, keepLocal)
    PROVE  IInv' /\ Frozen
  <1> USE DEF IInv
  <1>1. PICK row : row = [mut[m] EXCEPT !.val = IF keepLocal THEN @ ELSE receipts[m].canon,
                                        !.base = receipts[m].rev,
                                        !.resolves = m]
    OBVIOUS
  <1>2. PICK r \in Mutations :
          /\ ~Issued(r)
          /\ mut' = [mut EXCEPT ![r] = row]
          /\ outbox' = [outbox EXCEPT ![m] = "retired", ![r] = "pending"]
    BY <1>1, Zenon DEF WriteResolution
  <1>3. /\ <<m, keepLocal>> \in choices
        /\ choices' = choices \ {<<m, keepLocal>>}
        /\ UNCHANGED <<paper, ack, seq, tab, req, orphans, canon, revision, receipts, shown, online, faults>>
    BY Zenon DEF WriteResolution, server
  <1>4. Conflict(m) /\ Known(m) /\ Issued(m)
    BY <1>3, ReceiptType DEF Bodies
  <1>5. row \in Mutation /\ row.resolves = m
    <2>1. receipts[m].rev \in Nat /\ receipts[m].canon \in FieldValue
      BY <1>4, ReceiptType
    <2>2. mut[m] \in Mutation
      BY <1>4, BodyType
    <2> QED  BY <1>1, <2>1, <2>2 DEF Mutation
  <1>6. TypeOK'
    <2>1. mut' \in [Mutations -> Mutation \cup {NoMutation}]
      BY <1>2, <1>5 DEF TypeOK
    <2>2. outbox' \in [Mutations -> {"unused", "pending", "conflict", "rejected", "retired"}]
      BY <1>2 DEF TypeOK
    <2> QED  BY <1>3, <2>1, <2>2 DEF TypeOK
  <1>7. Frozen
    BY <1>2, <1>3 DEF TypeOK, Frozen
  <1>8. /\ r # m
        /\ mut'[r] = row /\ outbox'[r] = "pending" /\ outbox'[m] = "retired"
        /\ \A n \in Mutations : n # r => mut'[n] = mut[n]
        /\ \A n \in Mutations : n # r /\ n # m => outbox'[n] = outbox[n]
    BY <1>2, <1>4 DEF TypeOK
  <1>9. Bodies'
    <2>1. Issued(r)' /\ \A n \in Mutations : n # r => Issued(n)' = Issued(n)
      BY <1>5, <1>8, Shapes DEF Issued
    <2>2. \A n \in Mutations : Known(n)' = Known(n) /\ Conflict(n)' = Conflict(n)
      BY <1>3 DEF Known, Conflict
    <2>3. \A n \in Mutations : Issued(n)' <=> outbox'[n] # "unused"
      BY <1>4, <1>8, <2>1 DEF Bodies
    <2>4. \A n \in Mutations : Known(n)' => Issued(n)'
      BY <2>1, <2>2 DEF Bodies
    <2>5. \A n \in Mutations : outbox'[n] = "conflict" => Conflict(n)'
      BY <1>8, <2>2 DEF Bodies
    <2> QED  BY <1>3, <2>2, <2>3, <2>4, <2>5 DEF Bodies
  <1>10. (\A t \in Tabs : TabOK(t)') /\ (\A q \in orphans' : OrphanOK(q)')
    BY <1>3, <1>6, <1>7, TabsKept, OrphansKept
  <1>11. AcksNameAppliedReceipts'
    BY <1>3, <1>6, <1>7, AcksKept
  <1>12. NoEditForgotten'
    <2> SUFFICES ASSUME NEW n \in Mutations, outbox'[n] = "retired"
                 PROVE  Applied(n)' \/ \E x \in Mutations : mut'[x] # NoMutation /\ mut'[x].resolves = n
      BY DEF NoEditForgotten, Applied
    <2>1. CASE n = m
      BY <2>1, <1>5, <1>8, Shapes
    <2>2. CASE n # m
      <3>1. outbox[n] = "retired"
        BY <1>8, <2>2
      <3>2. Applied(n) \/ \E x \in Mutations : mut[x] # NoMutation /\ mut[x].resolves = n
        BY <3>1 DEF NoEditForgotten
      <3> QED  BY <3>2, <1>6, <1>7, Steady DEF Issued
    <2> QED  BY <2>1, <2>2
  <1> QED  BY <1>6, <1>7, <1>9, <1>10, <1>11, <1>12

-----------------------------------------------------------------------------
(* What a tab reads: the pending mutations, batches and receipts.          *)

\* pendingMutations lists the set it is given, ordered by sequence number.
LEMMA Listed ==
    ASSUME NEW S \in SUBSET Mutations, NEW s \in InSequence(S)
    PROVE  /\ s \in Seq(Mutations)
           /\ \A i \in DOMAIN s : s[i] \in S
           /\ \A m \in S : \E i \in DOMAIN s : s[i] = m
           /\ \A i, j \in DOMAIN s : i < j => s[i] # s[j] /\ mut[s[i]].seq <= mut[s[j]].seq
  <1>1. IsFiniteSet(S) /\ Cardinality(S) \in Nat
    BY OutboxFinite, FS_Subset, FS_CardinalityType
  <1>2. PICK n : n = Cardinality(S)
    OBVIOUS
  <1>3. /\ s \in [1..n -> S]
        /\ \A i, j \in 1..n : i < j => s[i] # s[j] /\ mut[s[i]].seq <= mut[s[j]].seq
    BY <1>2, Zenon DEF InSequence
  <1>4. s \in Seq(S)
    BY <1>1, <1>2, <1>3, SeqDef
  <1>5. s \in Seq(Mutations)
    BY <1>4, SeqMonotonic
  <1>6. s \in Injection(1..n, S)
    <2> SUFFICES ASSUME NEW i \in 1..n, NEW j \in 1..n, s[i] = s[j]
                 PROVE  i = j
      BY <1>3 DEF Injection, IsInjective
    <2> QED  BY <1>1, <1>2, <1>3
  <1>7. Cardinality(1..n) = Cardinality(S) /\ IsFiniteSet(1..n)
    BY <1>1, <1>2, FS_Interval
  <1>8. s \in Surjection(1..n, S)
    BY <1>1, <1>6, <1>7, FS_Injection
  <1>9. \A m \in S : \E i \in 1..n : s[i] = m
    BY <1>8 DEF Surjection
  <1>10. DOMAIN s = 1..n
    BY <1>3
  <1> QED  BY <1>3, <1>5, <1>9, <1>10

\* A batch is the front of the list, the rest follows it.
LEMMA Batches ==
    ASSUME NEW S, NEW s \in Seq(S)
    PROVE  /\ Batch(s) \in Seq(S) /\ Rest(s) \in Seq(S)
           /\ \A i \in DOMAIN Batch(s) : i \in DOMAIN s /\ Batch(s)[i] = s[i]
           /\ \A i \in DOMAIN Rest(s) : i + BatchSize \in DOMAIN s /\ Rest(s)[i] = s[i + BatchSize]
           /\ \A i \in DOMAIN s : i \in DOMAIN Batch(s)
                                  \/ (i - BatchSize \in DOMAIN Rest(s) /\ i > BatchSize)
           /\ \A i \in DOMAIN Batch(s) : i \in Nat \ {0} /\ i <= BatchSize
           /\ s # <<>> => Batch(s) # <<>>
  <1>1. BatchSize \in Nat /\ BatchSize >= 1
    BY BatchSizeType
  <1>2. Len(s) \in Nat /\ DOMAIN s = 1..Len(s) /\ \A i \in 1..Len(s) : s[i] \in S
    BY LenProperties, ElementOfSeq
  <1>3. PICK n : n = IF Len(s) < BatchSize THEN Len(s) ELSE BatchSize
    OBVIOUS
  <1>4. n \in Nat /\ n <= Len(s) /\ n <= BatchSize
    BY <1>1, <1>2, <1>3
  <1>5. /\ SubSeq(s, 1, n) \in Seq(S)
        /\ Len(SubSeq(s, 1, n)) = n
        /\ \A i \in 1..n : SubSeq(s, 1, n)[i] = s[i]
    <2>1. \A i \in 1..n : s[i] \in S
      BY <1>2, <1>4
    <2> QED  BY <1>4, <2>1, SubSeqProperties
  <1>6. Batch(s) = SubSeq(s, 1, n)
    BY <1>3 DEF Batch
  <1>7. DOMAIN Batch(s) = 1..n
    BY <1>5, <1>6, LenProperties
  <1>8. /\ Rest(s) \in Seq(S)
        /\ Len(Rest(s)) = IF BatchSize + 1 <= Len(s) THEN Len(s) - (BatchSize + 1) + 1 ELSE 0
        /\ \A i \in 1..(Len(s) - (BatchSize + 1) + 1) : Rest(s)[i] = s[BatchSize + 1 + i - 1]
    <2>1. \A i \in (BatchSize + 1)..Len(s) : s[i] \in S
      BY <1>1, <1>2
    <2>2. BatchSize + 1 \in Int /\ Len(s) \in Int
      BY <1>1, <1>2
    <2> QED  BY <2>1, <2>2, SubSeqProperties DEF Rest
  <1>9. DOMAIN Rest(s) = 1..Len(Rest(s))
    BY <1>8, LenProperties
  <1>a. PICK l : l = Len(s)
    OBVIOUS
  <1>b. PICK k : k = IF BatchSize + 1 <= l THEN l - BatchSize ELSE 0
    OBVIOUS
  <1>c. PICK r : r = Rest(s)
    OBVIOUS
  <1>d. /\ l \in Nat /\ k \in Nat
        /\ DOMAIN s = 1..l /\ DOMAIN r = 1..k
        /\ \A i \in 1..k : r[i] = s[BatchSize + 1 + i - 1]
    <2>0. l \in Nat /\ DOMAIN s = 1..l
      BY <1>2, <1>a, Zenon
    <2>1. k \in Nat
      BY <1>1, <1>b, <2>0
    <2>2. Len(r) = k
      <3>1. Len(r) = IF BatchSize + 1 <= l THEN l - (BatchSize + 1) + 1 ELSE 0
        BY <1>8, <1>a, <1>c, Zenon
      <3> QED  BY <1>1, <1>b, <2>0, <3>1
    <2>3. \A i \in 1..k : i \in 1..(l - (BatchSize + 1) + 1)
      BY <1>1, <1>b, <2>0
    <2> QED  BY <1>8, <1>9, <1>a, <1>c, <2>0, <2>1, <2>2, <2>3, Zenon
  <1>10. \A i \in DOMAIN Batch(s) : i \in DOMAIN s /\ Batch(s)[i] = s[i]
    <2>1. \A i \in 1..n : i \in 1..l /\ SubSeq(s, 1, n)[i] = s[i]
      BY <1>4, <1>5, <1>a, <1>d
    <2> QED  BY <1>6, <1>7, <1>d, <2>1, Zenon
  <1>11. \A i \in DOMAIN Rest(s) : i + BatchSize \in DOMAIN s /\ Rest(s)[i] = s[i + BatchSize]
    <2>1. \A i \in 1..k : i + BatchSize \in 1..l /\ BatchSize + 1 + i - 1 = i + BatchSize
      BY <1>1, <1>b, <1>d
    <2>2. \A i \in 1..k : r[i] = s[i + BatchSize]
      BY <1>d, <2>1
    <2> QED  BY <1>c, <1>d, <2>1, <2>2, Zenon
  <1>12. \A i \in DOMAIN s : i \in DOMAIN Batch(s)
                              \/ (i - BatchSize \in DOMAIN Rest(s) /\ i > BatchSize)
    <2>0. l \in Nat /\ n = IF l < BatchSize THEN l ELSE BatchSize
      BY <1>3, <1>a, <1>d, Zenon
    <2>1. \A i \in 1..l : i \in 1..n \/ (i - BatchSize \in 1..k /\ i > BatchSize)
      BY <1>1, <1>b, <2>0
    <2> QED  BY <1>7, <1>c, <1>d, <2>1, Zenon
  <1>13. s # <<>> => Batch(s) # <<>>
    <2>1. s # <<>> => Len(s) > 0
      BY <1>2, EmptySeq
    <2>2. s # <<>> => Len(Batch(s)) > 0
      BY <1>1, <1>2, <1>3, <1>5, <1>6, <2>1
    <2> QED  BY <2>2, EmptySeq
  <1>14. Batch(s) \in Seq(S) /\ \A i \in DOMAIN Batch(s) : i \in Nat \ {0} /\ i <= BatchSize
    <2>1. \A i \in 1..n : i \in Nat \ {0} /\ i <= BatchSize
      BY <1>1, <1>4
    <2> QED  BY <1>5, <1>6, <1>7, <2>1, Zenon
  <1> QED  BY <1>8, <1>10, <1>11, <1>12, <1>13, <1>14

\* sync_applied_revisions: the revision of an applied predecessor, or none.
LEMMA LastAppliedIs ==
    ASSUME TypeOK, NEW d \in Devices, NEW P \in SUBSET Mutations, PredecessorsAccepted(P)
    PROVE  /\ LastApplied(d, P) \in [Keys -> Nat]
           /\ \A k \in Keys :
                 \/ LastApplied(d, P)[k] = 0
                 \/ \E p \in P : /\ Applied(p) /\ mut[p].dev = d /\ mut[p].key = k
                                  /\ LastApplied(d, P)[k] = receipts[p].rev
  <1>1. \A k \in Keys :
          \/ LastApplied(d, P)[k] = 0
          \/ \E p \in P : /\ Applied(p) /\ mut[p].dev = d /\ mut[p].key = k
                           /\ LastApplied(d, P)[k] = receipts[p].rev
    <2> SUFFICES ASSUME NEW k \in Keys
                 PROVE  \/ LastApplied(d, P)[k] = 0
                        \/ \E p \in P : /\ Applied(p) /\ mut[p].dev = d /\ mut[p].key = k
                                         /\ LastApplied(d, P)[k] = receipts[p].rev
      OBVIOUS
    <2>1. PICK newest : newest = {p \in {q \in P : mut[q].dev = d /\ mut[q].key = k} :
              \A q \in {x \in P : mut[x].dev = d /\ mut[x].key = k} : receipts[q].rev <= receipts[p].rev}
      OBVIOUS
    <2>2. LastApplied(d, P)[k] = IF newest = {} THEN 0 ELSE receipts[CHOOSE p \in newest : TRUE].rev
      BY <2>1 DEF LastApplied
    <2>3. CASE newest = {}
      BY <2>2, <2>3
    <2>4. CASE newest # {}
      <3>1. PICK p : p = CHOOSE x \in newest : TRUE
        OBVIOUS
      <3>2. p \in newest
        BY <2>4, <3>1
      <3>3. p \in P /\ mut[p].dev = d /\ mut[p].key = k
        BY <2>1, <3>2
      <3> QED  BY <2>2, <2>4, <3>1, <3>3 DEF PredecessorsAccepted
    <2> QED  BY <2>3, <2>4
  <1>2. \A k \in Keys : LastApplied(d, P)[k] \in Nat
    BY <1>1, ReceiptType
  <1>3. DOMAIN LastApplied(d, P) = Keys /\ LastApplied(d, P) = [k \in Keys |-> LastApplied(d, P)[k]]
    BY DEF LastApplied
  <1> QED  BY <1>1, <1>2, <1>3

\* The receipt a device holds after a push: the one it held, or that of an
\* acknowledged mutation of the key.
LEMMA AckAfterIs ==
    ASSUME NEW d, NEW k, NEW sent, NEW done
    PROVE  \/ AckAfter(d, k, sent, done) = ack[d][k]
           \/ \E i \in DOMAIN sent :
                 /\ sent[i] \in done /\ mut[sent[i]].key = k
                 /\ AckAfter(d, k, sent, done) = [id |-> sent[i], rev |-> receipts[sent[i]].rev]
  <1>1. PICK on : on = {i \in DOMAIN sent : /\ sent[i] \in done /\ mut[sent[i]].key = k
                                            /\ ack[d][k].rev <= receipts[sent[i]].rev}
    OBVIOUS
  <1>2. PICK end : end = {i \in on : \A j \in on : j <= i}
    OBVIOUS
  <1>3. AckAfter(d, k, sent, done) =
          IF end = {} THEN ack[d][k]
          ELSE [id |-> sent[CHOOSE i \in end : TRUE], rev |-> receipts[sent[CHOOSE i \in end : TRUE]].rev]
    BY <1>1, <1>2 DEF AckAfter
  <1>4. CASE end # {}
    <2>1. PICK i : i = CHOOSE x \in end : TRUE
      OBVIOUS
    <2>2. i \in end
      BY <1>4, <2>1
    <2>3. i \in DOMAIN sent /\ sent[i] \in done /\ mut[sent[i]].key = k
      BY <1>1, <1>2, <2>2
    <2> QED  BY <1>3, <1>4, <2>1, <2>3
  <1> QED  BY <1>3, <1>4

-----------------------------------------------------------------------------
(* The steps of a tab.                                                     *)

\* A step that leaves bodies, receipts, outbox, choices and acks alone.
LEMMA DeviceKept ==
    ASSUME IInv, TypeOK', UNCHANGED <<mut, receipts, outbox, choices, ack>>
    PROVE  Frozen /\ Bodies' /\ AcksNameAppliedReceipts' /\ NoEditForgotten'
  <1> USE DEF IInv
  <1>1. Frozen
    BY DEF Frozen
  <1>2. Bodies'
    BY <1>1, BodiesKept
  <1> QED  BY <1>1, <1>2, AcksKept, EditsKept

LEMMA TabType ==
    ASSUME TypeOK, NEW t \in Tabs
    PROVE  /\ tab[t] \in [pc: {"idle", "push", "wait", "pulled"}, todo: Seq(Mutations), snap: Snapshot]
           /\ tab[t].todo \in Seq(Mutations)
           /\ req[t] \in Request
           /\ DeviceOf[t] \in Devices
  BY DeviceOfType DEF TypeOK

TabRecord == [pc: {"idle", "push", "wait", "pulled"}, todo: Seq(Mutations), snap: Snapshot]

\* One tab changes.
LEMMA TabChanged ==
    ASSUME TypeOK, NEW t \in Tabs, NEW w \in TabRecord, tab' = [tab EXCEPT ![t] = w]
    PROVE  tab' \in [Tabs -> TabRecord] /\ tab'[t] = w /\ \A u \in Tabs : u # t => tab'[u] = tab[u]
  <1>1. tab \in [Tabs -> TabRecord]
    BY DEF TypeOK, TabRecord
  <1> QED  BY <1>1

LEMMA StartStep ==
    ASSUME IInv, NEW t \in Tabs, StartSync(t)
    PROVE  IInv' /\ Frozen
  <1>1. PICK s \in InSequence(PendingOf(DeviceOf[t])) : tab' = [tab EXCEPT ![t].pc = "push", ![t].todo = s]
    BY DEF StartSync
  <1>2. /\ tab[t].pc = "idle"
        /\ UNCHANGED <<mut, outbox, paper, ack, seq, choices, req, orphans, canon, revision,
                       receipts, shown, online, faults>>
    BY DEF StartSync, device, server
  <1>3. /\ s \in Seq(Mutations)
        /\ \A i \in DOMAIN s : s[i] \in PendingOf(DeviceOf[t])
    <2>1. PendingOf(DeviceOf[t]) \in SUBSET Mutations
      BY DEF PendingOf
    <2> QED  BY <2>1, Listed
  <1>4. /\ tab' \in [Tabs -> TabRecord]
        /\ tab'[t].todo = s
        /\ \A u \in Tabs : u # t => tab'[u] = tab[u]
    <2>1. PICK w : w = [tab[t] EXCEPT !.pc = "push", !.todo = s]
      OBVIOUS
    <2>2. TypeOK /\ tab' = [tab EXCEPT ![t] = w]
      BY <1>1, <2>1 DEF IInv
    <2>3. w \in TabRecord /\ w.todo = s
      BY <1>3, <2>1, <2>2, TabType DEF TabRecord
    <2> QED  BY <2>2, <2>3, TabChanged
  <1>5. TypeOK'
    BY <1>2, <1>4 DEF IInv, TypeOK, TabRecord
  <1>6. Frozen /\ Bodies' /\ AcksNameAppliedReceipts' /\ NoEditForgotten'
    BY <1>2, <1>5, DeviceKept
  <1>7. \A u \in Tabs : u # t => TabOK(u)'
    BY <1>2, <1>4, <1>5, <1>6, TabKept DEF IInv
  <1>8. TabOK(t)'
    <2>1. Own(DeviceOf[t], s)'
      BY <1>2, <1>3 DEF Own, PendingOf, IInv, Bodies, Issued
    <2>2. TabOK(t)
      BY DEF IInv
    <2> QED  BY <1>2, <1>4, <2>1, <2>2 DEF TabOK, Own, Accounted, Issued, Known
  <1>9. \A q \in orphans' : OrphanOK(q)'
    BY <1>2, <1>5, <1>6, OrphansKept
  <1> QED  BY <1>5, <1>6, <1>7, <1>8, <1>9 DEF IInv

LEMMA SendStep ==
    ASSUME IInv, NEW t \in Tabs, SendPush(t)
    PROVE  IInv' /\ Frozen
  <1>1. PICK d : d = DeviceOf[t]
    OBVIOUS
  <1>2. PICK todo : todo = tab[t].todo
    OBVIOUS
  <1>3. PICK batch : batch = Batch(todo)
    OBVIOUS
  <1>4. PICK P : P = Predecessors(d, batch)
    OBVIOUS
  <1>5. PICK last : last = LastApplied(d, P)
    OBVIOUS
  <1>6. PICK q : q = [left |-> batch, sent |-> batch, rejected |-> {}, last |-> last]
    OBVIOUS
  <1>7. /\ PredecessorsAccepted(P)
        /\ tab' = [tab EXCEPT ![t].pc = "wait", ![t].todo = Rest(@)]
        /\ req' = [req EXCEPT ![t] = q]
        /\ UNCHANGED <<mut, outbox, paper, ack, seq, choices, orphans, canon, revision,
                       receipts, shown, online, faults>>
    BY <1>1, <1>2, <1>3, <1>4, <1>5, <1>6, Zenon DEF SendPush, device, server
  <1>8. d \in Devices /\ todo \in Seq(Mutations) /\ Own(d, todo) /\ TypeOK
    BY <1>1, <1>2, TabType DEF IInv, TabOK
  <1>9. batch \in Seq(Mutations) /\ Rest(todo) \in Seq(Mutations)
        /\ Own(d, batch) /\ Own(d, Rest(todo))
    BY <1>3, <1>8, Batches DEF Own
  <1>10. P \in SUBSET Mutations
    <2>1. \A i \in DOMAIN batch : batch[i] \in Mutations /\ Issued(batch[i])
      BY <1>9, LenProperties, ElementOfSeq DEF Own
    <2>2. \A i \in DOMAIN batch : mut[batch[i]].key \in Keys
      BY <1>8, <2>1, BodyType
    <2>3. \A k \in Keys : ack[d][k].id \in Mutations \cup {None}
      BY <1>8 DEF TypeOK
    <2> QED  BY <1>4, <2>2, <2>3 DEF Predecessors, RangeOf
  <1>11. last \in [Keys -> Nat]
    BY <1>5, <1>7, <1>8, <1>10, LastAppliedIs
  <1>12. q \in Request
    BY <1>6, <1>9, <1>11 DEF Request
  <1>13. /\ tab' \in [Tabs -> TabRecord]
         /\ tab'[t].todo = Rest(todo)
         /\ \A u \in Tabs : u # t => tab'[u] = tab[u]
    <2>1. PICK rest : rest = Rest(todo)
      OBVIOUS
    <2>2. PICK w : w = [tab[t] EXCEPT !.pc = "wait", !.todo = rest]
      OBVIOUS
    <2>3. tab' = [tab EXCEPT ![t] = w]
      BY <1>2, <1>7, <2>1, <2>2, Zenon
    <2>4. w \in TabRecord /\ w.todo = rest
      BY <1>8, <1>9, <2>1, <2>2, TabType DEF TabRecord
    <2> QED  BY <1>8, <2>1, <2>3, <2>4, TabChanged
  <1>14. req' \in [Tabs -> Request] /\ req'[t] = q /\ \A u \in Tabs : u # t => req'[u] = req[u]
    BY <1>7, <1>8, <1>12 DEF TypeOK
  <1>15. TypeOK'
    BY <1>7, <1>8, <1>13, <1>14 DEF TypeOK, TabRecord
  <1>16. Frozen /\ Bodies' /\ AcksNameAppliedReceipts' /\ NoEditForgotten'
    BY <1>7, <1>15, DeviceKept
  <1>17. \A u \in Tabs : u # t => TabOK(u)'
    BY <1>8, <1>13, <1>14, <1>15, <1>16, TabKept DEF IInv
  <1>18. TabOK(t)'
    <2>1. Own(d, batch)' /\ Own(d, Rest(todo))'
      BY <1>7, <1>9 DEF Own, Issued
    <2>2. q.left = batch /\ q.sent = batch
      BY <1>6
    <2> QED  BY <1>1, <1>13, <1>14, <2>1, <2>2 DEF TabOK, Own, Accounted, Issued, Known
  <1>19. \A r \in orphans' : OrphanOK(r)'
    BY <1>7, <1>15, <1>16, OrphansKept
  <1> QED  BY <1>15, <1>16, <1>17, <1>18, <1>19 DEF IInv

\* The server's step on a request whose mutations are issued.
LEMMA ServerKept ==
    ASSUME IInv, TypeOK', NEW q \in Request, NEW refuse \in BOOLEAN,
           \A i \in DOMAIN q.left : Issued(q.left[i]),
           ServeMutation(q, refuse),
           UNCHANGED <<mut, outbox, choices, ack>>
    PROVE  Frozen /\ Bodies' /\ AcksNameAppliedReceipts' /\ NoEditForgotten'
  <1> USE DEF IInv
  <1>1. Frozen /\ \A m \in Mutations : receipts'[m] = receipts[m] \/ Issued(m)
    BY Serving
  <1>2. Bodies'
    BY <1>1, BodiesKept
  <1> QED  BY <1>1, <1>2, AcksKept, EditsKept

LEMMA ServeStep ==
    ASSUME IInv, NEW t \in Tabs, ServePush(t)
    PROVE  IInv' /\ Frozen
  <1>1. PICK refuse \in BOOLEAN : ServeMutation(req[t], refuse) /\ req' = [req EXCEPT ![t] = Served(@, refuse)]
    BY DEF ServePush
  <1>2. UNCHANGED <<mut, outbox, paper, ack, seq, choices, tab, orphans, shown, online, faults>>
    BY DEF ServePush, device
  <1>3. PICK q : q = req[t]
    OBVIOUS
  <1>4. PICK p : p = Served(q, refuse)
    OBVIOUS
  <1>5. TypeOK /\ q \in Request /\ TabOK(t) /\ \A i \in DOMAIN q.left : Issued(q.left[i])
    BY <1>3, TabType DEF IInv, TabOK, Own
  <1>6. ServeMutation(q, refuse) /\ req' = [req EXCEPT ![t] = p]
    BY <1>1, <1>3, <1>4, Zenon
  <1>7. /\ q.left # <<>> /\ Head(q.left) \in Mutations
        /\ canon' \in [Keys -> [val: FieldValue, rev: Nat, by: Devices \cup {Server}]]
        /\ revision' \in Nat
        /\ receipts' \in [Mutations -> Receipt \cup {Undecided}]
        /\ ~refuse => receipts'[Head(q.left)] \in Receipt
    BY <1>2, <1>5, <1>6, Serving
  <1>8. /\ p \in Request /\ p.left = Tail(q.left) /\ p.sent = q.sent
        /\ p.rejected = q.rejected \cup (IF refuse THEN {Head(q.left)} ELSE {})
    BY <1>2, <1>4, <1>5, <1>7, ServedRequest
  <1>9. req' \in [Tabs -> Request] /\ req'[t] = p /\ \A u \in Tabs : u # t => req'[u] = req[u]
    BY <1>5, <1>6, <1>8 DEF TypeOK
  <1>10. TypeOK'
    BY <1>2, <1>5, <1>7, <1>9 DEF TypeOK
  <1>11. Frozen /\ Bodies' /\ AcksNameAppliedReceipts' /\ NoEditForgotten'
    BY <1>2, <1>5, <1>6, <1>10, ServerKept
  <1>12. \A u \in Tabs : u # t => TabOK(u)'
    BY <1>2, <1>5, <1>9, <1>10, <1>11, TabKept DEF IInv
  <1>13. \A r \in orphans' : OrphanOK(r)'
    BY <1>2, <1>10, <1>11, OrphansKept
  <1>14. q.left \in Seq(Mutations) /\ p.left \in Seq(Mutations) /\ q.sent \in Seq(Mutations)
    BY <1>5, <1>8, RequestType
  <1>15. /\ DOMAIN p.left = 1..Len(p.left) /\ DOMAIN q.left = 1..Len(q.left)
         /\ Len(q.left) \in Nat /\ Len(p.left) = Len(q.left) - 1
         /\ \A i \in 1..Len(p.left) : p.left[i] = q.left[i + 1]
    BY <1>7, <1>8, <1>14, LenProperties, HeadTailProperties
  <1>16. Own(DeviceOf[t], p.left) /\ Own(DeviceOf[t], q.sent) /\ Own(DeviceOf[t], tab[t].todo)
    BY <1>3, <1>5, <1>15 DEF TabOK, Own
  <1>17. Own(DeviceOf[t], p.left)' /\ Own(DeviceOf[t], q.sent)' /\ Own(DeviceOf[t], tab[t].todo)'
    BY <1>2, <1>16 DEF Own, Issued
  <1>18. Accounted(p)'
    <2> SUFFICES ASSUME NEW m \in RangeOf(q.sent)
                 PROVE  m \in RangeOf(p.left) \/ m \in p.rejected \/ Known(m)'
      BY <1>8 DEF Accounted, RangeOf
    <2>1. m \in Mutations
      BY <1>14, LenProperties, ElementOfSeq DEF RangeOf
    <2>2. m \in RangeOf(q.left) \/ m \in q.rejected \/ Known(m)
      BY <1>3, <1>5 DEF TabOK, Accounted
    <2>3. CASE m \in RangeOf(q.left)
      <3>1. PICK i \in 1..Len(q.left) : q.left[i] = m
        BY <1>15, <2>3 DEF RangeOf
      <3>2. CASE i = 1
        <4>1. m = Head(q.left)
          BY <3>1, <3>2
        <4>2. receipts'[m] \in Receipt => Known(m)'
          BY Shapes DEF Known
        <4> QED  BY <1>7, <1>8, <4>1, <4>2
      <3>3. CASE i # 1
        <4>1. i - 1 \in 1..Len(p.left) /\ p.left[i - 1] = m
          BY <1>15, <3>1, <3>3
        <4> QED  BY <1>15, <4>1 DEF RangeOf
      <3> QED  BY <3>2, <3>3
    <2>4. CASE m \in q.rejected
      BY <1>8, <2>4
    <2>5. CASE Known(m)
      BY <1>5, <1>10, <1>11, <2>1, <2>5, Steady
    <2> QED  BY <2>2, <2>3, <2>4, <2>5
  <1>19. TabOK(t)'
    BY <1>2, <1>8, <1>9, <1>17, <1>18 DEF TabOK, Own, Accounted, Issued
  <1> QED  BY <1>10, <1>11, <1>12, <1>13, <1>19 DEF IInv

LEMMA OrphanStep ==
    ASSUME IInv, NEW q \in orphans, ServeOrphan(q)
    PROVE  IInv' /\ Frozen
  <1>1. PICK refuse \in BOOLEAN :
          /\ ServeMutation(q, refuse)
          /\ orphans' = (orphans \ {q}) \cup
                (IF Len(q.left) = 1 THEN {} ELSE {Served(q, refuse)})
    BY DEF ServeOrphan
  <1>2. UNCHANGED <<mut, outbox, paper, ack, seq, choices, tab, req, shown, online, faults>>
    BY DEF ServeOrphan, device
  <1>3. PICK p : p = Served(q, refuse)
    OBVIOUS
  <1>4. TypeOK /\ q \in Request /\ q.left \in Seq(Mutations) /\ OrphanOK(q)
    BY RequestType DEF IInv, TypeOK
  <1>5. /\ q.left # <<>> /\ Head(q.left) \in Mutations
        /\ canon' \in [Keys -> [val: FieldValue, rev: Nat, by: Devices \cup {Server}]]
        /\ revision' \in Nat
        /\ receipts' \in [Mutations -> Receipt \cup {Undecided}]
    BY <1>1, <1>2, <1>4, Serving DEF OrphanOK
  <1>6. p \in Request /\ p.left = Tail(q.left) /\ p.left \in Seq(Mutations)
    BY <1>2, <1>3, <1>4, <1>5, ServedRequest, RequestType
  <1>7. orphans' \in SUBSET Request
    BY <1>1, <1>3, <1>4, <1>6 DEF TypeOK
  <1>8. TypeOK'
    BY <1>2, <1>4, <1>5, <1>7 DEF TypeOK
  <1>9. Frozen /\ Bodies' /\ AcksNameAppliedReceipts' /\ NoEditForgotten'
    BY <1>1, <1>2, <1>4, <1>8, ServerKept DEF OrphanOK
  <1>10. \A t \in Tabs : TabOK(t)'
    BY <1>2, <1>8, <1>9, TabsKept
  <1>11. ASSUME NEW r \in orphans'
         PROVE  OrphanOK(r)'
    <2>1. CASE r \in orphans
      BY <1>4, <1>8, <1>9, <2>1, OrphanKept DEF IInv, TypeOK
    <2>2. CASE r = p /\ Len(q.left) # 1
      <3>1. /\ DOMAIN p.left = 1..Len(p.left) /\ DOMAIN q.left = 1..Len(q.left)
            /\ Len(q.left) \in Nat /\ Len(p.left) = Len(q.left) - 1
            /\ \A i \in 1..Len(p.left) : p.left[i] = q.left[i + 1]
        BY <1>4, <1>5, <1>6, LenProperties, HeadTailProperties
      <3>3. \A i \in DOMAIN p.left : Issued(p.left[i])
        BY <1>4, <3>1 DEF OrphanOK
      <3> QED  BY <1>2, <2>2, <3>3 DEF OrphanOK, Issued
    <2> QED  BY <1>1, <1>3, <2>1, <2>2
  <1> QED  BY <1>8, <1>9, <1>10, <1>11 DEF IInv

LEMMA OnlineStep ==
    ASSUME IInv, NEW k \in Keys, NEW v \in FieldValue, OnlineWrite(k, v)
    PROVE  IInv' /\ Frozen
  <1>1. /\ canon' = [canon EXCEPT ![k] = Written(k, v, Server)]
        /\ revision' = IF canon[k].val = v THEN revision ELSE revision + 1
        /\ online' = online + 1
        /\ UNCHANGED <<mut, outbox, paper, ack, seq, choices, tab, req, orphans, receipts, shown, faults>>
    BY DEF OnlineWrite, WriteValue, device
  <1>2. canon[k] \in [val: FieldValue, rev: Nat, by: Devices \cup {Server}] /\ revision \in Nat
    BY DEF IInv, TypeOK
  <1>3. Written(k, v, Server) \in [val: FieldValue, rev: Nat, by: Devices \cup {Server}]
    BY <1>2 DEF Written
  <1>4. canon' \in [Keys -> [val: FieldValue, rev: Nat, by: Devices \cup {Server}]]
    BY <1>1, <1>3 DEF IInv, TypeOK
  <1>5. TypeOK'
    BY <1>1, <1>2, <1>4 DEF IInv, TypeOK
  <1>6. Frozen /\ Bodies' /\ AcksNameAppliedReceipts' /\ NoEditForgotten'
    BY <1>1, <1>5, DeviceKept
  <1> QED  BY <1>1, <1>5, <1>6, TabsKept, OrphansKept DEF IInv

LEMMA PullStep ==
    ASSUME IInv, NEW t \in Tabs, PullSnapshot(t)
    PROVE  IInv' /\ Frozen
  <1>1. PICK snap : snap = [k \in Keys |-> [val |-> canon[k].val, rev |-> canon[k].rev]]
    OBVIOUS
  <1>2. PICK w : w = [tab[t] EXCEPT !.pc = "pulled", !.snap = snap]
    OBVIOUS
  <1>3. /\ tab' = [tab EXCEPT ![t] = w]
        /\ UNCHANGED <<mut, outbox, paper, ack, seq, choices, req, orphans, canon, revision,
                       receipts, shown, online, faults>>
    BY <1>1, <1>2, Zenon DEF PullSnapshot, device, server
  <1>4. TypeOK /\ snap \in Snapshot
    BY <1>1 DEF IInv, TypeOK, Snapshot
  <1>5. w \in TabRecord /\ w.todo = tab[t].todo
    BY <1>2, <1>4, TabType DEF TabRecord
  <1>6. tab' \in [Tabs -> TabRecord] /\ tab'[t] = w /\ \A u \in Tabs : u # t => tab'[u] = tab[u]
    BY <1>3, <1>4, <1>5, TabChanged
  <1>7. TypeOK'
    BY <1>3, <1>4, <1>6 DEF TypeOK, TabRecord
  <1>8. Frozen /\ Bodies' /\ AcksNameAppliedReceipts' /\ NoEditForgotten'
    BY <1>3, <1>7, DeviceKept
  <1>9. \A u \in Tabs : TabOK(u)'
    BY <1>3, <1>4, <1>5, <1>6, <1>7, <1>8, TabKept DEF IInv
  <1> QED  BY <1>3, <1>7, <1>8, <1>9, OrphansKept DEF IInv

\* A tab that gives up its sync forgets its list and its request.
LEMMA IdleTab ==
    ASSUME IInv, TypeOK', Frozen, NEW t \in Tabs,
           tab' = [tab EXCEPT ![t] = Idle], req' = [req EXCEPT ![t] = NoRequest]
    PROVE  \A u \in Tabs : TabOK(u)'
  <1>1. TypeOK /\ \A u \in Tabs : TabOK(u)
    BY DEF IInv
  <1>2. /\ tab'[t] = Idle /\ req'[t] = NoRequest
        /\ \A u \in Tabs : u # t => tab'[u] = tab[u] /\ req'[u] = req[u]
    BY <1>1 DEF TypeOK
  <1>3. \A u \in Tabs : u # t => TabOK(u)'
    BY <1>1, <1>2, TabKept
  <1>4. tab'[t].todo = <<>> /\ req'[t].sent = <<>> /\ req'[t].left = <<>>
    BY <1>2 DEF Idle, NoRequest
  <1>5. TabOK(t)'
    BY <1>4 DEF TabOK, Own, Accounted, RangeOf
  <1> QED  BY <1>3, <1>5

LEMMA IdleType ==
    ASSUME TypeOK, NEW t \in Tabs
    PROVE  /\ [tab EXCEPT ![t] = Idle] \in [Tabs -> TabRecord]
           /\ [req EXCEPT ![t] = NoRequest] \in [Tabs -> Request]
  <1>1. tab \in [Tabs -> TabRecord] /\ req \in [Tabs -> Request]
    BY DEF TypeOK, TabRecord
  <1>2. NoValue \in FieldValue
    BY DEF FieldValue
  <1>3. NoSnapshot \in Snapshot
    BY <1>2 DEF NoSnapshot, Snapshot
  <1>4. Idle \in TabRecord
    <2>1. <<>> \in Seq(Mutations)
      BY EmptySeq
    <2> QED  BY <1>3, <2>1 DEF Idle, TabRecord
  <1> QED  BY <1>1, <1>4, RequestType

LEMMA ApplyStep ==
    ASSUME IInv, NEW t \in Tabs, ApplyPull(t)
    PROVE  IInv' /\ Frozen
  <1>1. PICK d : d = DeviceOf[t]
    OBVIOUS
  <1>2. PICK top \in [Keys -> Mutations \cup {None}] :
          /\ \A k \in Keys : IF PendingOn(d, k) = {} THEN top[k] = None
                                                    ELSE top[k] \in LastPending(d, k)
          /\ paper' = [paper EXCEPT ![d] = [k \in Keys |-> Merged(d, k, tab[t].snap, top[k])]]
    BY <1>1, Zenon DEF ApplyPull
  <1>3. /\ shown' = [shown EXCEPT ![d] = [k \in Keys |->
              IF PendingOn(d, k) = {} THEN Larger(@[k], tab[t].snap[k].rev) ELSE @[k]]]
        /\ tab' = [tab EXCEPT ![t] = Idle]
        /\ UNCHANGED <<mut, outbox, ack, seq, choices, req, orphans, canon, revision,
                       receipts, online, faults>>
    BY <1>1, Zenon DEF ApplyPull, server
  <1>4. TypeOK /\ d \in Devices
    BY <1>1, TabType DEF IInv
  <1>5. PICK snap : snap = tab[t].snap
    OBVIOUS
  <1>6. snap \in [Keys -> [val: FieldValue, rev: Nat]]
    BY <1>4, <1>5, TabType DEF Snapshot
  <1>7. paper' \in [Devices -> Snapshot]
    <2>1. ASSUME NEW k \in Keys
          PROVE  Merged(d, k, snap, top[k]) \in [val: FieldValue, rev: Nat]
      <3>1. CASE top[k] = None
        BY <1>6, <3>1 DEF Merged
      <3>2. CASE top[k] # None
        <4>1. top[k] \in Mutations /\ outbox[top[k]] = "pending"
          BY <1>2, <3>2 DEF LastPending, PendingOn, PendingOf
        <4>2. mut[top[k]].val \in FieldValue
          BY <1>4, <4>1, BodyType DEF IInv, Bodies
        <4> QED  BY <1>6, <3>2, <4>2 DEF Merged
      <3> QED  BY <3>1, <3>2
    <2>2. PICK view : view = [k \in Keys |-> Merged(d, k, snap, top[k])]
      OBVIOUS
    <2>3. view \in Snapshot
      BY <2>1, <2>2 DEF Snapshot
    <2>4. paper' = [paper EXCEPT ![d] = view]
      BY <1>2, <1>5, <2>2, Zenon
    <2> QED  BY <1>4, <2>3, <2>4 DEF TypeOK
  <1>8. shown' \in [Devices -> [Keys -> Nat]]
    <2>1. PICK seen : seen = [k \in Keys |-> IF PendingOn(d, k) = {} THEN Larger(shown[d][k], snap[k].rev)
                                                                   ELSE shown[d][k]]
      OBVIOUS
    <2>2. shown' = [shown EXCEPT ![d] = seen]
      BY <1>3, <1>5, <2>1, Zenon
    <2>3. seen \in [Keys -> Nat]
      BY <1>4, <1>6, <2>1 DEF TypeOK, Larger
    <2> QED  BY <1>4, <2>2, <2>3 DEF TypeOK
  <1>9. tab' \in [Tabs -> TabRecord]
    BY <1>3, <1>4, IdleType
  <1>10. TypeOK'
    BY <1>3, <1>4, <1>7, <1>8, <1>9 DEF TypeOK, TabRecord
  <1>11. Frozen /\ Bodies' /\ AcksNameAppliedReceipts' /\ NoEditForgotten'
    BY <1>3, <1>10, DeviceKept
  <1>12. \A u \in Tabs : TabOK(u)'
    <2>1. tab'[t].todo = <<>> /\ \A u \in Tabs : u # t => tab'[u] = tab[u]
      BY <1>3, <1>4 DEF TypeOK, Idle
    <2>2. \A u \in Tabs : u # t => TabOK(u)'
      BY <1>3, <1>4, <1>10, <1>11, <2>1, TabKept DEF IInv
    <2>3. TabOK(t)
      BY DEF IInv
    <2>4. TabOK(t)'
      BY <1>3, <2>1, <2>3 DEF TabOK, Own, Accounted, Issued, Known
    <2> QED  BY <2>2, <2>4
  <1> QED  BY <1>3, <1>10, <1>11, <1>12, OrphansKept DEF IInv

LEMMA AbortStep ==
    ASSUME IInv, NEW t \in Tabs, AbortSync(t)
    PROVE  IInv' /\ Frozen
  <1>1. /\ faults' = faults + 1
        /\ tab' = [tab EXCEPT ![t] = Idle]
        /\ req' = [req EXCEPT ![t] = NoRequest]
        /\ orphans' = IF tab[t].pc = "wait" THEN orphans \cup {req[t]} ELSE orphans
        /\ UNCHANGED <<mut, outbox, paper, ack, seq, choices, canon, revision, receipts, shown, online>>
    BY DEF AbortSync, device, server
  <1>2. TypeOK /\ req[t] \in Request
    BY TabType DEF IInv
  <1>3. TypeOK'
    <2>1. orphans' \in SUBSET Request
      BY <1>1, <1>2 DEF TypeOK
    <2>2. tab' \in [Tabs -> TabRecord] /\ req' \in [Tabs -> Request]
      BY <1>1, <1>2, IdleType
    <2> QED  BY <1>1, <1>2, <2>1, <2>2 DEF TypeOK, TabRecord
  <1>4. Frozen /\ Bodies' /\ AcksNameAppliedReceipts' /\ NoEditForgotten'
    BY <1>1, <1>3, DeviceKept
  <1>5. \A u \in Tabs : TabOK(u)'
    BY <1>1, <1>3, <1>4, IdleTab
  <1>6. \A q \in orphans' : OrphanOK(q)'
    <2>1. OrphanOK(req[t])
      BY DEF IInv, TabOK, Own, OrphanOK
    <2>2. \A q \in orphans' : q \in Request /\ OrphanOK(q)
      BY <1>1, <1>2, <2>1 DEF IInv, TypeOK
    <2> QED  BY <1>2, <1>3, <1>4, <2>2, OrphanKept
  <1> QED  BY <1>3, <1>4, <1>5, <1>6 DEF IInv

LEMMA LoseStep ==
    ASSUME IInv, NEW t \in Tabs, LoseRequest(t)
    PROVE  IInv' /\ Frozen
  <1>1. /\ faults' = faults + 1
        /\ tab' = [tab EXCEPT ![t] = Idle]
        /\ req' = [req EXCEPT ![t] = NoRequest]
        /\ UNCHANGED <<mut, outbox, paper, ack, seq, choices, orphans, canon, revision, receipts, shown, online>>
    BY DEF LoseRequest, device, server
  <1>2. TypeOK
    BY DEF IInv
  <1>3. TypeOK'
    <2>1. tab' \in [Tabs -> TabRecord] /\ req' \in [Tabs -> Request]
      BY <1>1, <1>2, IdleType
    <2> QED  BY <1>1, <1>2, <2>1 DEF TypeOK, TabRecord
  <1>4. Frozen /\ Bodies' /\ AcksNameAppliedReceipts' /\ NoEditForgotten'
    BY <1>1, <1>3, DeviceKept
  <1>5. \A u \in Tabs : TabOK(u)'
    BY <1>1, <1>3, <1>4, IdleTab
  <1> QED  BY <1>1, <1>3, <1>4, <1>5, OrphansKept DEF IInv

\* The row of an answered mutation: a conflict is one the server remembers.
LEMMA RowAfterIs ==
    ASSUME IInv, NEW t \in Tabs, req[t].left = <<>>, NEW m \in RangeOf(req[t].sent)
    PROVE  /\ RowAfter(t, m) \in {"retired", "rejected", "conflict"}
           /\ RowAfter(t, m) = "retired" => Applied(m)
           /\ RowAfter(t, m) = "conflict" => Conflict(m)
  <1>1. m \in Mutations
    BY TabType, RequestType, LenProperties, ElementOfSeq DEF IInv, RangeOf
  <1>2. RangeOf(req[t].left) = {}
    BY EmptySeq DEF RangeOf
  <1>3. m \in req[t].rejected \/ Known(m)
    BY <1>2 DEF IInv, TabOK, Accounted
  <1>4. Known(m) => Applied(m) \/ Conflict(m)
    BY <1>1, ReceiptType DEF IInv
  <1>5. CASE ReportedApplied(t, m)
    BY <1>5 DEF RowAfter, ReportedApplied
  <1>6. CASE ~ReportedApplied(t, m) /\ m \in req[t].rejected
    BY <1>6 DEF RowAfter
  <1>7. CASE ~ReportedApplied(t, m) /\ m \notin req[t].rejected
    <2>1. RowAfter(t, m) = "conflict"
      BY <1>7 DEF RowAfter
    <2> QED  BY <1>3, <1>4, <1>7, <2>1 DEF ReportedApplied
  <1> QED  BY <1>5, <1>6, <1>7

LEMMA ReceiveStep ==
    ASSUME IInv, NEW t \in Tabs, ReceiveResults(t)
    PROVE  IInv' /\ Frozen
  <1>1. PICK d : d = DeviceOf[t]
    OBVIOUS
  <1>2. PICK sent : sent = req[t].sent
    OBVIOUS
  <1>3. PICK rows : rows = {m \in RangeOf(sent) : outbox[m] # "retired"}
    OBVIOUS
  <1>4. PICK done : done = {m \in rows : ReportedApplied(t, m)}
    OBVIOUS
  <1>5. /\ req[t].left = <<>>
        /\ outbox' = [m \in Mutations |-> IF m \in rows THEN RowAfter(t, m) ELSE outbox[m]]
        /\ ack' = [ack EXCEPT ![d] = [k \in Keys |-> AckAfter(d, k, sent, done)]]
        /\ tab' = [tab EXCEPT ![t].pc = "push"]
        /\ req' = [req EXCEPT ![t] = NoRequest]
        /\ UNCHANGED <<mut, paper, seq, choices, orphans, canon, revision, receipts, shown, online, faults>>
    BY <1>1, <1>2, <1>3, <1>4, Zenon DEF ReceiveResults, server
  <1>6. TypeOK /\ d \in Devices /\ sent \in Seq(Mutations) /\ Own(d, sent) /\ Bodies
    BY <1>1, <1>2, TabType, RequestType DEF IInv, TabOK
  <1>7. \A i \in DOMAIN sent : sent[i] \in Mutations /\ Issued(sent[i]) /\ mut[sent[i]].dev = d
    BY <1>6, LenProperties, ElementOfSeq DEF Own
  <1>8. \A m \in rows : m \in Mutations /\ Issued(m) /\ m \in RangeOf(sent)
    BY <1>3, <1>7 DEF RangeOf
  <1>9. \A m \in rows : /\ RowAfter(t, m) \in {"retired", "rejected", "conflict"}
                        /\ RowAfter(t, m) = "retired" => Applied(m)
                        /\ RowAfter(t, m) = "conflict" => Conflict(m)
    BY <1>2, <1>5, <1>8, RowAfterIs
  <1>10. \A m \in done : Applied(m) /\ m \in Mutations
    BY <1>4, <1>8 DEF ReportedApplied
  <1>11. ASSUME NEW k \in Keys
         PROVE  \/ ack'[d][k] = ack[d][k]
                \/ \E m \in Mutations :
                      /\ Applied(m) /\ mut[m].dev = d /\ mut[m].key = k
                      /\ ack'[d][k] = [id |-> m, rev |-> receipts[m].rev]
    <2>1. ack'[d][k] = AckAfter(d, k, sent, done)
      BY <1>5, <1>6 DEF TypeOK
    <2>2. CASE AckAfter(d, k, sent, done) = ack[d][k]
      BY <2>1, <2>2
    <2>3. CASE \E i \in DOMAIN sent :
                 /\ sent[i] \in done /\ mut[sent[i]].key = k
                 /\ AckAfter(d, k, sent, done) = [id |-> sent[i], rev |-> receipts[sent[i]].rev]
      BY <1>7, <1>10, <2>1, <2>3
    <2> QED  BY <2>2, <2>3, AckAfterIs
  <1>12. ack' \in [Devices -> [Keys -> [id: Mutations \cup {None}, rev: Nat]]]
    <2>1. PICK row : row = [k \in Keys |-> AckAfter(d, k, sent, done)]
      OBVIOUS
    <2>2. ack' = [ack EXCEPT ![d] = row]
      BY <1>5, <2>1
    <2>3. ack'[d] = row
      BY <1>6, <2>2 DEF TypeOK
    <2>4. ASSUME NEW k \in Keys
          PROVE  ack'[d][k] \in [id: Mutations \cup {None}, rev: Nat]
      <3>1. CASE ack'[d][k] = ack[d][k]
        BY <1>6, <3>1 DEF TypeOK
      <3>2. ASSUME NEW m \in Mutations, Applied(m), ack'[d][k] = [id |-> m, rev |-> receipts[m].rev]
            PROVE  ack'[d][k] \in [id: Mutations \cup {None}, rev: Nat]
        <4>1. receipts[m].rev \in Nat
          BY <1>6, <3>2, ReceiptType
        <4> QED  BY <3>2, <4>1
      <3> QED  BY <1>11, <3>1, <3>2
    <2>5. row \in [Keys -> [id: Mutations \cup {None}, rev: Nat]]
      BY <2>1, <2>3, <2>4
    <2> QED  BY <1>6, <2>2, <2>5 DEF TypeOK
  <1>13. PICK w : w = [tab[t] EXCEPT !.pc = "push"]
    OBVIOUS
  <1>14. w \in TabRecord /\ w.todo = tab[t].todo
    BY <1>6, <1>13, TabType DEF TabRecord
  <1>15. tab' \in [Tabs -> TabRecord] /\ tab'[t] = w /\ \A u \in Tabs : u # t => tab'[u] = tab[u]
    <2>1. tab' = [tab EXCEPT ![t] = w]
      BY <1>5, <1>13
    <2> QED  BY <1>6, <1>14, <2>1, TabChanged
  <1>16. req' \in [Tabs -> Request] /\ req'[t] = NoRequest /\ \A u \in Tabs : u # t => req'[u] = req[u]
    BY <1>5, <1>6, RequestType DEF TypeOK
  <1>17. outbox' \in [Mutations -> {"unused", "pending", "conflict", "rejected", "retired"}]
    BY <1>5, <1>6, <1>9 DEF TypeOK
  <1>18. TypeOK'
    BY <1>5, <1>6, <1>12, <1>15, <1>16, <1>17 DEF TypeOK, TabRecord
  <1>19. Frozen
    BY <1>5 DEF Frozen
  <1>20. \A m \in Mutations : outbox'[m] = IF m \in rows THEN RowAfter(t, m) ELSE outbox[m]
    BY <1>5
  <1>21. Bodies'
    <2>1. \A m \in Mutations : Issued(m)' = Issued(m) /\ Known(m)' = Known(m) /\ Conflict(m)' = Conflict(m)
      BY <1>5 DEF Issued, Known, Conflict
    <2>2. \A m \in Mutations : Issued(m) <=> outbox'[m] # "unused"
      BY <1>6, <1>8, <1>9, <1>20 DEF Bodies
    <2>3. \A m \in Mutations : outbox'[m] = "conflict" => Conflict(m)
      BY <1>6, <1>9, <1>20 DEF Bodies
    <2> QED  BY <1>5, <1>6, <2>1, <2>2, <2>3 DEF Bodies
  <1>22. AcksNameAppliedReceipts'
    <2> SUFFICES ASSUME NEW e \in Devices, NEW k \in Keys, ack'[e][k].id # None
                 PROVE  LET m == ack'[e][k].id
                        IN  /\ Applied(m) /\ mut[m].dev = e /\ mut[m].key = k
                            /\ receipts[m].rev = ack'[e][k].rev
      BY <1>5 DEF AcksNameAppliedReceipts, Applied
    <2>1. CASE ack'[e][k] = ack[e][k]
      BY <2>1 DEF IInv, AcksNameAppliedReceipts
    <2>2. CASE e = d /\ ack'[e][k] # ack[e][k]
      <3>1. PICK m \in Mutations :
              /\ Applied(m) /\ mut[m].dev = d /\ mut[m].key = k
              /\ ack'[d][k] = [id |-> m, rev |-> receipts[m].rev]
        BY <1>11, <2>2
      <3> QED  BY <2>2, <3>1
    <2>3. e # d => ack'[e] = ack[e]
      BY <1>5, <1>6 DEF TypeOK
    <2> QED  BY <2>1, <2>2, <2>3
  <1>23. NoEditForgotten'
    <2>1. \A m \in Mutations : outbox'[m] = "retired" => outbox[m] = "retired" \/ Applied(m)
      BY <1>9, <1>20
    <2> QED  BY <1>6, <1>18, <1>19, <2>1, EditsKept DEF IInv
  <1>24. \A u \in Tabs : u # t => TabOK(u)'
    BY <1>6, <1>15, <1>16, <1>18, <1>19, TabKept DEF IInv
  <1>25. TabOK(t)'
    <2>1. Own(DeviceOf[t], tab[t].todo)
      BY DEF IInv, TabOK
    <2>2. req'[t].sent = <<>> /\ req'[t].left = <<>>
      BY <1>16 DEF NoRequest
    <2> QED  BY <1>5, <1>14, <1>15, <2>1, <2>2 DEF TabOK, Own, Accounted, RangeOf, Issued
  <1> QED  BY <1>5, <1>18, <1>19, <1>21, <1>22, <1>23, <1>24, <1>25, OrphansKept DEF IInv

-----------------------------------------------------------------------------
(* The invariant of the specification.                                     *)

LEMMA InitIInv == Init => IInv
  <1> SUFFICES ASSUME Init
               PROVE  IInv
    OBVIOUS
  <1>1. TypeOK
    <2>1. NoValue \in FieldValue
      BY DEF FieldValue
    <2>2. NoSnapshot \in Snapshot
      BY <2>1 DEF NoSnapshot, Snapshot
    <2>3. Idle \in [pc: {"idle", "push", "wait", "pulled"}, todo: Seq(Mutations), snap: Snapshot]
      BY <2>2, EmptySeq DEF Idle
    <2>4. NoAck \in [id: Mutations \cup {None}, rev: Nat]
      BY DEF NoAck
    <2> QED  BY <2>1, <2>2, <2>3, <2>4, RequestType DEF Init, TypeOK
  <1>2. Bodies
    BY Shapes DEF Init, Bodies, Issued, Known, Conflict
  <1>3. \A t \in Tabs : TabOK(t)
    BY EmptySeq DEF Init, TabOK, Own, Accounted, RangeOf, Idle, NoRequest
  <1>4. AcksNameAppliedReceipts /\ NoEditForgotten
    BY DEF Init, AcksNameAppliedReceipts, NoEditForgotten, NoAck
  <1>5. \A q \in orphans : OrphanOK(q)
    BY DEF Init
  <1> QED  BY <1>1, <1>2, <1>3, <1>4, <1>5 DEF IInv

LEMMA NextIInv == IInv /\ [Next]_vars => IInv' /\ Frozen
  <1> SUFFICES ASSUME IInv, [Next]_vars
               PROVE  IInv' /\ Frozen
    OBVIOUS
  <1>1. ASSUME NEW t \in Tabs, TabStep(t)
        PROVE  IInv' /\ Frozen
    BY <1>1, StartStep, SendStep, ServeStep, ReceiveStep, PullStep, ApplyStep DEF TabStep
  <1>2. CASE UserStep
    BY <1>2, QueueStep, ChooseStep, ResolveStep, OnlineStep DEF UserStep
  <1>3. CASE FaultStep
    BY <1>3, AbortStep, LoseStep, OrphanStep DEF FaultStep
  <1>4. CASE UNCHANGED vars
    <2>1. UNCHANGED <<mut, outbox, paper, ack, seq, choices, tab, req, orphans, canon, revision,
                      receipts, shown, online, faults>>
      BY <1>4 DEF vars, device, server
    <2>2. TypeOK'
      BY <2>1 DEF IInv, TypeOK
    <2>3. Frozen /\ Bodies' /\ AcksNameAppliedReceipts' /\ NoEditForgotten'
      BY <2>1, <2>2, DeviceKept
    <2> QED  BY <2>1, <2>2, <2>3, TabsKept, OrphansKept DEF IInv
  <1> QED  BY <1>1, <1>2, <1>3, <1>4 DEF Next

\* The invariant holds in every reachable state, however edits, pushes, pulls,
\* aborted and lost requests of several tabs interleave.
THEOREM Invariance == Spec => []IInv
  BY InitIInv, NextIInv, PTL DEF Spec

\* The synchronisation is well typed: every message, row and receipt keeps
\* its shape, whatever tabs, devices and faults interleave.
THEOREM TypeCorrect == Spec => []TypeOK
  BY Invariance, PTL DEF IInv

\* A device only names receipts of its own applied mutations, so the server
\* never refuses its pushes for good.
THEOREM AcksAreSound == Spec => []AcksNameAppliedReceipts
  BY Invariance, PTL DEF IInv

\* No edit leaves the outbox unless it was applied or its conflict resolved.
THEOREM NothingForgotten == Spec => []NoEditForgotten
  BY Invariance, PTL DEF IInv

-----------------------------------------------------------------------------
(* OfflineSync implements FieldRegister.                                   *)

\* The edit a mutation stands for.
EditOf(m) == [by |-> mut[m].dev, key |-> mut[m].key, val |-> mut[m].val]

LEMMA EditIs ==
    ASSUME TypeOK, NEW m \in Mutations, Issued(m)
    PROVE  EditOf(m) # None
  <1>1. EditOf(m) \in [by: Devices, key: Keys, val: FieldValue]
    BY BodyType DEF EditOf
  <1> QED  BY <1>1, NoneFresh DEF FieldValue

\* Queueing a mutation, or writing a resolution, makes an edit.
LEMMA MakeStep ==
    ASSUME TypeOK, NEW m \in Mutations, ~Issued(m), NEW row \in Mutation,
           mut' = [mut EXCEPT ![m] = row], UNCHANGED <<canon, receipts>>
    PROVE  Register!Make(m, row.dev, row.key, row.val)
  <1>1. row # NoMutation
    BY Shapes
  <1>2. mut'[m] = row /\ \A n \in Mutations : n # m => mut'[n] = mut[n]
    BY DEF TypeOK
  <1>3. Issued(m)' /\ \A n \in Mutations : n # m => Issued(n)' = Issued(n)
    BY <1>1, <1>2 DEF Issued
  <1>4. [n \in Mutations |-> IF Issued(n) THEN EditOf(n) ELSE None]' =
          [[n \in Mutations |-> IF Issued(n) THEN EditOf(n) ELSE None]
              EXCEPT ![m] = [by |-> row.dev, key |-> row.key, val |-> row.val]]
    BY <1>2, <1>3 DEF EditOf
  <1> QED  BY <1>4 DEF Register!Make, EditOf

\* Deciding a mutation applies or refuses its edit.
LEMMA DecideStep ==
    ASSUME TypeOK, NEW m \in Mutations, Issued(m), ~Known(m), NEW last \in [Keys -> Nat],
           Decide(m, last), mut' = mut
    PROVE  Register!Apply(m) \/ Register!Refuse(m)
  <1>1. EditOf(m) # None /\ receipts[m].status = "none"
    BY EditIs, Shapes DEF Known
  <1>2. PICK k : k = mut[m].key
    OBVIOUS
  <1>3. PICK v : v = mut[m].val
    OBVIOUS
  <1>4. PICK d : d = mut[m].dev
    OBVIOUS
  <1>5. k \in Keys
    BY <1>2, BodyType
  <1>6. CASE Overtaken(m, last)
    <2>1. receipts' = [receipts EXCEPT ![m] =
                   [status |-> "conflict", rev |-> canon[k].rev, canon |-> canon[k].val]]
          /\ canon' = canon
      BY <1>6, <1>2 DEF Decide
    <2>2. [n \in Mutations |-> receipts'[n].status] =
            [[n \in Mutations |-> receipts[n].status] EXCEPT ![m] = "conflict"]
      BY <2>1 DEF TypeOK
    <2> QED  BY <1>1, <2>1, <2>2 DEF Register!Refuse, Issued, EditOf
  <1>7. CASE ~Overtaken(m, last)
    <2>1. canon' = [canon EXCEPT ![k] = Written(k, v, d)]
      BY <1>7, <1>2, <1>3, <1>4 DEF Decide, WriteValue
    <2>2. receipts' = [receipts EXCEPT ![m] =
                   [status |-> "applied", rev |-> canon'[k].rev, canon |-> v]]
      BY <1>7, <1>2, <1>3 DEF Decide
    <2>3. [n \in Mutations |-> receipts'[n].status] =
            [[n \in Mutations |-> receipts[n].status] EXCEPT ![m] = "applied"]
      BY <2>2 DEF TypeOK
    <2>4. Written(k, v, d).val = v
          /\ Written(k, v, d).by = IF canon[k].val = v THEN canon[k].by ELSE d
      BY DEF Written
    <2>5. [j \in Keys |-> canon'[j].val] = [[j \in Keys |-> canon[j].val] EXCEPT ![k] = v]
      BY <2>1, <2>4 DEF TypeOK
    <2>6. [j \in Keys |-> canon'[j].by] =
            IF [j \in Keys |-> canon[j].val][k] = v THEN [j \in Keys |-> canon[j].by]
            ELSE [[j \in Keys |-> canon[j].by] EXCEPT ![k] = d]
      BY <1>5, <2>1, <2>4 DEF TypeOK
    <2> QED  BY <1>1, <1>2, <1>3, <1>4, <2>3, <2>5, <2>6 DEF Register!Apply, Issued, EditOf
  <1> QED  BY <1>6, <1>7

\* An iteration of service.push decides an edit, or leaves the register alone.
LEMMA ServeRefines ==
    ASSUME TypeOK, NEW q \in Request, NEW refuse \in BOOLEAN,
           \A i \in DOMAIN q.left : Issued(q.left[i]),
           ServeMutation(q, refuse), mut' = mut
    PROVE  [Register!Next]_(Register!vars)
  <1>1. PICK m : m = Head(q.left)
    OBVIOUS
  <1>2. m \in Mutations /\ Issued(m) /\ q.last \in [Keys -> Nat]
    BY <1>1, Serving, RequestType
  <1>3. CASE UNCHANGED server
    <2>1. canon' = canon /\ receipts' = receipts
      BY <1>3 DEF server
    <2> QED  BY <2>1 DEF Register!vars, Issued
  <1>4. CASE ~Known(m) /\ Decide(m, q.last)
    <2>1. Register!Apply(m) \/ Register!Refuse(m)
      BY <1>2, <1>4, DecideStep
    <2> QED  BY <1>2, <2>1 DEF Register!Next
  <1> QED  BY <1>1, <1>3, <1>4, Zenon DEF ServeMutation

LEMMA OnlineRefines ==
    ASSUME TypeOK, NEW k \in Keys, NEW v \in FieldValue, OnlineWrite(k, v)
    PROVE  Register!OnlineWrite(k, v)
  <1>1. /\ canon' = [canon EXCEPT ![k] = Written(k, v, Server)]
        /\ canon[k].val # v
        /\ mut' = mut /\ receipts' = receipts
    BY DEF OnlineWrite, WriteValue, device
  <1>2. Written(k, v, Server).val = v /\ Written(k, v, Server).by = Server
    BY <1>1 DEF Written
  <1>3. [j \in Keys |-> canon'[j].val] = [[j \in Keys |-> canon[j].val] EXCEPT ![k] = v]
    BY <1>1, <1>2 DEF TypeOK
  <1>4. [j \in Keys |-> canon'[j].by] = [[j \in Keys |-> canon[j].by] EXCEPT ![k] = Server]
    BY <1>1, <1>2 DEF TypeOK
  <1> QED  BY <1>1, <1>3, <1>4 DEF Register!OnlineWrite, Issued

LEMMA QueueRefines ==
    ASSUME IInv, NEW d \in Devices, NEW k \in Keys, NEW v \in FieldValue, QueueMutation(d, k, v)
    PROVE  \E m \in Mutations : Register!Make(m, d, k, v)
  <1>1. PICK row : row = [dev |-> d, key |-> k, val |-> v, base |-> BaseRevision(d, k),
                          seq |-> seq[d] + 1, resolves |-> None]
    OBVIOUS
  <1>2. PICK m \in Mutations : ~Issued(m) /\ mut' = [mut EXCEPT ![m] = row]
    BY <1>1, Zenon DEF QueueMutation
  <1>3. canon' = canon /\ receipts' = receipts
    BY DEF QueueMutation, server
  <1>4. row \in Mutation
    BY <1>1 DEF Mutation, BaseRevision, IInv, TypeOK, Snapshot
  <1>5. Register!Make(m, row.dev, row.key, row.val)
    BY <1>2, <1>3, <1>4, MakeStep DEF IInv
  <1>6. row.dev = d /\ row.key = k /\ row.val = v
    BY <1>1
  <1> QED  BY <1>5, <1>6

LEMMA ResolveRefines ==
    ASSUME IInv, NEW m \in Mutations, NEW keepLocal \in BOOLEAN, WriteResolution(m, keepLocal)
    PROVE  \E r \in Mutations, d \in Devices, k \in Keys, v \in FieldValue : Register!Make(r, d, k, v)
  <1>1. PICK row : row = [mut[m] EXCEPT !.val = IF keepLocal THEN @ ELSE receipts[m].canon,
                                        !.base = receipts[m].rev,
                                        !.resolves = m]
    OBVIOUS
  <1>2. PICK r \in Mutations : ~Issued(r) /\ mut' = [mut EXCEPT ![r] = row]
    BY <1>1, Zenon DEF WriteResolution
  <1>3. canon' = canon /\ receipts' = receipts
    BY DEF WriteResolution, server
  <1>4. Conflict(m) /\ Known(m) /\ Issued(m)
    BY ReceiptType DEF WriteResolution, IInv, Bodies
  <1>5. row \in Mutation
    <2>1. receipts[m].rev \in Nat /\ receipts[m].canon \in FieldValue
      BY <1>4, ReceiptType DEF IInv
    <2>2. mut[m] \in Mutation
      BY <1>4, BodyType DEF IInv
    <2> QED  BY <1>1, <2>1, <2>2 DEF Mutation
  <1>6. Register!Make(r, row.dev, row.key, row.val)
    BY <1>2, <1>3, <1>5, MakeStep DEF IInv
  <1> QED  BY <1>5, <1>6 DEF Mutation

\* A step that leaves mutations, receipts and values alone is a stutter.
LEMMA Stutter ==
    ASSUME mut' = mut, canon' = canon, receipts' = receipts
    PROVE  UNCHANGED Register!vars
  BY DEF Register!vars, Issued

LEMMA NextRefines == IInv /\ [Next]_vars => [Register!Next]_(Register!vars)
  <1> SUFFICES ASSUME IInv, [Next]_vars
               PROVE  [Register!Next]_(Register!vars)
    OBVIOUS
  <1>1. ASSUME NEW t \in Tabs, TabStep(t)
        PROVE  [Register!Next]_(Register!vars)
    <2>1. CASE ServePush(t)
      <3>1. PICK refuse \in BOOLEAN : ServeMutation(req[t], refuse)
        BY <2>1 DEF ServePush
      <3>2. mut' = mut
        BY <2>1 DEF ServePush, device
      <3>3. \A i \in DOMAIN req[t].left : Issued(req[t].left[i])
        BY DEF IInv, TabOK, Own
      <3> QED  BY <3>1, <3>2, <3>3, TabType, ServeRefines DEF IInv
    <2>2. CASE ~ServePush(t)
      <3>1. mut' = mut /\ canon' = canon /\ receipts' = receipts
        BY <1>1, <2>2 DEF TabStep, StartSync, SendPush, ReceiveResults, PullSnapshot, ApplyPull, device, server
      <3> QED  BY <3>1, Stutter
    <2> QED  BY <2>1, <2>2
  <1>2. CASE UserStep
    <2>1. ASSUME NEW d \in Devices, NEW k \in Keys, NEW v \in FieldValue, QueueMutation(d, k, v)
          PROVE  Register!Next
      <3>1. PICK m \in Mutations : Register!Make(m, d, k, v)
        BY <2>1, QueueRefines
      <3> QED  BY <3>1 DEF Register!Next, Register!FieldValue, FieldValue
    <2>2. ASSUME NEW m \in Mutations, NEW keepLocal \in BOOLEAN, ChooseResolution(m, keepLocal)
          PROVE  UNCHANGED Register!vars
      <3>1. mut' = mut /\ canon' = canon /\ receipts' = receipts
        BY <2>2 DEF ChooseResolution, server
      <3> QED  BY <3>1, Stutter
    <2>3. ASSUME NEW m \in Mutations, NEW keepLocal \in BOOLEAN, WriteResolution(m, keepLocal)
          PROVE  Register!Next
      <3>1. PICK r \in Mutations, d \in Devices, k \in Keys, v \in FieldValue : Register!Make(r, d, k, v)
        BY <2>3, ResolveRefines
      <3> QED  BY <3>1 DEF Register!Next, Register!FieldValue, FieldValue
    <2>4. ASSUME NEW k \in Keys, NEW v \in FieldValue, OnlineWrite(k, v)
          PROVE  Register!Next
      <3>1. Register!OnlineWrite(k, v)
        BY <2>4, OnlineRefines DEF IInv
      <3> QED  BY <3>1 DEF Register!Next, Register!FieldValue, FieldValue
    <2> QED  BY <1>2, <2>1, <2>2, <2>3, <2>4 DEF UserStep
  <1>3. CASE FaultStep
    <2>1. ASSUME NEW t \in Tabs, AbortSync(t) \/ LoseRequest(t)
          PROVE  UNCHANGED Register!vars
      <3>1. mut' = mut /\ canon' = canon /\ receipts' = receipts
        BY <2>1 DEF AbortSync, LoseRequest, device, server
      <3> QED  BY <3>1, Stutter
    <2>2. ASSUME NEW q \in orphans, ServeOrphan(q)
          PROVE  [Register!Next]_(Register!vars)
      <3>1. PICK refuse \in BOOLEAN : ServeMutation(q, refuse)
        BY <2>2 DEF ServeOrphan
      <3>2. mut' = mut
        BY <2>2 DEF ServeOrphan, device
      <3>3. q \in Request /\ TypeOK /\ \A i \in DOMAIN q.left : Issued(q.left[i])
        BY DEF IInv, TypeOK, OrphanOK
      <3> QED  BY <3>1, <3>2, <3>3, ServeRefines
    <2> QED  BY <1>3, <2>1, <2>2 DEF FaultStep
  <1>4. CASE UNCHANGED vars
    BY <1>4, Stutter DEF vars, device, server
  <1> QED  BY <1>1, <1>2, <1>3, <1>4 DEF Next

LEMMA InitRefines == Init => Register!Init
  BY DEF Init, Register!Init, Issued, Undecided

\* Seen from outside, every edit is decided once and for good, and a field
\* changes only by an applied edit or an online write (service.push,
\* apply_sync_mutation), whatever is lost, aborted, replayed or pushed by two
\* tabs at once.
THEOREM Refinement == Spec => ImplementsRegister
  <1>1. Spec => Register!Spec
    BY Invariance, InitRefines, NextRefines, PTL DEF Spec, Register!Spec
  <1> QED  BY <1>1 DEF ImplementsRegister

-----------------------------------------------------------------------------
(* Drafts apply in order.  OrderInv says that what precedes a draft on its *)
(* way to the server is decided or travels ahead of it.                    *)

Ungated(m) == Draft(m) /\ mut[m].key \notin GatedKeys

\* y is an earlier draft of the same device for the field x edits.
Before(y, x) ==
    /\ Ungated(x) /\ Draft(y)
    /\ mut[y].dev = mut[x].dev /\ mut[y].key = mut[x].key
    /\ mut[y].seq < mut[x].seq

\* In list s every earlier draft comes first, unless it is decided or ahead.
InLine(s, ahead) ==
    \A i \in DOMAIN s, y \in Mutations :
        Before(y, s[i]) => \/ Known(y) \/ y \in ahead
                           \/ \E j \in DOMAIN s : j < i /\ s[j] = y

Numbered ==
    /\ \A m \in Mutations : Issued(m) => mut[m].seq <= seq[mut[m].dev]
    /\ \A m, n \in Mutations :
          Draft(m) /\ Draft(n) /\ mut[m].dev = mut[n].dev /\ mut[m].seq = mut[n].seq => m = n

Downward == \A x, y \in Mutations : Before(y, x) /\ Known(x) => Known(y)

Answered == \A m \in Mutations : Ungated(m) /\ outbox[m] # "pending" => Known(m)

TabInLine(t) ==
    /\ InLine(tab[t].todo, RangeOf(req[t].left))
    /\ InLine(req[t].left, {})
    /\ tab[t].pc # "wait" => req[t].left = <<>>
    /\ \A m \in req[t].rejected : Issued(m) /\ ~Ungated(m)

OrderInv ==
    /\ Numbered /\ Downward /\ Answered
    /\ \A t \in Tabs : TabInLine(t)
    /\ \A q \in orphans : InLine(q.left, {})

\* No draft gets behind an issued one: new drafts come last.
Late == \A x, y \in Mutations : Issued(x) /\ Before(y, x)' => Before(y, x)

LEMMA LateIfSame ==
    ASSUME mut' = mut
    PROVE  Late /\ \A m \in Mutations : /\ Ungated(m)' <=> Ungated(m)
                                        /\ Draft(m)' <=> Draft(m)
                                        /\ Issued(m)' <=> Issued(m)
  BY DEF Late, Before, Ungated, Draft, Issued

LEMMA LineKept ==
    ASSUME IInv, IInv', Frozen, Late, NEW s \in Seq(Mutations), NEW ahead,
           \A i \in DOMAIN s : Issued(s[i]), InLine(s, ahead)
    PROVE  InLine(s, ahead)'
  <1> SUFFICES ASSUME NEW i \in DOMAIN s, NEW y \in Mutations, Before(y, s[i])'
               PROVE  \/ Known(y)' \/ y \in ahead
                      \/ \E j \in DOMAIN s : j < i /\ s[j] = y
    BY DEF InLine
  <1>1. s[i] \in Mutations
    BY LenProperties, ElementOfSeq
  <1>2. Before(y, s[i])
    BY <1>1 DEF Late
  <1>3. Known(y) => Known(y)'
    BY Steady DEF IInv
  <1> QED  BY <1>2, <1>3 DEF InLine

LEMMA LineSame ==
    ASSUME UNCHANGED <<mut, receipts>>, NEW s, NEW ahead, InLine(s, ahead)
    PROVE  InLine(s, ahead)'
  BY DEF InLine, Before, Ungated, Draft, Issued, Known

LEMMA TabLineKept ==
    ASSUME IInv, IInv', Frozen, Late, NEW t \in Tabs, TabInLine(t),
           tab'[t] = tab[t], req'[t] = req[t]
    PROVE  TabInLine(t)'
  <1>1. PICK todo : todo = tab[t].todo
    OBVIOUS
  <1>2. PICK left : left = req[t].left
    OBVIOUS
  <1>3. /\ todo \in Seq(Mutations) /\ left \in Seq(Mutations)
        /\ \A i \in DOMAIN todo : Issued(todo[i])
        /\ \A i \in DOMAIN left : Issued(left[i])
    BY <1>1, <1>2, TabType, RequestType DEF IInv, TabOK, Own
  <1>4. InLine(todo, RangeOf(left)) /\ InLine(left, {})
    BY <1>1, <1>2 DEF TabInLine
  <1>5. InLine(todo, RangeOf(left))'
    <2>1. PICK ahead : ahead = RangeOf(left)
      OBVIOUS
    <2>2. InLine(todo, ahead)'
      BY <1>3, <1>4, <2>1, LineKept
    <2> QED  BY <2>1, <2>2 DEF InLine, RangeOf
  <1>6. InLine(left, {})'
    BY <1>3, <1>4, LineKept
  <1>7. ASSUME NEW m \in req[t].rejected
        PROVE  Issued(m)' /\ ~Ungated(m)'
    <2>1. m \in Mutations /\ ~Ungated(m) /\ Issued(m)
      BY TabType, RequestType DEF TabInLine, IInv
    <2> QED  BY <2>1 DEF Frozen, Ungated, Draft, Issued
  <1> QED  BY <1>1, <1>2, <1>5, <1>6, <1>7 DEF TabInLine, InLine

\* Steps that leave bodies, numbering, receipts and outbox alone.
LEMMA OrderKept ==
    ASSUME OrderInv, UNCHANGED <<mut, seq, receipts, outbox>>
    PROVE  Numbered' /\ Downward' /\ Answered'
  BY DEF OrderInv, Numbered, Downward, Answered, Before, Ungated, Draft, Issued, Known

LEMMA OrphanLinesKept ==
    ASSUME IInv, IInv', Frozen, Late, OrderInv, orphans' = orphans
    PROVE  \A q \in orphans' : InLine(q.left, {})'
  <1> SUFFICES ASSUME NEW q \in orphans
               PROVE  InLine(q.left, {})'
    OBVIOUS
  <1>1. q.left \in Seq(Mutations) /\ InLine(q.left, {}) /\ \A i \in DOMAIN q.left : Issued(q.left[i])
    BY RequestType DEF IInv, TypeOK, OrphanOK, OrderInv
  <1> QED  BY <1>1, LineKept

\* A step of the user on bodies and rows: messages stay as they are.
LEMMA MessagesKept ==
    ASSUME IInv, IInv', Frozen, Late, OrderInv, UNCHANGED <<tab, req, orphans>>
    PROVE  (\A t \in Tabs : TabInLine(t)') /\ (\A q \in orphans' : InLine(q.left, {})')
  BY TabLineKept, OrphanLinesKept DEF OrderInv

LEMMA QueueOrder ==
    ASSUME IInv, IInv', Frozen, OrderInv,
           NEW d \in Devices, NEW k \in Keys, NEW v \in FieldValue, QueueMutation(d, k, v)
    PROVE  OrderInv'
  <1>1. PICK row : row = [dev |-> d, key |-> k, val |-> v, base |-> BaseRevision(d, k),
                          seq |-> seq[d] + 1, resolves |-> None]
    OBVIOUS
  <1>2. PICK m \in Mutations :
          /\ ~Issued(m)
          /\ mut' = [mut EXCEPT ![m] = row]
          /\ outbox' = [outbox EXCEPT ![m] = "pending"]
    BY <1>1, Zenon DEF QueueMutation
  <1>3. /\ seq' = [seq EXCEPT ![d] = @ + 1]
        /\ UNCHANGED <<tab, req, orphans, receipts>>
    BY Zenon DEF QueueMutation, server
  <1>4. row.dev = d /\ row.key = k /\ row.seq = seq[d] + 1 /\ row.resolves = None
    BY <1>1
  <1>5. /\ mut'[m] = row /\ \A n \in Mutations : n # m => mut'[n] = mut[n]
        /\ outbox'[m] = "pending" /\ \A n \in Mutations : n # m => outbox'[n] = outbox[n]
        /\ seq'[d] = seq[d] + 1 /\ \A e \in Devices : e # d => seq'[e] = seq[e]
        /\ seq \in [Devices -> Nat]
    BY <1>2, <1>3 DEF IInv, TypeOK
  <1>6. \A n \in Mutations : Issued(n)' => n = m \/ Issued(n)
    BY <1>5 DEF Issued
  <1>7. \A n \in Mutations : Issued(n) => /\ mut[n].dev \in Devices /\ mut[n].seq \in Nat
                                         /\ mut[n].seq <= seq[mut[n].dev]
    BY BodyType DEF IInv, OrderInv, Numbered
  <1>8. /\ \A n \in Mutations : n # m => (Draft(n)' <=> Draft(n))
        /\ \A n \in Mutations : n # m => (Ungated(n)' <=> Ungated(n))
    BY <1>5 DEF Draft, Ungated, Issued
  <1>9. ASSUME NEW x \in Mutations, NEW y \in Mutations, Before(y, x)'
        PROVE  y # m /\ (x # m => Before(y, x))
    <2>1. Issued(x)' /\ mut'[y].dev = mut'[x].dev /\ mut'[y].seq < mut'[x].seq
      BY <1>9 DEF Before, Ungated, Draft
    <2>2. CASE y = m /\ x = m
      BY <1>4, <1>5, <2>1, <2>2
    <2>3. CASE y = m /\ x # m
      <3>1. Issued(x) /\ mut[x].dev = d /\ seq[d] + 1 < mut[x].seq
        BY <1>4, <1>5, <1>6, <2>1, <2>3
      <3> QED  BY <1>5, <1>7, <3>1
    <2>4. CASE y # m /\ x # m
      BY <1>5, <1>8, <1>9, <2>4 DEF Before
    <2> QED  BY <2>2, <2>3, <2>4
  <1>10. Late
    BY <1>2, <1>9 DEF Late
  <1>11. Numbered'
    <2>1. ASSUME NEW n \in Mutations, Issued(n)'
          PROVE  mut'[n].seq <= seq'[mut'[n].dev]
      <3>1. CASE n = m
        BY <1>4, <1>5, <3>1
      <3>2. CASE n # m
        BY <1>5, <1>6, <1>7, <2>1, <3>2
      <3> QED  BY <3>1, <3>2
    <2>2. ASSUME NEW x \in Mutations, NEW y \in Mutations, Draft(x)', Draft(y)',
                 mut'[x].dev = mut'[y].dev, mut'[x].seq = mut'[y].seq
          PROVE  x = y
      <3>1. \A n \in Mutations : n # m /\ Issued(n)' /\ mut'[n].dev = d => mut'[n].seq < seq[d] + 1
        BY <1>5, <1>6, <1>7
      <3>2. Issued(x)' /\ Issued(y)'
        BY <2>2 DEF Draft
      <3>3. CASE x # m /\ y # m
        BY <1>5, <1>8, <2>2, <3>3 DEF OrderInv, Numbered
      <3> QED  BY <1>4, <1>5, <2>2, <3>1, <3>2, <3>3
    <2> QED  BY <2>1, <2>2 DEF Numbered
  <1>12. \A n \in Mutations : Known(n)' <=> Known(n)
    BY <1>3 DEF Known
  <1>13. ~Known(m)
    BY <1>2 DEF IInv, Bodies
  <1>14. Downward'
    BY <1>9, <1>12, <1>13 DEF Downward, OrderInv
  <1>15. Answered'
    BY <1>5, <1>8, <1>12 DEF Answered, OrderInv
  <1> QED  BY <1>3, <1>10, <1>11, <1>14, <1>15, MessagesKept DEF OrderInv

LEMMA ResolveOrder ==
    ASSUME IInv, IInv', Frozen, OrderInv,
           NEW m \in Mutations, NEW keepLocal \in BOOLEAN, WriteResolution(m, keepLocal)
    PROVE  OrderInv'
  <1>1. PICK row : row = [mut[m] EXCEPT !.val = IF keepLocal THEN @ ELSE receipts[m].canon,
                                        !.base = receipts[m].rev,
                                        !.resolves = m]
    OBVIOUS
  <1>2. PICK r \in Mutations :
          /\ ~Issued(r)
          /\ mut' = [mut EXCEPT ![r] = row]
          /\ outbox' = [outbox EXCEPT ![m] = "retired", ![r] = "pending"]
    BY <1>1, Zenon DEF WriteResolution
  <1>3. <<m, keepLocal>> \in choices /\ UNCHANGED <<seq, tab, req, orphans, receipts>>
    BY Zenon DEF WriteResolution, server
  <1>4. Known(m) /\ Issued(m)
    BY <1>3, ReceiptType DEF IInv, Bodies
  <1>5. row.dev = mut[m].dev /\ row.seq = mut[m].seq /\ row.resolves = m /\ m # None
    <2>1. mut[m] \in Mutation
      BY <1>4, BodyType DEF IInv
    <2> QED  BY <1>1, <2>1, NoneFresh DEF Mutation
  <1>6. /\ mut'[r] = row /\ \A n \in Mutations : n # r => mut'[n] = mut[n]
        /\ outbox'[r] = "pending"
        /\ \A n \in Mutations : n # r /\ n # m => outbox'[n] = outbox[n]
    BY <1>2 DEF IInv, TypeOK
  <1>7. /\ ~Draft(r)'
        /\ \A n \in Mutations : n # r => (Draft(n)' <=> Draft(n))
        /\ \A n \in Mutations : n # r => (Ungated(n)' <=> Ungated(n))
        /\ \A n \in Mutations : n # r => (Issued(n)' <=> Issued(n))
    BY <1>5, <1>6 DEF Draft, Ungated, Issued
  <1>8. \A x, y \in Mutations : Before(y, x)' => Before(y, x)
    BY <1>6, <1>7 DEF Before, Ungated
  <1>9. Late
    BY <1>8 DEF Late
  <1>10. \A n \in Mutations : Known(n)' <=> Known(n)
    BY <1>3 DEF Known
  <1>11. Numbered'
    <2>1. ASSUME NEW n \in Mutations, Issued(n)'
          PROVE  mut'[n].seq <= seq'[mut'[n].dev]
      BY <1>3, <1>4, <1>5, <1>6, <1>7, <2>1 DEF OrderInv, Numbered
    <2>2. ASSUME NEW x \in Mutations, NEW y \in Mutations, Draft(x)', Draft(y)',
                 mut'[x].dev = mut'[y].dev, mut'[x].seq = mut'[y].seq
          PROVE  x = y
      BY <1>6, <1>7, <2>2 DEF OrderInv, Numbered
    <2> QED  BY <2>1, <2>2 DEF Numbered
  <1>12. Downward'
    BY <1>8, <1>10 DEF Downward, OrderInv
  <1>13. Answered'
    <2> SUFFICES ASSUME NEW n \in Mutations, Ungated(n)', outbox'[n] # "pending"
                 PROVE  Known(n)
      BY <1>10 DEF Answered
    <2>1. n # r
      BY <1>6
    <2> QED  BY <1>4, <1>6, <1>7, <2>1 DEF OrderInv, Answered
  <1> QED  BY <1>3, <1>9, <1>11, <1>12, <1>13, MessagesKept DEF OrderInv

LEMMA StartOrder ==
    ASSUME IInv, IInv', Frozen, OrderInv, NEW t \in Tabs, StartSync(t)
    PROVE  OrderInv'
  <1>1. PICK s \in InSequence(PendingOf(DeviceOf[t])) : tab' = [tab EXCEPT ![t].pc = "push", ![t].todo = s]
    BY DEF StartSync
  <1>2. /\ tab[t].pc = "idle"
        /\ UNCHANGED <<mut, outbox, seq, req, orphans, receipts>>
    BY DEF StartSync, device, server
  <1>3. TypeOK /\ TabInLine(t) /\ Late
    BY <1>2, LateIfSame DEF IInv, OrderInv
  <1>4. /\ tab'[t].todo = s /\ tab'[t].pc = "push"
        /\ \A u \in Tabs : u # t => tab'[u] = tab[u]
    BY <1>1, <1>3, TabType DEF TypeOK
  <1>5. /\ s \in Seq(Mutations)
        /\ \A i \in DOMAIN s : s[i] \in PendingOf(DeviceOf[t])
        /\ \A m \in PendingOf(DeviceOf[t]) : \E i \in DOMAIN s : s[i] = m
        /\ \A i, j \in DOMAIN s : i < j => mut[s[i]].seq <= mut[s[j]].seq
    <2>1. PendingOf(DeviceOf[t]) \in SUBSET Mutations
      BY DEF PendingOf
    <2> QED  BY <2>1, Listed
  <1>6. InLine(s, RangeOf(req[t].left))
    <2> SUFFICES ASSUME NEW i \in DOMAIN s, NEW y \in Mutations, Before(y, s[i]), ~Known(y)
                 PROVE  \E j \in DOMAIN s : j < i /\ s[j] = y
      BY DEF InLine
    <2>1. s[i] \in Mutations /\ mut[s[i]].dev = DeviceOf[t] /\ outbox[s[i]] = "pending"
      BY <1>5 DEF PendingOf
    <2>2. Ungated(y) /\ Issued(s[i]) /\ Issued(y) /\ mut[y].dev = DeviceOf[t] /\ mut[y].seq < mut[s[i]].seq
      BY <2>1 DEF Before, Ungated, Draft
    <2>3. y \in PendingOf(DeviceOf[t])
      BY <2>2 DEF OrderInv, Answered, PendingOf
    <2>4. PICK j \in DOMAIN s : s[j] = y
      BY <1>5, <2>3
    <2>5. mut[y].seq \in Nat /\ mut[s[i]].seq \in Nat
      BY <1>3, <2>1, <2>2, BodyType
    <2>6. i \in Nat /\ j \in Nat
      BY <1>5, LenProperties
    <2>7. ~(i < j) /\ i # j
      BY <1>5, <2>2, <2>4, <2>5
    <2> QED  BY <2>4, <2>6, <2>7
  <1>7. TabInLine(t)'
    BY <1>2, <1>3, <1>4, <1>6 DEF TabInLine, InLine, Before, Ungated, Draft, Issued, Known, RangeOf
  <1>8. \A u \in Tabs : u # t => TabInLine(u)'
    BY <1>2, <1>3, <1>4, TabLineKept DEF OrderInv
  <1> QED  BY <1>2, <1>3, <1>7, <1>8, OrderKept, OrphanLinesKept DEF OrderInv

LEMMA SendOrder ==
    ASSUME IInv, IInv', Frozen, OrderInv, NEW t \in Tabs, SendPush(t)
    PROVE  OrderInv'
  <1>1. PICK todo : todo = tab[t].todo
    OBVIOUS
  <1>2. PICK batch : batch = Batch(todo)
    OBVIOUS
  <1>3. PICK rest : rest = Rest(todo)
    OBVIOUS
  <1>4. PICK q : q = [left |-> batch, sent |-> batch, rejected |-> {},
                      last |-> LastApplied(DeviceOf[t], Predecessors(DeviceOf[t], batch))]
    OBVIOUS
  <1>5. /\ tab[t].pc = "push"
        /\ tab' = [tab EXCEPT ![t].pc = "wait", ![t].todo = rest]
        /\ req' = [req EXCEPT ![t] = q]
        /\ UNCHANGED <<mut, outbox, seq, orphans, receipts>>
    BY <1>1, <1>2, <1>3, <1>4, Zenon DEF SendPush, device, server
  <1>6. TypeOK /\ TabInLine(t) /\ Late /\ todo \in Seq(Mutations)
    BY <1>1, <1>5, LateIfSame, TabType DEF IInv, OrderInv
  <1>7. /\ tab'[t].todo = rest /\ tab'[t].pc = "wait"
        /\ \A u \in Tabs : u # t => tab'[u] = tab[u]
        /\ req'[t] = q /\ \A u \in Tabs : u # t => req'[u] = req[u]
    BY <1>5, <1>6, TabType DEF TypeOK
  <1>8. /\ \A i \in DOMAIN batch : i \in DOMAIN todo /\ batch[i] = todo[i]
        /\ \A i \in DOMAIN rest : i + BatchSize \in DOMAIN todo /\ rest[i] = todo[i + BatchSize]
        /\ \A i \in DOMAIN todo : i \in DOMAIN batch
                                  \/ (i - BatchSize \in DOMAIN rest /\ i > BatchSize)
        /\ \A i \in DOMAIN batch : i \in Nat \ {0} /\ i <= BatchSize
    BY <1>2, <1>3, <1>6, Batches
  <1>9. DOMAIN todo \subseteq Nat /\ DOMAIN rest \subseteq Nat /\ BatchSize \in Nat
    <2>1. rest \in Seq(Mutations)
      BY <1>3, <1>6, Batches
    <2> QED  BY <1>6, <2>1, BatchSizeType, LenProperties
  <1>10. \A i \in DOMAIN todo, y \in Mutations :
           Before(y, todo[i]) => Known(y) \/ \E j \in DOMAIN todo : j < i /\ todo[j] = y
    <2>1. req[t].left = <<>>
      BY <1>5, <1>6 DEF TabInLine
    <2>2. RangeOf(req[t].left) = {}
      BY <2>1, EmptySeq DEF RangeOf
    <2> QED  BY <1>1, <1>6, <2>2 DEF TabInLine, InLine
  <1>11. InLine(batch, {})
    <2> SUFFICES ASSUME NEW i \in DOMAIN batch, NEW y \in Mutations, Before(y, batch[i]), ~Known(y)
                 PROVE  \E j \in DOMAIN batch : j < i /\ batch[j] = y
      BY DEF InLine
    <2>1. PICK j \in DOMAIN todo : j < i /\ todo[j] = y
      BY <1>8, <1>10
    <2>2. j \in DOMAIN batch
      BY <1>8, <1>9, <2>1
    <2> QED  BY <1>8, <2>1, <2>2
  <1>12. InLine(rest, RangeOf(batch))
    <2> SUFFICES ASSUME NEW i \in DOMAIN rest, NEW y \in Mutations, Before(y, rest[i]), ~Known(y)
                 PROVE  y \in RangeOf(batch) \/ \E j \in DOMAIN rest : j < i /\ rest[j] = y
      BY DEF InLine
    <2>1. PICK j \in DOMAIN todo : j < i + BatchSize /\ todo[j] = y
      BY <1>8, <1>10
    <2>2. CASE j \in DOMAIN batch
      BY <1>8, <2>1, <2>2 DEF RangeOf
    <2>3. CASE j - BatchSize \in DOMAIN rest /\ j > BatchSize
      <3>1. PICK l : l = j - BatchSize
        OBVIOUS
      <3>2. l \in DOMAIN rest /\ l + BatchSize = j /\ l < i
        BY <1>9, <2>1, <2>3, <3>1
      <3>3. rest[l] = y
        BY <1>8, <2>1, <3>2
      <3> QED  BY <3>2, <3>3
    <2> QED  BY <1>8, <2>2, <2>3
  <1>13. q.left = batch /\ q.rejected = {}
    BY <1>4
  <1>14. TabInLine(t)'
    <2>1. PICK ahead : ahead = RangeOf(batch)
      OBVIOUS
    <2>2. InLine(batch, {})' /\ InLine(rest, ahead)'
      BY <1>5, <1>11, <1>12, <2>1, LineSame
    <2> QED  BY <1>7, <1>13, <2>1, <2>2 DEF TabInLine, InLine, RangeOf
  <1>15. \A u \in Tabs : u # t => TabInLine(u)'
    BY <1>6, <1>7, TabLineKept DEF OrderInv
  <1> QED  BY <1>5, <1>6, <1>14, <1>15, OrderKept, OrphanLinesKept DEF OrderInv

\* Serving the head of a list keeps what follows in line.
LEMMA ServeInLine ==
    ASSUME IInv, IInv', Frozen, OrderInv, NEW q \in Request, NEW refuse \in BOOLEAN,
           \A i \in DOMAIN q.left : Issued(q.left[i]), InLine(q.left, {}),
           ServeMutation(q, refuse), UNCHANGED <<mut, outbox, seq>>
    PROVE  /\ Numbered' /\ Downward' /\ Answered' /\ Late
           /\ InLine(Tail(q.left), {})'
           /\ Issued(Head(q.left))
           /\ refuse => ~Ungated(Head(q.left))
           /\ \A y \in RangeOf(q.left) : Ungated(y) => Known(y)' \/ y \in RangeOf(Tail(q.left))
  <1>1. PICK m : m = Head(q.left)
    OBVIOUS
  <1>2. PICK rest : rest = Tail(q.left)
    OBVIOUS
  <1>3. /\ q.left # <<>> /\ m \in Mutations /\ Issued(m) /\ TypeOK
        /\ \A n \in Mutations : n # m => receipts'[n] = receipts[n]
        /\ ~refuse => receipts'[m] \in Receipt
    BY <1>1, Serving DEF IInv
  <1>4. refuse => ~Ungated(m)
    <2>1. refuse => MayBeRejected(m) \/ ~ResolutionAccepted(m)
      BY <1>1, Zenon DEF ServeMutation
    <2> QED  BY <2>1 DEF MayBeRejected, ResolutionAccepted, Ungated, Draft
  <1>5. ~refuse => Known(m)'
    BY <1>3, Shapes DEF Known
  <1>6. /\ q.left \in Seq(Mutations) /\ rest \in Seq(Mutations)
        /\ DOMAIN q.left = 1..Len(q.left) /\ DOMAIN rest = 1..Len(rest)
        /\ Len(q.left) \in Nat /\ Len(rest) = Len(q.left) - 1
        /\ \A i \in 1..Len(rest) : rest[i] = q.left[i + 1]
        /\ 1 \in 1..Len(q.left) /\ q.left[1] = m
    BY <1>1, <1>2, <1>3, RequestType, LenProperties, HeadTailProperties, EmptySeq
  <1>7. Late /\ \A x, y \in Mutations : Before(y, x)' => Before(y, x)
    BY LateIfSame DEF Before, Ungated, Draft, Issued
  <1>8. \A n \in Mutations : Known(n) => Known(n)'
    BY Steady DEF IInv
  <1>9. \A n \in Mutations : Known(n)' => Known(n) \/ n = m
    BY <1>3 DEF Known
  <1>10. \A x, y \in Mutations : Before(y, x) => Ungated(y)
    BY DEF Before, Ungated
  <1>11. \A y \in Mutations : Before(y, m) => Known(y)
    <2>1. \A j \in DOMAIN q.left : ~(j < 1)
      BY <1>6
    <2>2. 1 \in DOMAIN q.left
      BY <1>6
    <2> QED  BY <1>6, <2>1, <2>2 DEF InLine
  <1>12. Downward'
    BY <1>7, <1>8, <1>9, <1>11 DEF Downward, OrderInv
  <1>13. Numbered'
    BY DEF Numbered, OrderInv, Draft, Issued
  <1>14. Answered'
    BY <1>8 DEF Answered, OrderInv, Ungated, Draft, Issued
  <1>15. InLine(rest, {})'
    <2> SUFFICES ASSUME NEW i \in 1..Len(rest), NEW y \in Mutations, Before(y, rest[i])', ~Known(y)'
                 PROVE  \E j \in 1..Len(rest) : j < i /\ rest[j] = y
      BY <1>6 DEF InLine
    <2>1. i + 1 \in DOMAIN q.left /\ rest[i] = q.left[i + 1] /\ rest[i] \in Mutations
      BY <1>6, ElementOfSeq
    <2>2. Before(y, q.left[i + 1]) /\ ~Known(y) /\ Ungated(y)
      BY <1>7, <1>8, <1>10, <2>1
    <2>3. PICK j \in DOMAIN q.left : j < i + 1 /\ q.left[j] = y
      BY <2>1, <2>2 DEF InLine
    <2>4. j # 1
      BY <1>4, <1>5, <1>6, <2>2, <2>3
    <2>5. j - 1 \in 1..Len(rest) /\ j - 1 < i /\ rest[j - 1] = y
      BY <1>6, <2>3, <2>4
    <2> QED  BY <2>5
  <1>16. ASSUME NEW y \in RangeOf(q.left), Ungated(y)
         PROVE  Known(y)' \/ y \in RangeOf(rest)
    <2>1. PICK i \in 1..Len(q.left) : q.left[i] = y
      BY <1>6 DEF RangeOf
    <2>2. CASE i = 1
      BY <1>4, <1>5, <1>6, <1>16, <2>1, <2>2
    <2>3. CASE i # 1
      <3>1. i - 1 \in 1..Len(rest) /\ rest[i - 1] = y
        BY <1>6, <2>1, <2>3
      <3> QED  BY <1>6, <3>1 DEF RangeOf
    <2> QED  BY <2>2, <2>3
  <1> QED  BY <1>1, <1>2, <1>3, <1>4, <1>7, <1>12, <1>13, <1>14, <1>15, <1>16

LEMMA ServeOrder ==
    ASSUME IInv, IInv', Frozen, OrderInv, NEW t \in Tabs, ServePush(t)
    PROVE  OrderInv'
  <1>1. PICK refuse \in BOOLEAN : ServeMutation(req[t], refuse) /\ req' = [req EXCEPT ![t] = Served(@, refuse)]
    BY DEF ServePush
  <1>2. tab[t].pc = "wait" /\ UNCHANGED <<mut, outbox, seq, tab, orphans>>
    BY DEF ServePush, device
  <1>3. PICK q : q = req[t]
    OBVIOUS
  <1>4. PICK p : p = Served(q, refuse)
    OBVIOUS
  <1>5. PICK rest : rest = Tail(q.left)
    OBVIOUS
  <1>6. /\ TypeOK /\ TabInLine(t) /\ q \in Request
        /\ \A i \in DOMAIN q.left : Issued(q.left[i])
        /\ ServeMutation(q, refuse) /\ InLine(q.left, {})
    BY <1>1, <1>3, TabType DEF IInv, TabOK, Own, OrderInv, TabInLine
  <1>7. /\ Numbered' /\ Downward' /\ Answered' /\ Late
        /\ InLine(rest, {})'
        /\ Issued(Head(q.left))
        /\ refuse => ~Ungated(Head(q.left))
        /\ \A y \in RangeOf(q.left) : Ungated(y) => Known(y)' \/ y \in RangeOf(rest)
    BY <1>2, <1>5, <1>6, ServeInLine
  <1>8. /\ p.left = rest
        /\ p.rejected = q.rejected \cup (IF refuse THEN {Head(q.left)} ELSE {})
    <2>1. q.left # <<>>
      BY <1>6 DEF ServeMutation
    <2>2. receipts' \in [Mutations -> Receipt \cup {Undecided}]
      BY DEF IInv, TypeOK
    <2> QED  BY <1>2, <1>4, <1>5, <1>6, <2>1, <2>2, ServedRequest
  <1>9. req'[t] = p /\ \A u \in Tabs : u # t => req'[u] = req[u]
    BY <1>1, <1>3, <1>4, <1>6 DEF TypeOK
  <1>10. PICK todo : todo = tab[t].todo
    OBVIOUS
  <1>11. InLine(todo, RangeOf(rest))'
    <2>0. todo \in Seq(Mutations)
      BY <1>6, <1>10, TabType
    <2> SUFFICES ASSUME NEW i \in DOMAIN todo, NEW y \in Mutations, Before(y, todo[i])', ~Known(y)',
                        ~\E j \in DOMAIN todo : j < i /\ todo[j] = y
                 PROVE  y \in RangeOf(rest)
      BY DEF InLine, RangeOf
    <2>1. Before(y, todo[i]) /\ Ungated(y)
      BY <1>2 DEF Before, Ungated, Draft, Issued
    <2>2. ~Known(y)
      BY <1>6, Steady DEF IInv
    <2>3. y \in RangeOf(q.left)
      BY <1>3, <1>6, <1>10, <2>1, <2>2 DEF TabInLine, InLine
    <2> QED  BY <1>7, <2>1, <2>3
  <1>12. \A m \in p.rejected : Issued(m)' /\ ~Ungated(m)'
    <2>1. \A m \in p.rejected : Issued(m) /\ ~Ungated(m)
      BY <1>3, <1>6, <1>7, <1>8 DEF TabInLine
    <2> QED  BY <1>2, <2>1 DEF Issued, Ungated, Draft
  <1>13. TabInLine(t)'
    BY <1>2, <1>7, <1>8, <1>9, <1>10, <1>11, <1>12 DEF TabInLine, InLine, RangeOf
  <1>14. \A u \in Tabs : u # t => TabInLine(u)'
    BY <1>2, <1>7, <1>9, TabLineKept DEF OrderInv
  <1> QED  BY <1>2, <1>7, <1>13, <1>14, OrphanLinesKept DEF OrderInv

LEMMA OrphanOrder ==
    ASSUME IInv, IInv', Frozen, OrderInv, NEW q \in orphans, ServeOrphan(q)
    PROVE  OrderInv'
  <1>1. PICK refuse \in BOOLEAN :
          /\ ServeMutation(q, refuse)
          /\ orphans' = (orphans \ {q}) \cup
                (IF Len(q.left) = 1 THEN {} ELSE {Served(q, refuse)})
    BY DEF ServeOrphan
  <1>2. UNCHANGED <<mut, outbox, seq, tab, req>>
    BY DEF ServeOrphan, device
  <1>3. PICK rest : rest = Tail(q.left)
    OBVIOUS
  <1>4. /\ q \in Request /\ InLine(q.left, {})
        /\ \A i \in DOMAIN q.left : Issued(q.left[i])
    BY DEF IInv, TypeOK, OrphanOK, OrderInv
  <1>5. /\ Numbered' /\ Downward' /\ Answered' /\ Late
        /\ InLine(rest, {})'
    BY <1>1, <1>2, <1>3, <1>4, ServeInLine
  <1>6. PICK p : p = Served(q, refuse)
    OBVIOUS
  <1>7. p.left = rest
    <2>1. q.left # <<>>
      BY <1>1 DEF ServeMutation
    <2>2. receipts' \in [Mutations -> Receipt \cup {Undecided}]
      BY DEF IInv, TypeOK
    <2> QED  BY <1>2, <1>3, <1>4, <1>6, <2>1, <2>2, ServedRequest
  <1>8. ASSUME NEW r \in orphans'
        PROVE  InLine(r.left, {})'
    <2>1. CASE r \in orphans
      <3>1. r.left \in Seq(Mutations) /\ InLine(r.left, {}) /\ \A i \in DOMAIN r.left : Issued(r.left[i])
        BY <2>1, RequestType DEF IInv, TypeOK, OrphanOK, OrderInv
      <3> QED  BY <1>5, <3>1, LineKept
    <2>2. CASE r = p
      BY <1>5, <1>7, <2>2 DEF InLine
    <2> QED  BY <1>1, <1>6, <2>1, <2>2
  <1>9. \A t \in Tabs : TabInLine(t)'
    BY <1>2, <1>5, TabLineKept DEF OrderInv
  <1> QED  BY <1>5, <1>8, <1>9 DEF OrderInv

LEMMA ReceiveOrder ==
    ASSUME IInv, IInv', Frozen, OrderInv, NEW t \in Tabs, ReceiveResults(t)
    PROVE  OrderInv'
  <1>1. PICK rows : rows = {m \in RangeOf(req[t].sent) : outbox[m] # "retired"}
    OBVIOUS
  <1>2. /\ req[t].left = <<>>
        /\ outbox' = [m \in Mutations |-> IF m \in rows THEN RowAfter(t, m) ELSE outbox[m]]
        /\ tab' = [tab EXCEPT ![t].pc = "push"]
        /\ req' = [req EXCEPT ![t] = NoRequest]
        /\ UNCHANGED <<mut, seq, orphans, receipts>>
    BY <1>1, Zenon DEF ReceiveResults, server
  <1>3. TypeOK /\ TabInLine(t) /\ Late
    BY <1>2, LateIfSame DEF IInv, OrderInv
  <1>4. /\ tab'[t].todo = tab[t].todo
        /\ \A u \in Tabs : u # t => tab'[u] = tab[u]
        /\ req'[t] = NoRequest /\ \A u \in Tabs : u # t => req'[u] = req[u]
    BY <1>2, <1>3, TabType DEF TypeOK
  <1>5. Numbered' /\ Downward'
    BY <1>2 DEF OrderInv, Numbered, Downward, Before, Ungated, Draft, Issued, Known
  <1>6. Answered'
    <2> SUFFICES ASSUME NEW m \in Mutations, Ungated(m), outbox'[m] # "pending"
                 PROVE  Known(m)
      BY <1>2 DEF Answered, Ungated, Draft, Issued, Known
    <2>1. CASE m \in rows
      <3>1. m \in RangeOf(req[t].sent) /\ m \notin req[t].rejected
        BY <1>1, <1>3, <2>1 DEF TabInLine
      <3>2. m \notin RangeOf(req[t].left)
        BY <1>2, EmptySeq DEF RangeOf
      <3> QED  BY <3>1, <3>2 DEF IInv, TabOK, Accounted
    <2>2. CASE m \notin rows
      BY <1>2, <2>2 DEF OrderInv, Answered
    <2> QED  BY <2>1, <2>2
  <1>7. PICK todo : todo = tab[t].todo
    OBVIOUS
  <1>8. InLine(todo, {})'
    <2>1. RangeOf(req[t].left) = {}
      BY <1>2, EmptySeq DEF RangeOf
    <2>2. InLine(todo, {})
      BY <1>3, <1>7, <2>1 DEF TabInLine
    <2> QED  BY <1>2, <2>2, LineSame
  <1>9. TabInLine(t)'
    <2>1. NoRequest.left = <<>> /\ NoRequest.rejected = {}
      BY DEF NoRequest
    <2>2. DOMAIN NoRequest.left = {} /\ RangeOf(NoRequest.left) = {}
      BY <2>1, EmptySeq DEF RangeOf
    <2> QED  BY <1>4, <1>7, <1>8, <2>1, <2>2 DEF TabInLine, InLine, RangeOf
  <1>10. \A u \in Tabs : u # t => TabInLine(u)'
    BY <1>3, <1>4, TabLineKept DEF OrderInv
  <1> QED  BY <1>2, <1>3, <1>5, <1>6, <1>9, <1>10, OrphanLinesKept DEF OrderInv

\* A tab that forgets its list, with its request or without one.
LEMMA IdleOrder ==
    ASSUME IInv, IInv', Frozen, OrderInv, NEW t \in Tabs,
           tab' = [tab EXCEPT ![t] = Idle],
           req' = [req EXCEPT ![t] = NoRequest] \/ (req' = req /\ tab[t].pc # "wait"),
           UNCHANGED <<mut, outbox, seq, receipts>>
    PROVE  /\ Numbered' /\ Downward' /\ Answered' /\ Late
           /\ \A u \in Tabs : TabInLine(u)'
  <1>1. TypeOK /\ TabInLine(t) /\ Late
    BY LateIfSame DEF IInv, OrderInv
  <1>2. tab'[t] = Idle /\ \A u \in Tabs : u # t => tab'[u] = tab[u] /\ req'[u] = req[u]
    BY <1>1 DEF TypeOK
  <1>3. req'[t].left = <<>> /\ \A m \in req'[t].rejected : Issued(m) /\ ~Ungated(m)
    BY <1>1 DEF TypeOK, NoRequest, TabInLine
  <1>4. DOMAIN <<>> = {}
    BY EmptySeq
  <1>5. tab'[t].todo = <<>> /\ tab'[t].pc = "idle"
    BY <1>2 DEF Idle
  <1>6. TabInLine(t)'
    BY <1>3, <1>4, <1>5 DEF TabInLine, InLine, Issued, Ungated, Draft
  <1>7. \A u \in Tabs : u # t => TabInLine(u)'
    BY <1>1, <1>2, TabLineKept DEF OrderInv
  <1> QED  BY <1>1, <1>6, <1>7, OrderKept

LEMMA PullOrder ==
    ASSUME IInv, IInv', Frozen, OrderInv, NEW t \in Tabs, PullSnapshot(t)
    PROVE  OrderInv'
  <1>1. PICK snap : snap = [k \in Keys |-> [val |-> canon[k].val, rev |-> canon[k].rev]]
    OBVIOUS
  <1>2. PICK w : w = [tab[t] EXCEPT !.pc = "pulled", !.snap = snap]
    OBVIOUS
  <1>3. /\ tab' = [tab EXCEPT ![t] = w]
        /\ tab[t].pc = "push"
        /\ UNCHANGED <<mut, outbox, seq, req, orphans, receipts>>
    BY <1>1, <1>2, Zenon DEF PullSnapshot, device, server
  <1>4. TypeOK /\ TabInLine(t) /\ Late
    BY <1>3, LateIfSame DEF IInv, OrderInv
  <1>5. w.todo = tab[t].todo /\ w.pc = "pulled"
    BY <1>2, <1>4, TabType
  <1>6. tab'[t] = w /\ \A u \in Tabs : u # t => tab'[u] = tab[u]
    BY <1>3, <1>4 DEF TypeOK
  <1>7. TabInLine(t)'
    BY <1>3, <1>4, <1>5, <1>6 DEF TabInLine, InLine, Before, Ungated, Draft, Issued, Known, RangeOf
  <1>8. \A u \in Tabs : u # t => TabInLine(u)'
    BY <1>3, <1>4, <1>6, TabLineKept DEF OrderInv
  <1> QED  BY <1>3, <1>4, <1>7, <1>8, OrderKept, OrphanLinesKept DEF OrderInv

LEMMA ApplyOrder ==
    ASSUME IInv, IInv', Frozen, OrderInv, NEW t \in Tabs, ApplyPull(t)
    PROVE  OrderInv'
  <1>1. /\ tab' = [tab EXCEPT ![t] = Idle]
        /\ tab[t].pc # "wait"
        /\ UNCHANGED <<mut, outbox, seq, req, orphans, receipts>>
    BY Zenon DEF ApplyPull, server
  <1>2. /\ Numbered' /\ Downward' /\ Answered' /\ Late
        /\ \A u \in Tabs : TabInLine(u)'
    BY <1>1, IdleOrder
  <1> QED  BY <1>1, <1>2, OrphanLinesKept DEF OrderInv

LEMMA LoseOrder ==
    ASSUME IInv, IInv', Frozen, OrderInv, NEW t \in Tabs, LoseRequest(t)
    PROVE  OrderInv'
  <1>1. /\ tab' = [tab EXCEPT ![t] = Idle]
        /\ req' = [req EXCEPT ![t] = NoRequest]
        /\ UNCHANGED <<mut, outbox, seq, orphans, receipts>>
    BY DEF LoseRequest, device, server
  <1>2. /\ Numbered' /\ Downward' /\ Answered' /\ Late
        /\ \A u \in Tabs : TabInLine(u)'
    BY <1>1, IdleOrder
  <1> QED  BY <1>1, <1>2, OrphanLinesKept DEF OrderInv

LEMMA AbortOrder ==
    ASSUME IInv, IInv', Frozen, OrderInv, NEW t \in Tabs, AbortSync(t)
    PROVE  OrderInv'
  <1>1. /\ tab' = [tab EXCEPT ![t] = Idle]
        /\ req' = [req EXCEPT ![t] = NoRequest]
        /\ orphans' \subseteq orphans \cup {req[t]}
        /\ UNCHANGED <<mut, outbox, seq, receipts>>
    BY DEF AbortSync, device, server
  <1>2. /\ Numbered' /\ Downward' /\ Answered' /\ Late
        /\ \A u \in Tabs : TabInLine(u)'
    BY <1>1, IdleOrder
  <1>3. ASSUME NEW q \in orphans'
        PROVE  InLine(q.left, {})'
    <2>1. InLine(q.left, {})
      BY <1>1 DEF OrderInv, TabInLine
    <2> QED  BY <1>1, <2>1, LineSame
  <1> QED  BY <1>2, <1>3 DEF OrderInv

\* Steps that leave bodies, rows, receipts and messages alone.
LEMMA QuietOrder ==
    ASSUME IInv, IInv', Frozen, OrderInv,
           UNCHANGED <<mut, outbox, seq, receipts, tab, req, orphans>>
    PROVE  OrderInv'
  <1>1. Late
    BY LateIfSame
  <1>2. Numbered' /\ Downward' /\ Answered'
    BY OrderKept
  <1> QED  BY <1>1, <1>2, MessagesKept DEF OrderInv

LEMMA InitOrder == Init => OrderInv
  <1> SUFFICES ASSUME Init
               PROVE  OrderInv
    OBVIOUS
  <1>1. \A m \in Mutations : ~Issued(m)
    BY DEF Init, Issued
  <1>2. Numbered /\ Downward /\ Answered
    BY <1>1 DEF Numbered, Downward, Answered, Before, Ungated, Draft
  <1>3. DOMAIN <<>> = {}
    BY EmptySeq
  <1>4. ASSUME NEW t \in Tabs
        PROVE  TabInLine(t)
    <2>1. tab[t].todo = <<>> /\ req[t].left = <<>> /\ req[t].rejected = {}
      BY DEF Init, Idle, NoRequest
    <2> QED  BY <1>3, <2>1 DEF TabInLine, InLine
  <1>5. orphans = {}
    BY DEF Init
  <1> QED  BY <1>2, <1>4, <1>5 DEF OrderInv

LEMMA NextOrder == IInv /\ OrderInv /\ [Next]_vars => OrderInv'
  <1> SUFFICES ASSUME IInv, OrderInv, [Next]_vars
               PROVE  OrderInv'
    OBVIOUS
  <1>1. IInv' /\ Frozen
    BY NextIInv
  <1>2. ASSUME NEW t \in Tabs, TabStep(t)
        PROVE  OrderInv'
    BY <1>1, <1>2, StartOrder, SendOrder, ServeOrder, ReceiveOrder, PullOrder, ApplyOrder DEF TabStep
  <1>3. CASE UserStep
    <2>1. ASSUME NEW d \in Devices, NEW k \in Keys, NEW v \in FieldValue, QueueMutation(d, k, v)
          PROVE  OrderInv'
      BY <1>1, <2>1, QueueOrder
    <2>2. ASSUME NEW m \in Mutations, NEW keepLocal \in BOOLEAN, ChooseResolution(m, keepLocal)
          PROVE  OrderInv'
      BY <1>1, <2>2, QuietOrder DEF ChooseResolution, server
    <2>3. ASSUME NEW m \in Mutations, NEW keepLocal \in BOOLEAN, WriteResolution(m, keepLocal)
          PROVE  OrderInv'
      BY <1>1, <2>3, ResolveOrder
    <2>4. ASSUME NEW k \in Keys, NEW v \in FieldValue, OnlineWrite(k, v)
          PROVE  OrderInv'
      BY <1>1, <2>4, QuietOrder DEF OnlineWrite, device
    <2> QED  BY <1>3, <2>1, <2>2, <2>3, <2>4 DEF UserStep
  <1>4. CASE FaultStep
    BY <1>1, <1>4, AbortOrder, LoseOrder, OrphanOrder DEF FaultStep
  <1>5. CASE UNCHANGED vars
    BY <1>1, <1>5, QuietOrder DEF vars, device, server
  <1> QED  BY <1>2, <1>3, <1>4, <1>5 DEF Next

\* What precedes a draft on its way to the server is decided or ahead of it.
THEOREM Ordering == Spec => [](IInv /\ OrderInv)
  BY InitIInv, NextIInv, InitOrder, NextOrder, PTL DEF Spec

\* No applied draft is at or behind an undecided one.
LEMMA AppliedBefore ==
    ASSUME IInv, OrderInv,
           NEW m \in Mutations, receipts[m] = Undecided, Draft(m), mut[m].key \notin GatedKeys,
           NEW n \in Mutations, Draft(n), Applied(n),
           mut[n].dev = mut[m].dev, mut[n].key = mut[m].key
    PROVE  mut[n].seq < mut[m].seq
  <1>1. Known(n) /\ ~Known(m) /\ n # m
    BY Shapes DEF Known, Applied
  <1>2. mut[n].seq \in Nat /\ mut[m].seq \in Nat
    BY BodyType DEF IInv, Draft
  <1>3. mut[n].seq # mut[m].seq
    BY <1>1 DEF OrderInv, Numbered
  <1>4. ~(mut[m].seq < mut[n].seq)
    BY <1>1 DEF OrderInv, Downward, Before, Ungated
  <1> QED  BY <1>2, <1>3, <1>4

\* The drafts a device made for one field take effect in that order, unless
\* the review gate may refuse them.
THEOREM DraftsInOrder == Spec => DraftsApplyInOrder
  <1>1. IInv /\ OrderInv =>
          \A m \in Mutations :
            (receipts[m] = Undecided /\ Applied(m)' /\ Draft(m) /\ mut[m].key \notin GatedKeys) =>
              \A n \in Mutations :
                (Draft(n) /\ Applied(n) /\ mut[n].dev = mut[m].dev /\ mut[n].key = mut[m].key)
                    => mut[n].seq < mut[m].seq
    BY AppliedBefore
  <1> QED  BY <1>1, Ordering, PTL DEF DraftsApplyInOrder


-----------------------------------------------------------------------------
(* Foreign edits surface.  SeenInv says of each revision that may be the   *)
(* base of a write - of a queued edit, of a request's last_applied, of the *)
(* papers on display - that the value it covers has surfaced, shown to the *)
(* device's user or named by the conflict of one of the device's edits, or *)
(* that an undecided edit will be decided first; its decision makes the    *)
(* value surface, for it meets a conflict or writes what the value is.     *)

\* One tab only edits the field, and the review gate cannot refuse it.
Free(d, k) == k \notin GatedKeys /\ Alone(d)

\* The user was shown revision r of the field, or a conflict named it.
Surfaced(d, k, r) ==
    \/ r <= shown[d][k]
    \/ \E c \in Mutations : Conflict(c) /\ mut[c].dev = d /\ mut[c].key = k /\ r <= receipts[c].rev

\* No foreign value, or one that has surfaced.
Seen(d, k) == canon[k].by # d /\ canon[k].rev > 0 => Surfaced(d, k, canon[k].rev)

\* A write based on x overwrites no foreign value that has not surfaced.
Vouched(d, k, x) == x <= revision /\ (Free(d, k) /\ canon[k].rev <= x => Seen(d, k))

Open(n, d, k) == Issued(n) /\ ~Known(n) /\ mut[n].dev = d /\ mut[n].key = k

\* Where m is in list s, n comes before it or is ahead of the list.
Leads(n, m, s, ahead) ==
    \A i \in DOMAIN s : s[i] = m => n \in ahead \/ \E j \in DOMAIN s : j < i /\ s[j] = n

\* Wherever m travels, n is decided before it.
Leading(t, n, m) ==
    Leads(n, m, tab[t].todo, RangeOf(req[t].left)) /\ Leads(n, m, req[t].left, {})

Precedes(n, m) ==
    (\A t \in Tabs : Leading(t, n, m)) /\ \A q \in orphans : Leads(n, m, q.left, {})

\* The undecided edit n reaches the server before m does.
Blocks(n, m) ==
    /\ Open(n, mut[m].dev, mut[m].key)
    /\ mut[n].seq < mut[m].seq
    /\ Precedes(n, m)

\* A resolution is an edit of its conflict's field, based on what it named.
Resolutions ==
    \A r, c \in Mutations : Issued(r) /\ mut[r].resolves = c =>
        /\ Conflict(c) /\ mut[c].dev = mut[r].dev /\ mut[c].key = mut[r].key
        /\ mut[r].base = receipts[c].rev

\* Only the gate refuses mutations.
Refusals(t) == \A m \in req[t].rejected : Issued(m) /\ mut[m].key \in GatedKeys

\* Edits the gate cannot refuse stay pending until they are decided.
Replied ==
    /\ \A m \in Mutations : Issued(m) /\ mut[m].key \notin GatedKeys /\ outbox[m] # "pending" => Known(m)
    /\ \A t \in Tabs : Refusals(t)

\* A tab has a list while it pushes and a request while it waits.
Phase(t) ==
    /\ tab[t].pc # "wait" => req[t] = NoRequest
    /\ tab[t].pc \in {"idle", "pulled"} => tab[t].todo = <<>>
    /\ RangeOf(req[t].left) \subseteq RangeOf(req[t].sent)

Unsent(m) == ~Known(m) /\ \A q \in orphans : m \notin RangeOf(q.left)

\* What a lone tab will not answer in this sync was never sent.
Placed(t) ==
    tab[t].pc # "idle" /\ Alone(DeviceOf[t]) =>
        \A m \in PendingOf(DeviceOf[t]) : mut[m].key \notin GatedKeys =>
            m \in RangeOf(tab[t].todo) \/ m \in RangeOf(req[t].sent) \/ Unsent(m)

Pulled(t) == \A k \in Keys : tab[t].snap[k].rev <= revision

RequestVouched(d, q) == Own(d, q.left) /\ \A k \in Keys : Vouched(d, k, q.last[k])

EditVouched(m) ==
    /\ mut[m].base <= revision
    /\ Vouched(mut[m].dev, mut[m].key, mut[m].base) \/ \E n \in Mutations : Blocks(n, m)

PaperVouched(d, k) ==
    /\ paper[d][k].rev <= revision
    /\ Vouched(d, k, paper[d][k].rev) \/ \E n \in Mutations : Open(n, d, k)

SeenInv ==
    /\ Resolutions /\ Replied
    /\ \A t \in Tabs : Phase(t) /\ Placed(t)
    /\ \A k \in Keys : canon[k].rev <= revision
    /\ \A t \in Tabs : Pulled(t)
    /\ \A m \in Mutations : Known(m) => Vouched(mut[m].dev, mut[m].key, receipts[m].rev)
    /\ \A t \in Tabs : RequestVouched(DeviceOf[t], req[t])
    /\ \A q \in orphans : \E d \in Devices : RequestVouched(d, q)
    /\ \A m \in Mutations : Issued(m) /\ ~Known(m) => EditVouched(m)
    /\ \A d \in Devices, k \in Keys : PaperVouched(d, k)

\* What the values, the revisions and the history of a device may do.
Grows ==
    /\ revision <= revision'
    /\ \A k \in Keys : canon'[k] = canon[k] \/ (canon'[k].rev > revision /\ canon'[k].rev <= revision')
    /\ \A d \in Devices, k \in Keys : shown[d][k] <= shown'[d][k]

LEMMA StillGrows ==
    ASSUME TypeOK, UNCHANGED <<canon, revision, shown>>
    PROVE  Grows
  BY DEF Grows, TypeOK

LEMMA WriteGrows ==
    ASSUME TypeOK, NEW k \in Keys, NEW v \in FieldValue, NEW who, WriteValue(k, v, who), shown' = shown
    PROVE  Grows
  <1>1. revision \in Nat /\ shown \in [Devices -> [Keys -> Nat]]
    BY DEF TypeOK
  <1>2. canon'[k] = Written(k, v, who) /\ \A j \in Keys : j # k => canon'[j] = canon[j]
    BY DEF WriteValue, TypeOK
  <1>3. CASE canon[k].val = v
    <2>1. revision' = revision /\ canon'[k] = canon[k]
      BY <1>2, <1>3 DEF WriteValue, Written
    <2> QED  BY <1>1, <1>2, <2>1 DEF Grows
  <1>4. CASE canon[k].val # v
    <2>1. revision' = revision + 1 /\ canon'[k].rev = revision + 1
      BY <1>2, <1>4 DEF WriteValue, Written
    <2> QED  BY <1>1, <1>2, <2>1 DEF Grows
  <1> QED  BY <1>3, <1>4

LEMMA ServeGrows ==
    ASSUME TypeOK, NEW q \in Request, NEW refuse \in BOOLEAN,
           \A i \in DOMAIN q.left : Issued(q.left[i]),
           ServeMutation(q, refuse), UNCHANGED <<mut, shown>>
    PROVE  Grows
  <1>1. PICK m : m = Head(q.left)
    OBVIOUS
  <1>2. m \in Mutations /\ Issued(m)
    BY <1>1, Serving
  <1>3. CASE UNCHANGED server
    BY <1>3, StillGrows DEF server
  <1>4. CASE Decide(m, q.last)
    <2>1. mut[m].key \in Keys /\ mut[m].val \in FieldValue
      BY <1>2, BodyType
    <2>2. CASE Overtaken(m, q.last)
      BY <1>4, <2>2, StillGrows DEF Decide
    <2>3. CASE ~Overtaken(m, q.last)
      <3>1. WriteValue(mut[m].key, mut[m].val, mut[m].dev)
        BY <1>4, <2>3 DEF Decide
      <3> QED  BY <2>1, <3>1, WriteGrows
    <2> QED  BY <2>2, <2>3
  <1> QED  BY <1>1, <1>3, <1>4, Zenon DEF ServeMutation

LEMMA ApplyGrows ==
    ASSUME IInv, NEW t \in Tabs, ApplyPull(t)
    PROVE  Grows
  <1>1. PICK d : d = DeviceOf[t]
    OBVIOUS
  <1>2. PICK snap : snap = tab[t].snap
    OBVIOUS
  <1>3. TypeOK /\ d \in Devices /\ snap \in Snapshot
    BY <1>1, <1>2, TabType DEF IInv
  <1>4. PICK seen : seen = [k \in Keys |-> IF PendingOn(d, k) = {} THEN Larger(shown[d][k], snap[k].rev)
                                                                ELSE shown[d][k]]
    OBVIOUS
  <1>5. shown' = [shown EXCEPT ![d] = seen] /\ UNCHANGED <<canon, revision>>
    BY <1>1, <1>2, <1>4, Zenon DEF ApplyPull, server
  <1>6. \A k \in Keys : snap[k].rev \in Nat /\ shown[d][k] \in Nat
    BY <1>3 DEF TypeOK, Snapshot
  <1>7. \A k \in Keys : shown[d][k] <= seen[k]
    BY <1>4, <1>6 DEF Larger
  <1> QED  BY <1>3, <1>5, <1>6, <1>7 DEF Grows, TypeOK

LEMMA NextGrows ==
    ASSUME IInv, [Next]_vars
    PROVE  Grows
  <1>1. TypeOK
    BY DEF IInv
  <1>2. ASSUME UNCHANGED <<server, shown>> PROVE Grows
    BY <1>1, <1>2, StillGrows DEF server
  <1>3. ASSUME NEW t \in Tabs, ServePush(t) PROVE Grows
    <2>1. \E refuse \in BOOLEAN : ServeMutation(req[t], refuse)
      BY <1>3 DEF ServePush
    <2>2. req[t] \in Request /\ \A i \in DOMAIN req[t].left : Issued(req[t].left[i])
      BY <1>1, TabType DEF IInv, TabOK, Own
    <2>3. UNCHANGED <<mut, shown>>
      BY <1>3 DEF ServePush, device
    <2> QED  BY <1>1, <2>1, <2>2, <2>3, ServeGrows
  <1>4. ASSUME NEW q \in orphans, ServeOrphan(q) PROVE Grows
    <2>1. \E refuse \in BOOLEAN : ServeMutation(q, refuse)
      BY <1>4 DEF ServeOrphan
    <2>2. q \in Request /\ \A i \in DOMAIN q.left : Issued(q.left[i])
      BY <1>1 DEF IInv, TypeOK, OrphanOK
    <2>3. UNCHANGED <<mut, shown>>
      BY <1>4 DEF ServeOrphan, device
    <2> QED  BY <1>1, <2>1, <2>2, <2>3, ServeGrows
  <1>5. ASSUME NEW t \in Tabs, TabStep(t) PROVE Grows
    BY <1>2, <1>3, <1>5, ApplyGrows DEF TabStep, StartSync, SendPush, ReceiveResults, PullSnapshot
  <1>6. CASE UserStep
    <2>1. ASSUME NEW k \in Keys, NEW v \in FieldValue, OnlineWrite(k, v) PROVE Grows
      BY <1>1, <2>1, WriteGrows DEF OnlineWrite
    <2> QED  BY <1>2, <1>6, <2>1 DEF UserStep, QueueMutation, ChooseResolution, WriteResolution
  <1>7. CASE FaultStep
    BY <1>2, <1>4, <1>7 DEF FaultStep, AbortSync, LoseRequest
  <1>8. CASE UNCHANGED vars
    BY <1>2, <1>8 DEF vars
  <1> QED  BY <1>5, <1>6, <1>7, <1>8 DEF Next

\* What a decision leaves behind.
Decides ==
    \A m \in Mutations : ~Known(m) /\ Known(m)' =>
        /\ Issued(m) /\ receipts'[m].rev <= revision'
        /\ \A d \in Devices, k \in Keys :
              mut[m].dev = d /\ mut[m].key = k /\ Free(d, k) => Seen(d, k)'

\* What every step from a state of the invariant does.
Sound == IInv /\ IInv' /\ Frozen /\ Grows /\ Decides /\ SeenInv

-----------------------------------------------------------------------------
(* What every sound step keeps.                                            *)

LEMMA SeenKept ==
    ASSUME Sound, NEW d \in Devices, NEW k \in Keys, Seen(d, k), canon'[k] = canon[k]
    PROVE  Seen(d, k)'
  <1>1. TypeOK /\ TypeOK'
    BY DEF Sound, IInv
  <1>2. PICK r \in Nat : r = canon[k].rev
    BY <1>1 DEF TypeOK
  <1>3. canon'[k].rev = r /\ canon'[k].by = canon[k].by
    BY <1>2
  <1> SUFFICES ASSUME canon[k].by # d, r > 0
               PROVE  Surfaced(d, k, r)'
    BY <1>3 DEF Seen, Surfaced
  <1>4. Surfaced(d, k, r)
    BY <1>2 DEF Seen
  <1>5. CASE r <= shown[d][k]
    <2>1. shown[d][k] \in Nat /\ shown'[d][k] \in Nat /\ shown[d][k] <= shown'[d][k]
      BY <1>1 DEF TypeOK, Grows, Sound
    <2> QED  BY <1>5, <2>1 DEF Surfaced
  <1>6. ASSUME NEW c \in Mutations, Conflict(c), mut[c].dev = d, mut[c].key = k, r <= receipts[c].rev
        PROVE  Surfaced(d, k, r)'
    <2>1. Known(c) /\ Issued(c)
      BY <1>1, <1>6, ReceiptType DEF IInv, Bodies, Sound
    <2>2. Conflict(c)' /\ mut'[c] = mut[c] /\ receipts'[c] = receipts[c]
      BY <1>1, <1>6, <2>1, Steady DEF Sound
    <2> QED  BY <1>6, <2>2 DEF Surfaced
  <1> QED  BY <1>4, <1>5, <1>6 DEF Surfaced

\* What has surfaced stays so, and a later value has a later revision.
LEMMA VouchedKept ==
    ASSUME Sound, NEW d \in Devices, NEW k \in Keys, NEW x \in Nat, Vouched(d, k, x)
    PROVE  Vouched(d, k, x)'
  <1>1. TypeOK /\ TypeOK' /\ revision \in Nat /\ revision' \in Nat /\ canon'[k].rev \in Nat
    BY DEF Sound, IInv, TypeOK
  <1>2. x <= revision /\ x <= revision'
    BY <1>1 DEF Vouched, Grows, Sound
  <1> SUFFICES ASSUME Free(d, k), canon'[k].rev <= x
               PROVE  Seen(d, k)'
    BY <1>2 DEF Vouched, Free, Alone
  <1>3. canon'[k] = canon[k]
    BY <1>1, <1>2 DEF Grows, Sound
  <1> QED  BY <1>3, SeenKept DEF Vouched

LEMMA SeenVouches ==
    ASSUME NEW d, NEW k, NEW x, x <= revision, Free(d, k) => Seen(d, k)
    PROVE  Vouched(d, k, x)
  BY DEF Vouched

LEMMA CanonBound ==
    ASSUME Sound
    PROVE  \A k \in Keys : canon'[k].rev <= revision'
  <1>1. TypeOK /\ TypeOK' /\ revision \in Nat /\ revision' \in Nat
    BY DEF Sound, IInv, TypeOK
  <1>2. \A k \in Keys : canon'[k].rev \in Nat /\ canon[k].rev \in Nat
    BY <1>1 DEF TypeOK
  <1> QED  BY <1>1, <1>2 DEF Sound, SeenInv, Grows

LEMMA ReceiptsVouched ==
    ASSUME Sound
    PROVE  \A m \in Mutations : Known(m)' => Vouched(mut[m].dev, mut[m].key, receipts[m].rev)'
  <1> SUFFICES ASSUME NEW m \in Mutations, Known(m)'
               PROVE  Vouched(mut[m].dev, mut[m].key, receipts[m].rev)'
    OBVIOUS
  <1>1. TypeOK /\ TypeOK' /\ Issued(m)
    BY DEF Sound, IInv, Bodies, Decides
  <1>2. PICK d \in Devices : d = mut[m].dev
    BY <1>1, BodyType
  <1>3. PICK k \in Keys : k = mut[m].key
    BY <1>1, BodyType
  <1>4. mut'[m].dev = d /\ mut'[m].key = k
    BY <1>1, <1>2, <1>3, Steady DEF Sound
  <1>5. CASE Known(m)
    <2>1. PICK x \in Nat : x = receipts[m].rev
      BY <1>1, <1>5, ReceiptType
    <2>2. Vouched(d, k, x)
      BY <1>2, <1>3, <1>5, <2>1 DEF Sound, SeenInv
    <2>3. Vouched(d, k, x)' /\ receipts'[m].rev = x
      BY <1>1, <1>5, <2>1, <2>2, VouchedKept, Steady DEF Sound
    <2> QED  BY <1>4, <2>3 DEF Vouched, Seen, Surfaced
  <1>6. CASE ~Known(m)
    <2>1. receipts'[m].rev <= revision' /\ (Free(d, k) => Seen(d, k)')
      BY <1>2, <1>3, <1>6 DEF Sound, Decides
    <2> QED  BY <1>4, <2>1 DEF Vouched, Seen, Surfaced, Free, Alone
  <1> QED  BY <1>5, <1>6

LEMMA RequestKept ==
    ASSUME Sound, NEW d \in Devices, NEW q \in Request, RequestVouched(d, q)
    PROVE  RequestVouched(d, q)'
  <1>1. Own(d, q.left)'
    <2>1. PICK s \in Seq(Mutations) : s = q.left
      BY RequestType
    <2>2. Own(d, s)'
      BY <2>1, OwnKept DEF Sound, IInv, RequestVouched
    <2> QED  BY <2>1, <2>2
  <1>2. ASSUME NEW k \in Keys PROVE Vouched(d, k, q.last[k])'
    <2>1. PICK x \in Nat : x = q.last[k]
      BY RequestType
    <2>2. Vouched(d, k, x)
      BY <2>1 DEF RequestVouched
    <2>3. Vouched(d, k, x)'
      BY <2>2, VouchedKept
    <2> QED  BY <2>1, <2>3
  <1> QED  BY <1>1, <1>2 DEF RequestVouched

LEMMA NothingVouched ==
    ASSUME TypeOK, NEW d \in Devices
    PROVE  RequestVouched(d, NoRequest)
  <1>1. ASSUME NEW k \in Keys PROVE Vouched(d, k, 0)
    <2>1. canon[k].rev \in Nat /\ revision \in Nat
      BY DEF TypeOK
    <2>2. canon[k].rev <= 0 => Seen(d, k)
      BY <2>1 DEF Seen
    <2> QED  BY <2>1, <2>2 DEF Vouched
  <1>2. Own(d, <<>>)
    BY DEF Own
  <1> QED  BY <1>1, <1>2 DEF RequestVouched, NoRequest

\* An edit that was undecided is decided now, or still open.
LEMMA OpenKept ==
    ASSUME Sound, NEW d \in Devices, NEW k \in Keys, NEW n \in Mutations, Open(n, d, k)
    PROVE  Open(n, d, k)' \/ (Known(n)' /\ (Free(d, k) => Seen(d, k)'))
  <1>1. Issued(n)' /\ mut'[n] = mut[n]
    BY Steady DEF Sound, IInv, Open
  <1> QED  BY <1>1 DEF Open, Sound, Decides

LEMMA PaperKept ==
    ASSUME Sound, NEW d \in Devices, NEW k \in Keys, paper'[d][k].rev = paper[d][k].rev
    PROVE  PaperVouched(d, k)'
  <1>1. PICK x \in Nat : x = paper[d][k].rev
    BY DEF Sound, IInv, TypeOK, Snapshot
  <1>2. x <= revision /\ revision \in Nat /\ revision' \in Nat /\ revision <= revision'
    BY <1>1 DEF Sound, SeenInv, PaperVouched, Grows, IInv, TypeOK
  <1>3. CASE Vouched(d, k, x)
    <2>1. Vouched(d, k, x)'
      BY <1>3, VouchedKept
    <2> QED  BY <1>1, <1>2, <2>1 DEF PaperVouched
  <1>4. ASSUME NEW n \in Mutations, Open(n, d, k) PROVE PaperVouched(d, k)'
    <2>1. CASE Open(n, d, k)'
      BY <1>1, <1>2, <2>1 DEF PaperVouched
    <2>2. CASE Free(d, k) => Seen(d, k)'
      BY <1>1, <1>2, <2>2 DEF PaperVouched, Vouched, Free, Alone
    <2> QED  BY <1>4, <2>1, <2>2, OpenKept
  <1> QED  BY <1>1, <1>3, <1>4 DEF Sound, SeenInv, PaperVouched

\* An undecided edit stays vouched for if what precedes it in messages goes on
\* doing so; only edits the gate cannot refuse need that.
LEMMA EditKept ==
    ASSUME Sound, NEW m \in Mutations, Issued(m), ~Known(m)',
           \A n \in Mutations : Blocks(n, m) /\ ~Known(n)' /\ mut[m].key \notin GatedKeys
                                => Precedes(n, m)'
    PROVE  EditVouched(m)'
  <1>1. TypeOK /\ TypeOK' /\ ~Known(m)
    BY Steady DEF Sound, IInv
  <1>2. PICK d \in Devices : d = mut[m].dev
    BY <1>1, BodyType
  <1>3. PICK k \in Keys : k = mut[m].key
    BY <1>1, BodyType
  <1>4. PICK x \in Nat : x = mut[m].base
    BY <1>1, BodyType
  <1>5. mut'[m] = mut[m]
    BY <1>1, Steady DEF Sound
  <1>6. x <= revision /\ x <= revision'
    <2>1. x <= revision /\ revision <= revision'
      BY <1>1, <1>4 DEF Sound, SeenInv, EditVouched, Grows
    <2> QED  BY <2>1, <1>1 DEF TypeOK
  <1>7. SUFFICES Vouched(d, k, x)' \/ \E n \in Mutations : Blocks(n, m)'
    BY <1>2, <1>3, <1>4, <1>5, <1>6 DEF EditVouched, Vouched, Seen, Surfaced
  <1>8. CASE Vouched(d, k, x)
    BY <1>8, VouchedKept
  <1>9. ASSUME NEW n \in Mutations, Blocks(n, m)
        PROVE  Vouched(d, k, x)' \/ Blocks(n, m)'
    <2>1. Open(n, d, k)
      BY <1>2, <1>3, <1>9 DEF Blocks
    <2>2. CASE Free(d, k) => Seen(d, k)'
      BY <1>6, <2>2 DEF Vouched, Free, Alone
    <2>3. CASE ~(Free(d, k) => Seen(d, k)')
      <3>1. Open(n, d, k)' /\ ~Known(n)'
        BY <2>1, <2>3, OpenKept DEF Open
      <3>2. Precedes(n, m)'
        BY <1>3, <1>9, <2>3, <3>1 DEF Free
      <3>3. mut'[n] = mut[n]
        BY <1>1, <2>1, Steady DEF Sound, Open
      <3> QED  BY <1>2, <1>3, <1>5, <1>9, <3>1, <3>2, <3>3 DEF Blocks, Open
    <2> QED  BY <2>2, <2>3
  <1> QED  BY <1>1, <1>2, <1>3, <1>4, <1>8, <1>9 DEF Sound, SeenInv, EditVouched

\* A tab the step leaves alone.
LEMMA TabSame ==
    ASSUME Sound, NEW u \in Tabs, tab'[u] = tab[u], req'[u] = req[u],
           \A m \in Mutations : outbox'[m] = "pending" => outbox[m] = "pending" \/ Unsent(m)',
           \A m \in Mutations : Issued(m) /\ mut[m].dev = DeviceOf[u] /\ Alone(DeviceOf[u])
                                /\ Unsent(m) => Unsent(m)'
    PROVE  /\ Phase(u)' /\ Placed(u)' /\ Refusals(u)' /\ Pulled(u)'
           /\ RequestVouched(DeviceOf[u], req[u])'
           /\ \A n, m \in Mutations : Leading(u, n, m) => Leading(u, n, m)'
  <1>1. TypeOK /\ TypeOK' /\ Bodies /\ req[u] \in Request /\ tab[u].snap \in Snapshot
    BY TabType DEF Sound, IInv
  <1>2. Phase(u)'
    BY DEF Sound, SeenInv, Phase
  <1>3. Placed(u)'
    <2> SUFFICES ASSUME tab[u].pc # "idle", Alone(DeviceOf[u]),
                        NEW m \in Mutations, outbox'[m] = "pending", mut'[m].dev = DeviceOf[u],
                        mut'[m].key \notin GatedKeys, ~Unsent(m)'
                 PROVE  m \in RangeOf(tab[u].todo) \/ m \in RangeOf(req[u].sent)
      BY DEF Placed, PendingOf, Alone
    <2>1. outbox[m] = "pending" /\ Issued(m)
      BY <1>1 DEF Bodies
    <2>2. mut'[m] = mut[m]
      BY <1>1, <2>1, Steady DEF Sound
    <2>3. ~Unsent(m)
      BY <2>1, <2>2
    <2> QED  BY <2>1, <2>2, <2>3 DEF Sound, SeenInv, Placed, PendingOf
  <1>4. Refusals(u)'
    <2> SUFFICES ASSUME NEW m \in req[u].rejected
                 PROVE  Issued(m)' /\ mut'[m].key \in GatedKeys
      BY DEF Refusals
    <2>1. m \in Mutations /\ Issued(m) /\ mut[m].key \in GatedKeys
      BY <1>1, RequestType DEF Sound, SeenInv, Replied, Refusals
    <2> QED  BY <1>1, <2>1, Steady DEF Sound
  <1>5. Pulled(u)'
    <2>1. revision \in Nat /\ revision' \in Nat /\ revision <= revision'
      BY <1>1 DEF TypeOK, Sound, Grows
    <2>2. \A k \in Keys : tab[u].snap[k].rev \in Nat /\ tab[u].snap[k].rev <= revision
      BY <1>1 DEF Sound, SeenInv, Pulled, Snapshot
    <2> QED  BY <2>1, <2>2 DEF Pulled
  <1>6. RequestVouched(DeviceOf[u], req[u])'
    <2>1. PICK q \in Request : q = req[u]
      BY <1>1
    <2>2. PICK d \in Devices : d = DeviceOf[u]
      BY DeviceOfType
    <2>3. RequestVouched(d, q)'
      BY <2>1, <2>2, RequestKept DEF Sound, SeenInv
    <2> QED  BY <2>1, <2>2, <2>3 DEF RequestVouched, Own, Vouched, Seen, Surfaced
  <1>7. ASSUME NEW n \in Mutations, NEW m \in Mutations, Leading(u, n, m)
        PROVE  Leading(u, n, m)'
    BY <1>7 DEF Leading, Leads, RangeOf
  <1> QED  BY <1>2, <1>3, <1>4, <1>5, <1>6, <1>7

LEMMA ResolutionsKept ==
    ASSUME Sound, NEW r \in Mutations, NEW c \in Mutations, Issued(r), mut[r].resolves = c
    PROVE  /\ Conflict(c)' /\ mut'[c].dev = mut'[r].dev /\ mut'[c].key = mut'[r].key
           /\ mut'[r].base = receipts'[c].rev
  <1>1. TypeOK /\ TypeOK'
    BY DEF Sound, IInv
  <1>2. Conflict(c) /\ mut[c].dev = mut[r].dev /\ mut[c].key = mut[r].key /\ mut[r].base = receipts[c].rev
    BY DEF Sound, SeenInv, Resolutions
  <1>3. Known(c) /\ Issued(c)
    BY <1>1, <1>2, ReceiptType DEF Sound, IInv, Bodies
  <1>4. Conflict(c)' /\ receipts'[c] = receipts[c] /\ mut'[c] = mut[c] /\ mut'[r] = mut[r]
    BY <1>1, <1>2, <1>3, Steady DEF Sound
  <1> QED  BY <1>2, <1>4

\* The invariant, once the messages, rows and papers of the step are settled.
LEMMA SeenAgain ==
    ASSUME Sound, Resolutions', Replied',
           \A t \in Tabs : Phase(t)' /\ Placed(t)' /\ Pulled(t)',
           \A t \in Tabs : RequestVouched(DeviceOf[t], req[t])',
           \A q \in orphans' : \E d \in Devices : RequestVouched(d, q)',
           \A m \in Mutations : Issued(m)' /\ ~Known(m)' => EditVouched(m)',
           \A d \in Devices, k \in Keys : PaperVouched(d, k)'
    PROVE  SeenInv'
  BY CanonBound, ReceiptsVouched DEF SeenInv

LEMMA OrphansVouched ==
    ASSUME Sound, NEW q \in orphans
    PROVE  \E d \in Devices : RequestVouched(d, q)'
  <1>1. q \in Request
    BY DEF Sound, IInv, TypeOK
  <1>2. PICK d \in Devices : RequestVouched(d, q)
    BY DEF Sound, SeenInv
  <1> QED  BY <1>1, <1>2, RequestKept

\* A step of tab t, or of none, that issues nothing.
LEMMA QuietSeen ==
    ASSUME Sound, mut' = mut, NEW T \in SUBSET Tabs,
           \A u \in Tabs \ T : tab'[u] = tab[u] /\ req'[u] = req[u],
           \A m \in Mutations : outbox'[m] = "pending" => outbox[m] = "pending",
           \A m \in Mutations : outbox[m] = "pending" /\ outbox'[m] # "pending"
                                /\ mut[m].key \notin GatedKeys => Known(m),
           \A m \in Mutations : Unsent(m) => Unsent(m)' \/ \E t \in T : mut[m].dev = DeviceOf[t],
           \A t \in T : /\ Refusals(t)' /\ Phase(t)' /\ Placed(t)' /\ Pulled(t)'
                        /\ RequestVouched(DeviceOf[t], req[t])',
           \A q \in orphans' \ orphans : \E d \in Devices : RequestVouched(d, q)',
           \A n, m \in Mutations : Blocks(n, m) /\ ~Known(n)' /\ mut[m].key \notin GatedKeys =>
               /\ \A t \in T : Leading(t, n, m)'
               /\ \A q \in orphans' \ orphans : Leads(n, m, q.left, {}),
           \A d \in Devices, k \in Keys : PaperVouched(d, k)'
    PROVE  SeenInv'
  <1>1. TypeOK /\ TypeOK' /\ Bodies
    BY DEF Sound, IInv
  <1>2. ASSUME NEW u \in Tabs \ T
        PROVE  /\ Phase(u)' /\ Placed(u)' /\ Refusals(u)' /\ Pulled(u)'
               /\ RequestVouched(DeviceOf[u], req[u])'
               /\ \A n, m \in Mutations : Leading(u, n, m) => Leading(u, n, m)'
    <2>1. \A m \in Mutations : mut[m].dev = DeviceOf[u] /\ Alone(DeviceOf[u]) /\ Unsent(m) => Unsent(m)'
      BY <1>2 DEF Alone
    <2> QED  BY <1>2, <2>1, TabSame
  <1>3. Replied'
    <2>1. ASSUME NEW m \in Mutations, Issued(m)', mut'[m].key \notin GatedKeys, outbox'[m] # "pending"
          PROVE  Known(m)'
      <3>1. Issued(m) /\ Known(m)
        BY <2>1 DEF Sound, SeenInv, Replied, Issued
      <3> QED  BY <1>1, <3>1, Steady DEF Sound
    <2>2. \A t \in Tabs : Refusals(t)'
      BY <1>2
    <2> QED  BY <2>1, <2>2 DEF Replied
  <1>4. ASSUME NEW m \in Mutations, Issued(m)', ~Known(m)'
        PROVE  EditVouched(m)'
    <2>1. Issued(m)
      BY <1>4 DEF Issued
    <2>2. ASSUME NEW n \in Mutations, Blocks(n, m), ~Known(n)', mut[m].key \notin GatedKeys
          PROVE  Precedes(n, m)'
      <3>1. ASSUME NEW u \in Tabs PROVE Leading(u, n, m)'
        BY <1>2, <2>2 DEF Blocks, Precedes
      <3>2. ASSUME NEW q \in orphans' PROVE Leads(n, m, q.left, {})
        BY <2>2, <3>2 DEF Blocks, Precedes
      <3> QED  BY <3>1, <3>2 DEF Precedes, Leads
    <2> QED  BY <1>4, <2>1, <2>2, EditKept
  <1>5. \A t \in Tabs : Phase(t)' /\ Placed(t)' /\ Pulled(t)' /\ RequestVouched(DeviceOf[t], req[t])'
    BY <1>2
  <1>6. \A q \in orphans' : \E d \in Devices : RequestVouched(d, q)'
    BY OrphansVouched
  <1>7. Resolutions'
    BY ResolutionsKept DEF Resolutions, Issued
  <1> QED  BY <1>3, <1>4, <1>5, <1>6, <1>7, SeenAgain

-----------------------------------------------------------------------------
(* The server's decision.                                                  *)

\* A decided edit replaces no foreign value that has not surfaced.
Regards(m) ==
    LET d == mut[m].dev
        k == mut[m].key
    IN  Applied(m)' /\ Free(d, k) /\ canon'[k] # canon[k] /\ canon[k].rev > 0 /\ canon[k].by # d
            => Surfaced(d, k, canon[k].rev)

\* The base a mutation nobody precedes is compared with.
LEMMA BaseVouched ==
    ASSUME IInv, SeenInv, NEW q \in Request, NEW d \in Devices, RequestVouched(d, q),
           NEW m \in Mutations, Issued(m), ~Known(m), mut[m].dev = d,
           \A n \in Mutations : ~Blocks(n, m)
    PROVE  EffectiveBase(m, q.last) \in Nat /\ Vouched(d, mut[m].key, EffectiveBase(m, q.last))
  <1>1. PICK k \in Keys : k = mut[m].key
    BY BodyType DEF IInv
  <1>2. PICK x \in Nat : x = mut[m].base
    BY BodyType DEF IInv
  <1>3. PICK y \in Nat : y = q.last[k]
    BY RequestType
  <1>4. Vouched(d, k, x)
    BY <1>1, <1>2 DEF SeenInv, EditVouched
  <1>5. Vouched(d, k, y)
    BY <1>3 DEF RequestVouched
  <1>6. EffectiveBase(m, q.last) \in {x, y}
    BY <1>1, <1>2, <1>3 DEF EffectiveBase, Larger
  <1> QED  BY <1>1, <1>4, <1>5, <1>6

LEMMA DecisionSeen ==
    ASSUME IInv, SeenInv, NEW q \in Request, NEW d \in Devices, NEW refuse \in BOOLEAN,
           RequestVouched(d, q), ServeMutation(q, refuse), UNCHANGED <<mut, shown>>,
           \A n \in Mutations : ~Blocks(n, Head(q.left))
    PROVE  /\ Decides
           /\ \A m \in Mutations : ~Known(m) => Regards(m)
  <1>1. TypeOK /\ \A i \in DOMAIN q.left : Issued(q.left[i])
    BY DEF IInv, RequestVouched, Own
  <1>2. PICK m : m = Head(q.left)
    OBVIOUS
  <1>3. /\ m \in Mutations /\ Issued(m) /\ Frozen
        /\ \A n \in Mutations : n # m => receipts'[n] = receipts[n]
        /\ receipts' \in [Mutations -> Receipt \cup {Undecided}]
    BY <1>1, <1>2, Serving
  <1>4. mut[m].dev = d
    <2>1. q.left # <<>> /\ q.left \in Seq(Mutations)
      BY <1>1, Serving, RequestType
    <2>2. m = q.left[1] /\ 1 \in DOMAIN q.left
      BY <1>2, <2>1, HeadTailProperties, LenProperties, EmptySeq
    <2> QED  BY <2>2 DEF RequestVouched, Own
  <1>5. PICK k \in Keys : k = mut[m].key
    BY <1>1, <1>3, BodyType
  <1>6. PICK v \in FieldValue : v = mut[m].val
    BY <1>1, <1>3, BodyType
  <1>7. ASSUME NEW n \in Mutations, n # m PROVE (Known(n)' <=> Known(n)) /\ (Applied(n)' <=> Applied(n))
    BY <1>3, <1>7 DEF Known, Applied
  <1>8. SUFFICES ASSUME ~Known(m), Known(m)'
                 PROVE  /\ receipts'[m].rev <= revision'
                        /\ Free(d, k) => Seen(d, k)'
                        /\ Regards(m)
    <2>1. Applied(m)' => Known(m)'
      BY Shapes DEF Applied, Known
    <2>2. \A n \in Mutations : n # m => (~Known(n) => Regards(n))
      BY <1>1, <1>7, ReceiptType DEF Regards
    <2>3. ~Known(m) => Regards(m)
      BY <1>8, <2>1 DEF Regards
    <2>4. ASSUME NEW n \in Mutations, ~Known(n), Known(n)'
          PROVE  /\ n = m /\ Issued(n) /\ receipts'[n].rev <= revision'
                 /\ Free(d, k) => Seen(d, k)'
      BY <1>3, <1>7, <1>8, <2>4
    <2> QED  BY <1>4, <1>5, <2>2, <2>3, <2>4 DEF Decides
  <1>9. Decide(m, q.last)
    BY <1>2, <1>8, Zenon DEF ServeMutation, server, Known
  <1>10. PICK e \in Nat : e = EffectiveBase(m, q.last)
    BY <1>2, <1>3, <1>4, <1>8, BaseVouched
  <1>11. Vouched(d, k, e)
    BY <1>2, <1>3, <1>4, <1>5, <1>8, <1>10, BaseVouched
  <1>12. PICK c : c = canon[k]
    OBVIOUS
  <1>13. c.rev \in Nat /\ revision \in Nat /\ c.rev <= revision
    BY <1>12, <1>1 DEF TypeOK, SeenInv
  <1>14. CASE Overtaken(m, q.last)
    <2>1. receipts'[m] = [status |-> "conflict", rev |-> c.rev, canon |-> c.val]
          /\ canon' = canon /\ revision' = revision
      BY <1>1, <1>3, <1>5, <1>9, <1>12, <1>14 DEF Decide, TypeOK
    <2>2. receipts'[m].rev = c.rev /\ receipts'[m].status = "conflict"
      BY <2>1
    <2>3. Surfaced(d, k, c.rev)'
      <3>1. Conflict(m)' /\ mut'[m].dev = d /\ mut'[m].key = k /\ c.rev <= receipts'[m].rev
        BY <1>4, <1>5, <1>13, <2>2 DEF Conflict
      <3> QED  BY <1>3, <3>1 DEF Surfaced
    <2>4. Seen(d, k)'
      BY <1>12, <2>1, <2>3 DEF Seen, Surfaced
    <2>5. ~Applied(m)'
      BY <2>2 DEF Applied
    <2> QED  BY <1>13, <2>1, <2>2, <2>4, <2>5 DEF Regards
  <1>15. CASE ~Overtaken(m, q.last)
    <2>1. WriteValue(k, v, d) /\ receipts' = [receipts EXCEPT ![m] =
                   [status |-> "applied", rev |-> canon'[k].rev, canon |-> v]]
      BY <1>4, <1>5, <1>6, <1>9, <1>15 DEF Decide
    <2>2. receipts'[m].rev = canon'[k].rev
      BY <1>1, <1>3, <2>1 DEF TypeOK
    <2>3. canon'[k] = Written(k, v, d)
      BY <1>1, <2>1 DEF WriteValue, TypeOK
    <2>4. Free(d, k) => Seen(d, k)
      <3>1. c.rev <= e
        BY <1>5, <1>10, <1>12, <1>13, <1>15 DEF Overtaken
      <3> QED  BY <1>11, <1>12, <3>1 DEF Vouched
    <2>5. Regards(m)
      BY <1>4, <1>5, <2>4 DEF Regards, Seen
    <2>6. CASE c.val = v
      <3>1. canon'[k] = c /\ revision' = revision
        BY <1>12, <2>1, <2>3, <2>6 DEF WriteValue, Written
      <3>2. ASSUME Free(d, k), c.by # d, c.rev > 0 PROVE Surfaced(d, k, c.rev)'
        <4>1. Surfaced(d, k, c.rev)
          BY <1>12, <2>4, <3>2 DEF Seen
        <4>2. ASSUME NEW b \in Mutations, Conflict(b), mut[b].dev = d, mut[b].key = k, c.rev <= receipts[b].rev
              PROVE  Surfaced(d, k, c.rev)'
          <5>1. Known(b)
            BY <1>1, <4>2, ReceiptType
          <5>2. receipts'[b] = receipts[b] /\ Conflict(b)'
            BY <1>3, <4>2, <5>1 DEF Frozen, Conflict
          <5> QED  BY <4>2, <5>2 DEF Surfaced
        <4> QED  BY <4>1, <4>2 DEF Surfaced
      <3>3. Free(d, k) => Seen(d, k)'
        BY <3>1, <3>2 DEF Seen, Surfaced
      <3> QED  BY <1>13, <2>2, <2>5, <3>1, <3>3
    <2>7. CASE c.val # v
      <3>1. canon'[k].rev = revision + 1 /\ canon'[k].by = d /\ revision' = revision + 1
        BY <1>12, <2>1, <2>3, <2>7 DEF WriteValue, Written
      <3>2. Seen(d, k)'
        BY <3>1 DEF Seen
      <3> QED  BY <1>13, <2>2, <2>5, <3>1, <3>2
    <2> QED  BY <2>6, <2>7
  <1> QED  BY <1>14, <1>15

-----------------------------------------------------------------------------
(* The user's steps.                                                       *)

\* A UUID that was not drawn is in no message.
LEMMA NotSent ==
    ASSUME IInv, NEW m \in Mutations, ~Issued(m)
    PROVE  /\ \A n \in Mutations : Precedes(n, m)
           /\ Unsent(m)
  <1>1. ASSUME NEW t \in Tabs
        PROVE  /\ \A i \in DOMAIN tab[t].todo : tab[t].todo[i] # m
               /\ \A i \in DOMAIN req[t].left : req[t].left[i] # m
    BY DEF IInv, TabOK, Own
  <1>2. ASSUME NEW q \in orphans
        PROVE  \A i \in DOMAIN q.left : q.left[i] # m
    BY DEF IInv, OrphanOK
  <1>3. ~Known(m)
    BY DEF IInv, Bodies
  <1> QED  BY <1>1, <1>2, <1>3 DEF Precedes, Leading, Leads, Unsent, RangeOf

\* A user's step: messages and papers' revisions stay, and an edit is issued.
LEMMA IssueSeen ==
    ASSUME Sound, UNCHANGED <<tab, req, orphans, receipts>>,
           NEW m \in Mutations, ~Issued(m), EditVouched(m)', Resolutions',
           \A n \in Mutations : n # m => mut'[n] = mut[n],
           outbox'[m] = "pending",
           \A n \in Mutations : n # m => outbox'[n] = outbox[n] \/ (outbox'[n] # "pending" /\ Known(n)),
           \A d \in Devices, k \in Keys : paper'[d][k].rev = paper[d][k].rev
    PROVE  SeenInv'
  <1>1. TypeOK /\ TypeOK' /\ Bodies
    BY DEF Sound, IInv
  <1>2. \A n \in Mutations : Unsent(n)' <=> Unsent(n)
    BY DEF Unsent, Known
  <1>3. Unsent(m)
    BY NotSent DEF Sound
  <1>4. \A n \in Mutations : outbox'[n] = "pending" => outbox[n] = "pending" \/ Unsent(n)'
    BY <1>2, <1>3
  <1>5. ASSUME NEW u \in Tabs
        PROVE  /\ Phase(u)' /\ Placed(u)' /\ Refusals(u)' /\ Pulled(u)'
               /\ RequestVouched(DeviceOf[u], req[u])'
    BY <1>2, <1>4, TabSame
  <1>6. Replied'
    <2>1. ASSUME NEW n \in Mutations, Issued(n)', mut'[n].key \notin GatedKeys, outbox'[n] # "pending"
          PROVE  Known(n)'
      <3>1. n # m /\ Issued(n) /\ mut[n].key \notin GatedKeys
        BY <2>1 DEF Issued
      <3>2. Known(n)
        BY <2>1, <3>1 DEF Sound, SeenInv, Replied
      <3> QED  BY <1>1, <3>2, Steady DEF Sound
    <2> QED  BY <1>5, <2>1 DEF Replied
  <1>7. ASSUME NEW n \in Mutations, Issued(n)', ~Known(n)'
        PROVE  EditVouched(n)'
    <2>1. CASE n = m
      BY <2>1
    <2>2. CASE n # m
      <3>1. Issued(n)
        BY <1>7, <2>2 DEF Issued
      <3>2. \A b \in Mutations : Blocks(b, n) => Precedes(b, n)'
        BY DEF Blocks, Precedes, Leading, Leads, RangeOf
      <3> QED  BY <1>7, <3>1, <3>2, EditKept
    <2> QED  BY <2>1, <2>2
  <1>8. \A q \in orphans' : \E d \in Devices : RequestVouched(d, q)'
    BY OrphansVouched
  <1>9. \A d \in Devices, k \in Keys : PaperVouched(d, k)'
    BY PaperKept
  <1> QED  BY <1>5, <1>6, <1>7, <1>8, <1>9, SeenAgain

LEMMA QueueSeen ==
    ASSUME Sound, OrderInv, NEW d \in Devices, NEW k \in Keys, NEW v \in FieldValue,
           QueueMutation(d, k, v)
    PROVE  SeenInv'
  <1>1. PICK row : row = [dev |-> d, key |-> k, val |-> v, base |-> BaseRevision(d, k),
                          seq |-> seq[d] + 1, resolves |-> None]
    OBVIOUS
  <1>2. PICK m \in Mutations :
          /\ ~Issued(m)
          /\ mut' = [mut EXCEPT ![m] = row]
          /\ outbox' = [outbox EXCEPT ![m] = "pending"]
          /\ paper' = [paper EXCEPT ![d][k].val = v]
    BY <1>1, Zenon DEF QueueMutation
  <1>3. UNCHANGED <<tab, req, orphans, canon, revision, receipts, shown>>
    BY Zenon DEF QueueMutation, server
  <1>4. PICK x \in Nat : x = paper[d][k].rev
    BY DEF Sound, IInv, TypeOK, Snapshot
  <1>5. row.dev = d /\ row.key = k /\ row.seq = seq[d] + 1 /\ row.resolves = None /\ row.base = x
    BY <1>1, <1>4 DEF BaseRevision
  <1>6. /\ mut'[m] = row /\ \A n \in Mutations : n # m => mut'[n] = mut[n]
        /\ outbox'[m] = "pending" /\ \A n \in Mutations : n # m => outbox'[n] = outbox[n]
        /\ seq \in [Devices -> Nat]
    BY <1>2 DEF Sound, IInv, TypeOK
  <1>7. \A e \in Devices, j \in Keys : paper'[e][j].rev = paper[e][j].rev
    <2>1. paper \in [Devices -> [Keys -> [val: FieldValue, rev: Nat]]]
      BY DEF Sound, IInv, TypeOK, Snapshot
    <2> QED  BY <1>2, <2>1
  <1>8. EditVouched(m)'
    <2>1. x <= revision /\ x <= revision'
      BY <1>3, <1>4 DEF Sound, SeenInv, PaperVouched
    <2>2. CASE Vouched(d, k, x)
      <3>1. Vouched(d, k, x)'
        BY <2>2, VouchedKept
      <3> QED  BY <1>5, <1>6, <2>1, <3>1 DEF EditVouched, Vouched, Seen, Surfaced
    <2>3. ASSUME NEW n \in Mutations, Open(n, d, k) PROVE EditVouched(m)'
      <3>1. n # m /\ mut'[n] = mut[n]
        BY <1>2, <1>6, <2>3 DEF Open
      <3>2. Open(n, d, k)'
        BY <1>3, <2>3, <3>1 DEF Open, Issued, Known
      <3>3. mut[n].seq \in Nat /\ mut[n].seq <= seq[d]
        BY <2>3, BodyType DEF Open, OrderInv, Numbered, Sound, IInv
      <3>4. mut'[n].seq < mut'[m].seq
        BY <1>5, <1>6, <3>1, <3>3
      <3>5. Precedes(n, m)'
        <4>1. Precedes(n, m)
          BY <1>2, NotSent DEF Sound
        <4> QED  BY <1>3, <4>1 DEF Precedes, Leading, Leads, RangeOf
      <3>6. Blocks(n, m)'
        BY <1>5, <1>6, <3>2, <3>4, <3>5 DEF Blocks, Open
      <3> QED  BY <1>5, <1>6, <2>1, <3>6 DEF EditVouched
    <2> QED  BY <1>4, <2>2, <2>3 DEF Sound, SeenInv, PaperVouched
  <1>9. Resolutions'
    <2>1. ASSUME NEW r \in Mutations, NEW c \in Mutations, Issued(r)', mut'[r].resolves = c
          PROVE  Issued(r) /\ mut[r].resolves = c
      BY <1>5, <1>6, <2>1, NoneFresh DEF Issued
    <2> QED  BY <2>1, ResolutionsKept DEF Resolutions
  <1> QED  BY <1>2, <1>3, <1>6, <1>7, <1>8, <1>9, IssueSeen

LEMMA ResolveSeen ==
    ASSUME Sound, NEW m \in Mutations, NEW keepLocal \in BOOLEAN, WriteResolution(m, keepLocal)
    PROVE  SeenInv'
  <1>1. PICK row : row = [mut[m] EXCEPT !.val = IF keepLocal THEN @ ELSE receipts[m].canon,
                                        !.base = receipts[m].rev,
                                        !.resolves = m]
    OBVIOUS
  <1>2. PICK r \in Mutations :
          /\ ~Issued(r)
          /\ mut' = [mut EXCEPT ![r] = row]
          /\ outbox' = [outbox EXCEPT ![m] = "retired", ![r] = "pending"]
    BY <1>1, Zenon DEF WriteResolution
  <1>3. <<m, keepLocal>> \in choices /\ UNCHANGED <<paper, tab, req, orphans, canon, revision, receipts, shown>>
    BY Zenon DEF WriteResolution, server
  <1>4. Known(m) /\ Issued(m) /\ Conflict(m)
    BY <1>3, ReceiptType DEF Sound, IInv, Bodies
  <1>5. PICK d \in Devices : d = mut[m].dev
    BY <1>4, BodyType DEF Sound, IInv
  <1>6. PICK k \in Keys : k = mut[m].key
    BY <1>4, BodyType DEF Sound, IInv
  <1>7. PICK x \in Nat : x = receipts[m].rev
    BY <1>4, ReceiptType DEF Sound, IInv
  <1>8. row.dev = d /\ row.key = k /\ row.resolves = m /\ row.base = x
    <2>1. mut[m] \in Mutation
      BY <1>4, BodyType DEF Sound, IInv
    <2> QED  BY <1>1, <1>5, <1>6, <1>7, <2>1 DEF Mutation
  <1>9. /\ mut'[r] = row /\ \A n \in Mutations : n # r => mut'[n] = mut[n]
        /\ r # m /\ outbox'[r] = "pending" /\ outbox'[m] = "retired"
        /\ \A n \in Mutations : n # r /\ n # m => outbox'[n] = outbox[n]
    BY <1>2, <1>4 DEF Sound, IInv, TypeOK
  <1>10. EditVouched(r)'
    <2>1. Vouched(d, k, x)
      BY <1>4, <1>5, <1>6, <1>7 DEF Sound, SeenInv
    <2>2. Vouched(d, k, x)' /\ x <= revision'
      BY <2>1, VouchedKept DEF Vouched
    <2> QED  BY <1>8, <1>9, <2>2 DEF EditVouched, Vouched, Seen, Surfaced
  <1>11. Resolutions'
    <2>1. ASSUME NEW s \in Mutations, NEW c \in Mutations, Issued(s)', mut'[s].resolves = c, s # r
          PROVE  Issued(s) /\ mut[s].resolves = c
      BY <1>9, <2>1 DEF Issued
    <2>2. ASSUME NEW c \in Mutations, mut'[r].resolves = c
          PROVE  /\ Conflict(c)' /\ mut'[c].dev = mut'[r].dev /\ mut'[c].key = mut'[r].key
                 /\ mut'[r].base = receipts'[c].rev
      BY <1>3, <1>4, <1>5, <1>6, <1>7, <1>8, <1>9, <2>2 DEF Conflict
    <2> QED  BY <2>1, <2>2, ResolutionsKept DEF Resolutions
  <1>12. \A n \in Mutations : n # r => outbox'[n] = outbox[n] \/ (outbox'[n] # "pending" /\ Known(n))
    BY <1>4, <1>9
  <1>13. \A e \in Devices, j \in Keys : paper'[e][j].rev = paper[e][j].rev
    BY <1>3
  <1> QED  BY <1>2, <1>3, <1>9, <1>10, <1>11, <1>12, <1>13, IssueSeen

\* A resolution chosen or an online write: nothing a device or message holds.
LEMMA RestSeen ==
    ASSUME Sound, UNCHANGED <<mut, outbox, paper, tab, req, orphans, receipts>>
    PROVE  SeenInv'
  <1>1. \A n \in Mutations : Unsent(n) => Unsent(n)'
    BY DEF Unsent, Known
  <1>2. \A d \in Devices, k \in Keys : PaperVouched(d, k)'
    BY PaperKept
  <1> QED  BY <1>1, <1>2, QuietSeen

-----------------------------------------------------------------------------
(* Steps of one tab that decide nothing.                                   *)

LEMMA EmptyVouched ==
    ASSUME Sound, NEW d \in Devices
    PROVE  RequestVouched(d, NoRequest)'
  BY NothingVouched, RequestKept, RequestType DEF Sound, IInv

LEMMA TabSeen ==
    ASSUME Sound, UNCHANGED <<mut, receipts>>, NEW t \in Tabs,
           \A u \in Tabs : u # t => tab'[u] = tab[u] /\ req'[u] = req[u],
           orphans \subseteq orphans', orphans' \subseteq orphans \cup {req[t]},
           \A m \in Mutations : outbox'[m] = "pending" => outbox[m] = "pending",
           \A m \in Mutations : outbox[m] = "pending" /\ outbox'[m] # "pending"
                                /\ mut[m].key \notin GatedKeys => Known(m),
           Refusals(t)', Phase(t)', Placed(t)', Pulled(t)', RequestVouched(DeviceOf[t], req[t])',
           \A n, m \in Mutations : Blocks(n, m) /\ ~Known(n) /\ mut[m].key \notin GatedKeys =>
               Leading(t, n, m)',
           \A d \in Devices, k \in Keys : PaperVouched(d, k)'
    PROVE  SeenInv'
  <1>1. PICK q \in Request : q = req[t]
    BY TabType DEF Sound, IInv
  <1>2. PICK d \in Devices : d = DeviceOf[t]
    BY DeviceOfType
  <1>3. RequestVouched(d, q)
    BY <1>1, <1>2 DEF Sound, SeenInv
  <1>4. ASSUME NEW m \in Mutations, Unsent(m)
        PROVE  Unsent(m)' \/ mut[m].dev = DeviceOf[t]
    <2>1. CASE m \in RangeOf(q.left)
      BY <1>2, <1>3, <2>1 DEF RequestVouched, Own, RangeOf
    <2>2. CASE m \notin RangeOf(q.left)
      BY <1>1, <1>4, <2>2 DEF Unsent, Known, RangeOf
    <2> QED  BY <2>1, <2>2
  <1>5. \A p \in orphans' \ orphans : \E e \in Devices : RequestVouched(e, p)'
    <2>1. RequestVouched(d, q)'
      BY <1>3, RequestKept
    <2> QED  BY <1>1, <2>1
  <1>6. ASSUME NEW n \in Mutations, NEW m \in Mutations, Blocks(n, m), ~Known(n)', mut[m].key \notin GatedKeys
        PROVE  Leading(t, n, m)' /\ \A p \in orphans' \ orphans : Leads(n, m, p.left, {})
    <2>1. ~Known(n)
      BY <1>6 DEF Known
    <2>2. Leads(n, m, req[t].left, {})
      BY <1>6 DEF Blocks, Precedes, Leading
    <2> QED  BY <1>6, <2>1, <2>2
  <1>7. PICK T \in SUBSET Tabs : T = {t}
    OBVIOUS
  <1>8. \A m \in Mutations : Unsent(m) => Unsent(m)' \/ \E u \in T : mut[m].dev = DeviceOf[u]
    BY <1>4, <1>7
  <1>9. /\ \A u \in Tabs \ T : tab'[u] = tab[u] /\ req'[u] = req[u]
        /\ \A u \in T : /\ Refusals(u)' /\ Phase(u)' /\ Placed(u)' /\ Pulled(u)'
                        /\ RequestVouched(DeviceOf[u], req[u])'
    BY <1>7
  <1>10. \A n, m \in Mutations : Blocks(n, m) /\ ~Known(n)' /\ mut[m].key \notin GatedKeys =>
               /\ \A u \in T : Leading(u, n, m)'
               /\ \A p \in orphans' \ orphans : Leads(n, m, p.left, {})
    BY <1>6, <1>7
  <1> QED  BY <1>5, <1>8, <1>9, <1>10, QuietSeen

\* A sync that ends or breaks off.
LEMMA IdleSeen ==
    ASSUME Sound, UNCHANGED <<mut, outbox, receipts>>, NEW t \in Tabs,
           tab' = [tab EXCEPT ![t] = Idle],
           req' = [req EXCEPT ![t] = NoRequest] \/ (req' = req /\ tab[t].pc # "wait"),
           orphans \subseteq orphans', orphans' \subseteq orphans \cup {req[t]},
           \A d \in Devices, k \in Keys : PaperVouched(d, k)'
    PROVE  SeenInv'
  <1>1. TypeOK /\ TypeOK' /\ Phase(t)
    BY DEF Sound, IInv, SeenInv
  <1>2. /\ tab'[t] = Idle /\ req'[t] = NoRequest
        /\ \A u \in Tabs : u # t => tab'[u] = tab[u] /\ req'[u] = req[u]
    BY <1>1 DEF TypeOK, Phase
  <1>3. /\ Idle.pc = "idle" /\ Idle.todo = <<>> /\ Idle.snap = NoSnapshot
        /\ NoRequest.left = <<>> /\ NoRequest.sent = <<>> /\ NoRequest.rejected = {}
    BY DEF Idle, NoRequest
  <1>4. DOMAIN <<>> = {} /\ RangeOf(<<>>) = {}
    BY EmptySeq DEF RangeOf
  <1>5. Refusals(t)' /\ Placed(t)'
    BY <1>2, <1>3 DEF Refusals, Placed
  <1>6. Phase(t)'
    BY <1>2, <1>3 DEF Phase, RangeOf
  <1>7. Pulled(t)'
    <2>1. revision' \in Nat /\ \A k \in Keys : NoSnapshot[k].rev = 0
      BY <1>1 DEF TypeOK, NoSnapshot
    <2> QED  BY <1>2, <1>3, <2>1 DEF Pulled
  <1>8. RequestVouched(DeviceOf[t], req[t])'
    <2>1. PICK d \in Devices : d = DeviceOf[t]
      BY DeviceOfType
    <2>2. RequestVouched(d, NoRequest)'
      BY EmptyVouched
    <2> QED  BY <1>2, <2>1, <2>2 DEF RequestVouched, Own, Vouched, Seen, Surfaced
  <1>9. \A n, m \in Mutations : Leading(t, n, m)'
    BY <1>2, <1>3, <1>4 DEF Leading, Leads
  <1> QED  BY <1>2, <1>5, <1>6, <1>7, <1>8, <1>9, TabSeen

LEMMA LoseSeen ==
    ASSUME Sound, NEW t \in Tabs, LoseRequest(t)
    PROVE  SeenInv'
  <1>1. /\ tab' = [tab EXCEPT ![t] = Idle]
        /\ req' = [req EXCEPT ![t] = NoRequest]
        /\ UNCHANGED <<mut, outbox, paper, orphans, receipts>>
    BY DEF LoseRequest, device, server
  <1>2. \A d \in Devices, k \in Keys : PaperVouched(d, k)'
    BY <1>1, PaperKept
  <1> QED  BY <1>1, <1>2, IdleSeen

LEMMA AbortSeen ==
    ASSUME Sound, NEW t \in Tabs, AbortSync(t)
    PROVE  SeenInv'
  <1>1. /\ tab' = [tab EXCEPT ![t] = Idle]
        /\ req' = [req EXCEPT ![t] = NoRequest]
        /\ orphans \subseteq orphans' /\ orphans' \subseteq orphans \cup {req[t]}
        /\ UNCHANGED <<mut, outbox, paper, receipts>>
    BY DEF AbortSync, device, server
  <1>2. \A d \in Devices, k \in Keys : PaperVouched(d, k)'
    BY <1>1, PaperKept
  <1> QED  BY <1>1, <1>2, IdleSeen

\* The pull shows every field the device has no open edit of; an edit it
\* still masks was never sent.
LEMMA ApplySeen ==
    ASSUME Sound, NEW t \in Tabs, ApplyPull(t)
    PROVE  SeenInv'
  <1>1. PICK d \in Devices : d = DeviceOf[t]
    BY DeviceOfType
  <1>2. PICK snap \in Snapshot : snap = tab[t].snap
    BY TabType DEF Sound, IInv
  <1>3. PICK top \in [Keys -> Mutations \cup {None}] :
            paper' = [paper EXCEPT ![d] = [k \in Keys |-> Merged(d, k, snap, top[k])]]
    BY <1>1, <1>2, Zenon DEF ApplyPull
  <1>4. PICK seen : seen = [k \in Keys |-> IF PendingOn(d, k) = {} THEN Larger(shown[d][k], snap[k].rev)
                                                                ELSE shown[d][k]]
    OBVIOUS
  <1>5. /\ tab[t].pc = "pulled" /\ shown' = [shown EXCEPT ![d] = seen]
        /\ tab' = [tab EXCEPT ![t] = Idle]
        /\ UNCHANGED <<mut, outbox, req, orphans, canon, revision, receipts>>
    BY <1>1, <1>2, <1>4, Zenon DEF ApplyPull, server
  <1>6. TypeOK /\ TypeOK' /\ Phase(t) /\ Placed(t) /\ Pulled(t)
    BY DEF Sound, IInv, SeenInv
  <1>7. \A e \in Devices : e # d => paper'[e] = paper[e]
    BY <1>3, <1>6 DEF TypeOK
  <1>8. \A k \in Keys : paper'[d][k].rev = snap[k].rev
    <2> SUFFICES ASSUME NEW k \in Keys
                 PROVE  paper'[d][k].rev = snap[k].rev
      OBVIOUS
    <2>1. paper'[d][k] = Merged(d, k, snap, top[k])
      BY <1>3, <1>6 DEF TypeOK
    <2>2. Merged(d, k, snap, top[k]).rev = snap[k].rev
      BY Zenon DEF Merged
    <2> QED  BY <2>1, <2>2
  <1>9. ASSUME NEW k \in Keys PROVE PaperVouched(d, k)'
    <2>1. PICK x \in Nat : x = snap[k].rev
      BY DEF Snapshot
    <2>2. x <= revision'
      BY <1>2, <1>5, <1>6, <2>1 DEF Pulled
    <2>3. CASE ~Free(d, k)
      BY <1>8, <2>1, <2>2, <2>3 DEF PaperVouched, Vouched, Free, Alone
    <2>4. CASE Free(d, k) /\ PendingOn(d, k) = {}
      <3>1. shown[d][k] \in Nat /\ canon[k].rev \in Nat /\ shown'[d][k] = seen[k]
        BY <1>5, <1>6 DEF TypeOK
      <3>2. x <= shown'[d][k]
        BY <1>4, <2>1, <2>4, <3>1 DEF Larger
      <3>3. shown'[d][k] \in Nat /\ canon'[k].rev \in Nat
        BY <1>6 DEF TypeOK
      <3>4. canon'[k].rev <= x => Seen(d, k)'
        BY <3>2, <3>3 DEF Seen, Surfaced
      <3> QED  BY <1>8, <2>1, <2>2, <3>4 DEF PaperVouched, Vouched
    <2>5. CASE Free(d, k) /\ PendingOn(d, k) # {}
      <3>1. PICK m \in Mutations : outbox[m] = "pending" /\ mut[m].dev = d /\ mut[m].key = k
        BY <2>5 DEF PendingOn, PendingOf
      <3>2. Issued(m)
        BY <3>1 DEF Sound, IInv, Bodies
      <3>3. RangeOf(tab[t].todo) = {} /\ RangeOf(req[t].sent) = {}
        <4>1. tab[t].todo = <<>> /\ req[t].sent = <<>>
          BY <1>5, <1>6 DEF Phase, NoRequest
        <4> QED  BY <4>1, EmptySeq DEF RangeOf
      <3>4. ~Known(m)
        BY <1>1, <1>5, <1>6, <2>5, <3>1, <3>3 DEF Placed, PendingOf, Free, Unsent
      <3>5. Open(m, d, k)'
        BY <1>5, <3>1, <3>2, <3>4 DEF Open, Issued, Known
      <3> QED  BY <1>8, <2>1, <2>2, <3>5 DEF PaperVouched
    <2> QED  BY <2>3, <2>4, <2>5
  <1>10. \A e \in Devices, k \in Keys : PaperVouched(e, k)'
    BY <1>7, <1>9, PaperKept
  <1> QED  BY <1>5, <1>10, IdleSeen

LEMMA PullSeen ==
    ASSUME Sound, NEW t \in Tabs, PullSnapshot(t)
    PROVE  SeenInv'
  <1>1. PICK snap : snap = [k \in Keys |-> [val |-> canon[k].val, rev |-> canon[k].rev]]
    OBVIOUS
  <1>2. PICK w : w = [tab[t] EXCEPT !.pc = "pulled", !.snap = snap]
    OBVIOUS
  <1>3. /\ tab' = [tab EXCEPT ![t] = w]
        /\ tab[t].pc = "push" /\ tab[t].todo = <<>>
        /\ UNCHANGED <<mut, outbox, paper, req, orphans, canon, revision, receipts>>
    BY <1>1, <1>2, Zenon DEF PullSnapshot, device, server
  <1>4. /\ TypeOK /\ TypeOK' /\ Phase(t) /\ Placed(t) /\ Refusals(t)
        /\ \A k \in Keys : canon[k].rev <= revision
    BY DEF Sound, IInv, SeenInv, Replied
  <1>5. w.todo = <<>> /\ w.pc = "pulled" /\ w.snap = snap
    BY <1>2, <1>3, <1>4, TabType
  <1>6. tab'[t] = w /\ \A u \in Tabs : u # t => tab'[u] = tab[u]
    BY <1>3, <1>4 DEF TypeOK
  <1>7. Phase(t)' /\ Refusals(t)'
    <2>1. Phase(t)'
      <3>1. req' = req /\ tab'[t].pc = "pulled" /\ tab'[t].todo = <<>>
        BY <1>3, <1>5, <1>6
      <3>2. req[t] = NoRequest /\ RangeOf(req[t].left) \subseteq RangeOf(req[t].sent)
        BY <1>3, <1>4 DEF Phase
      <3> QED  BY <3>1, <3>2 DEF Phase, RangeOf
    <2>2. Refusals(t)'
      BY <1>3, <1>4 DEF Refusals, Issued
    <2> QED  BY <2>1, <2>2
  <1>8. Placed(t)'
    BY <1>3, <1>4, <1>5, <1>6 DEF Placed, PendingOf, Unsent, Known, Alone, RangeOf
  <1>9. Pulled(t)'
    BY <1>1, <1>3, <1>4, <1>5, <1>6 DEF Pulled
  <1>10. RequestVouched(DeviceOf[t], req[t])'
    <2>1. PICK q \in Request : q = req[t]
      BY <1>4, TabType
    <2>2. PICK d \in Devices : d = DeviceOf[t]
      BY DeviceOfType
    <2>3. RequestVouched(d, q)'
      BY <2>1, <2>2, RequestKept DEF Sound, SeenInv
    <2> QED  BY <1>3, <2>1, <2>2, <2>3 DEF RequestVouched, Own, Vouched, Seen, Surfaced
  <1>11. \A n, m \in Mutations : Blocks(n, m) => Leading(t, n, m)'
    BY <1>3, <1>5, <1>6 DEF Blocks, Precedes, Leading, Leads, RangeOf
  <1>12. \A d \in Devices, k \in Keys : PaperVouched(d, k)'
    BY <1>3, PaperKept
  <1>13. orphans \subseteq orphans' /\ orphans' \subseteq orphans \cup {req[t]} /\ outbox' = outbox
    BY <1>3
  <1> QED  BY <1>3, <1>6, <1>7, <1>8, <1>9, <1>10, <1>11, <1>12, <1>13, TabSeen

\* The answer of a push: what it decided leaves the outbox, or waits there.
LEMMA ReceiveSeen ==
    ASSUME Sound, NEW t \in Tabs, ReceiveResults(t)
    PROVE  SeenInv'
  <1>1. PICK rows : rows = {m \in RangeOf(req[t].sent) : outbox[m] # "retired"}
    OBVIOUS
  <1>2. /\ tab[t].pc = "wait" /\ req[t].left = <<>>
        /\ outbox' = [m \in Mutations |-> IF m \in rows THEN RowAfter(t, m) ELSE outbox[m]]
        /\ tab' = [tab EXCEPT ![t].pc = "push"]
        /\ req' = [req EXCEPT ![t] = NoRequest]
        /\ UNCHANGED <<mut, paper, orphans, receipts>>
    BY <1>1, Zenon DEF ReceiveResults, server
  <1>3. TypeOK /\ TypeOK' /\ Phase(t) /\ Placed(t) /\ Refusals(t) /\ Pulled(t)
    BY DEF Sound, IInv, SeenInv, Replied
  <1>4. /\ tab'[t].todo = tab[t].todo /\ tab'[t].pc = "push" /\ tab'[t].snap = tab[t].snap
        /\ \A u \in Tabs : u # t => tab'[u] = tab[u] /\ req'[u] = req[u]
        /\ req'[t] = NoRequest
    BY <1>2, <1>3, TabType DEF TypeOK
  <1>5. /\ NoRequest.left = <<>> /\ NoRequest.sent = <<>> /\ NoRequest.rejected = {}
        /\ RangeOf(<<>>) = {} /\ DOMAIN <<>> = {}
    BY EmptySeq DEF NoRequest, RangeOf
  <1>6. \A m \in RangeOf(req[t].sent) : RowAfter(t, m) # "pending"
    BY <1>2, RowAfterIs DEF Sound
  <1>7. \A m \in Mutations : outbox'[m] = "pending" => outbox[m] = "pending" /\ m \notin RangeOf(req[t].sent)
    <2> SUFFICES ASSUME NEW m \in Mutations, outbox'[m] = "pending"
                 PROVE  outbox[m] = "pending" /\ m \notin RangeOf(req[t].sent)
      OBVIOUS
    <2>1. m \notin rows
      BY <1>1, <1>2, <1>6
    <2>2. outbox[m] = "pending"
      BY <1>2, <2>1
    <2> QED  BY <1>1, <2>1, <2>2
  <1>8. ASSUME NEW m \in Mutations, outbox[m] = "pending", outbox'[m] # "pending", mut[m].key \notin GatedKeys
        PROVE  Known(m)
    <2>1. m \in RangeOf(req[t].sent)
      BY <1>1, <1>2, <1>8
    <2>2. m \notin req[t].rejected /\ m \notin RangeOf(req[t].left)
      BY <1>2, <1>3, <1>5, <1>8 DEF Refusals
    <2> QED  BY <2>1, <2>2 DEF Sound, IInv, TabOK, Accounted
  <1>9. Refusals(t)' /\ Phase(t)'
    BY <1>4, <1>5 DEF Refusals, Phase, RangeOf
  <1>10. Placed(t)'
    <2> SUFFICES ASSUME Alone(DeviceOf[t]), NEW m \in Mutations, outbox'[m] = "pending",
                        mut[m].dev = DeviceOf[t], mut[m].key \notin GatedKeys
                 PROVE  m \in RangeOf(tab[t].todo) \/ Unsent(m)'
      BY <1>2, <1>4 DEF Placed, PendingOf, Alone, RangeOf
    <2>1. m \in RangeOf(tab[t].todo) \/ Unsent(m)
      BY <1>2, <1>3, <1>7 DEF Placed, PendingOf
    <2> QED  BY <1>2, <2>1 DEF Unsent, Known
  <1>11. Pulled(t)'
    <2>1. revision \in Nat /\ revision' \in Nat /\ revision <= revision'
      BY <1>3 DEF TypeOK, Sound, Grows
    <2>2. \A k \in Keys : tab[t].snap[k].rev \in Nat /\ tab[t].snap[k].rev <= revision
      BY <1>3, TabType DEF Pulled, Snapshot
    <2> QED  BY <1>4, <2>1, <2>2 DEF Pulled
  <1>12. RequestVouched(DeviceOf[t], req[t])'
    <2>1. PICK d \in Devices : d = DeviceOf[t]
      BY DeviceOfType
    <2>2. RequestVouched(d, NoRequest)'
      BY EmptyVouched
    <2> QED  BY <1>4, <2>1, <2>2 DEF RequestVouched, Own, Vouched, Seen, Surfaced
  <1>13. \A n, m \in Mutations : Blocks(n, m) => Leading(t, n, m)'
    BY <1>2, <1>4, <1>5 DEF Blocks, Precedes, Leading, Leads, RangeOf
  <1>14. \A d \in Devices, k \in Keys : PaperVouched(d, k)'
    BY <1>2, PaperKept
  <1>15. orphans \subseteq orphans' /\ orphans' \subseteq orphans \cup {req[t]}
    BY <1>2
  <1> QED  BY <1>2, <1>4, <1>7, <1>8, <1>9, <1>10, <1>11, <1>12, <1>13, <1>14, <1>15, TabSeen

\* A sync lists the edits of its device in the order they were made.
LEMMA StartSeen ==
    ASSUME Sound, NEW t \in Tabs, StartSync(t)
    PROVE  SeenInv'
  <1>1. PICK s \in InSequence(PendingOf(DeviceOf[t])) : tab' = [tab EXCEPT ![t].pc = "push", ![t].todo = s]
    BY DEF StartSync
  <1>2. /\ tab[t].pc = "idle"
        /\ UNCHANGED <<mut, outbox, paper, req, orphans, receipts>>
    BY DEF StartSync, device, server
  <1>3. TypeOK /\ TypeOK' /\ Phase(t) /\ Refusals(t) /\ Pulled(t)
    BY DEF Sound, IInv, SeenInv, Replied
  <1>4. /\ tab'[t].todo = s /\ tab'[t].pc = "push" /\ tab'[t].snap = tab[t].snap
        /\ \A u \in Tabs : u # t => tab'[u] = tab[u]
    BY <1>1, <1>3, TabType DEF TypeOK
  <1>5. /\ s \in Seq(Mutations)
        /\ \A i \in DOMAIN s : s[i] \in PendingOf(DeviceOf[t])
        /\ \A m \in PendingOf(DeviceOf[t]) : \E i \in DOMAIN s : s[i] = m
        /\ \A i, j \in DOMAIN s : i < j => mut[s[i]].seq <= mut[s[j]].seq
    <2>1. PendingOf(DeviceOf[t]) \in SUBSET Mutations
      BY DEF PendingOf
    <2> QED  BY <2>1, Listed
  <1>6. req[t] = NoRequest
    BY <1>2, <1>3 DEF Phase
  <1>7. Phase(t)'
    BY <1>2, <1>3, <1>4, <1>6 DEF Phase, RangeOf
  <1>8. Refusals(t)'
    BY <1>2, <1>3 DEF Refusals, Issued
  <1>9. Placed(t)'
    <2>1. \A m \in PendingOf(DeviceOf[t]) : m \in RangeOf(s)
      BY <1>5 DEF RangeOf
    <2> QED  BY <1>2, <1>4, <2>1 DEF Placed, PendingOf, RangeOf
  <1>10. Pulled(t)'
    <2>1. revision \in Nat /\ revision' \in Nat /\ revision <= revision'
      BY <1>3 DEF TypeOK, Sound, Grows
    <2>2. \A k \in Keys : tab[t].snap[k].rev \in Nat /\ tab[t].snap[k].rev <= revision
      BY <1>3, TabType DEF Pulled, Snapshot
    <2> QED  BY <1>4, <2>1, <2>2 DEF Pulled
  <1>11. RequestVouched(DeviceOf[t], req[t])'
    <2>1. PICK d \in Devices : d = DeviceOf[t]
      BY DeviceOfType
    <2>2. RequestVouched(d, NoRequest)'
      BY EmptyVouched
    <2> QED  BY <1>2, <1>6, <2>1, <2>2 DEF RequestVouched, Own, Vouched, Seen, Surfaced
  <1>12. ASSUME NEW n \in Mutations, NEW m \in Mutations, Blocks(n, m), ~Known(n), mut[m].key \notin GatedKeys
         PROVE  Leading(t, n, m)'
    <2>1. ASSUME NEW i \in DOMAIN s, s[i] = m
          PROVE  \E j \in DOMAIN s : j < i /\ s[j] = n
      <3>1. /\ Issued(n) /\ mut[n].dev = mut[m].dev /\ mut[n].key = mut[m].key
            /\ mut[n].seq < mut[m].seq
        BY <1>12 DEF Blocks, Open
      <3>2. mut[m].dev = DeviceOf[t] /\ outbox[m] = "pending"
        BY <1>5, <2>1 DEF PendingOf
      <3>3. outbox[n] = "pending"
        BY <1>12, <3>1 DEF Sound, SeenInv, Replied
      <3>4. PICK j \in DOMAIN s : s[j] = n
        BY <1>5, <3>1, <3>2, <3>3 DEF PendingOf
      <3>5. mut[n].seq \in Nat /\ mut[m].seq \in Nat
        <4>1. Issued(m)
          BY <3>2 DEF Sound, IInv, Bodies
        <4> QED  BY <1>3, <3>1, <4>1, BodyType
      <3>6. i \in Nat /\ j \in Nat
        BY <1>5, LenProperties
      <3>7. ~(i < j) /\ i # j
        BY <1>5, <2>1, <3>1, <3>4, <3>5
      <3> QED  BY <3>4, <3>6, <3>7
    <2>2. req'[t].left = <<>> /\ DOMAIN <<>> = {}
      BY <1>2, <1>6, EmptySeq DEF NoRequest
    <2> QED  BY <1>4, <2>1, <2>2 DEF Leading, Leads
  <1>13. \A d \in Devices, k \in Keys : PaperVouched(d, k)'
    BY <1>2, PaperKept
  <1>14. orphans \subseteq orphans' /\ orphans' \subseteq orphans \cup {req[t]}
    BY <1>2
  <1> QED  BY <1>2, <1>4, <1>7, <1>8, <1>9, <1>10, <1>11, <1>12, <1>13, <1>14, TabSeen

\* The push carries the front of the list, and revisions of edits the server
\* applied.
LEMMA SendSeen ==
    ASSUME Sound, NEW t \in Tabs, SendPush(t)
    PROVE  SeenInv'
  <1>1. PICK d \in Devices : d = DeviceOf[t]
    BY DeviceOfType
  <1>2. PICK todo : todo = tab[t].todo
    OBVIOUS
  <1>3. PICK batch : batch = Batch(todo)
    OBVIOUS
  <1>4. PICK rest : rest = Rest(todo)
    OBVIOUS
  <1>5. PICK P : P = Predecessors(d, batch)
    OBVIOUS
  <1>6. PICK q : q = [left |-> batch, sent |-> batch, rejected |-> {}, last |-> LastApplied(d, P)]
    OBVIOUS
  <1>7. /\ tab[t].pc = "push" /\ PredecessorsAccepted(P)
        /\ tab' = [tab EXCEPT ![t].pc = "wait", ![t].todo = rest]
        /\ req' = [req EXCEPT ![t] = q]
        /\ UNCHANGED <<mut, outbox, paper, orphans, canon, revision, receipts, shown>>
    BY <1>1, <1>2, <1>3, <1>4, <1>5, <1>6, Zenon DEF SendPush, device, server
  <1>8. TypeOK /\ TypeOK' /\ Phase(t) /\ Placed(t) /\ Pulled(t) /\ todo \in Seq(Mutations)
    BY <1>2, TabType DEF Sound, IInv, SeenInv
  <1>9. /\ tab'[t].todo = rest /\ tab'[t].pc = "wait" /\ tab'[t].snap = tab[t].snap
        /\ \A u \in Tabs : u # t => tab'[u] = tab[u] /\ req'[u] = req[u]
        /\ req'[t] = q
    BY <1>7, <1>8, TabType DEF TypeOK
  <1>10. q.left = batch /\ q.sent = batch /\ q.rejected = {} /\ q.last = LastApplied(d, P)
    BY <1>6
  <1>11. /\ \A i \in DOMAIN batch : i \in DOMAIN todo /\ batch[i] = todo[i]
         /\ \A i \in DOMAIN rest : i + BatchSize \in DOMAIN todo /\ rest[i] = todo[i + BatchSize]
         /\ \A i \in DOMAIN todo : i \in DOMAIN batch
                                   \/ (i - BatchSize \in DOMAIN rest /\ i > BatchSize)
         /\ \A i \in DOMAIN batch : i \in Nat \ {0} /\ i <= BatchSize
    BY <1>3, <1>4, <1>8, Batches
  <1>12. DOMAIN todo \subseteq Nat /\ DOMAIN rest \subseteq Nat /\ BatchSize \in Nat
    <2>1. rest \in Seq(Mutations)
      BY <1>4, <1>8, Batches
    <2> QED  BY <1>8, <2>1, BatchSizeType, LenProperties
  <1>13. RangeOf(todo) = RangeOf(batch) \cup RangeOf(rest)
    <2>1. RangeOf(batch) \subseteq RangeOf(todo) /\ RangeOf(rest) \subseteq RangeOf(todo)
      BY <1>11 DEF RangeOf
    <2>2. ASSUME NEW i \in DOMAIN todo PROVE todo[i] \in RangeOf(batch) \cup RangeOf(rest)
      <3>1. CASE i \in DOMAIN batch
        BY <1>11, <3>1 DEF RangeOf
      <3>2. CASE i - BatchSize \in DOMAIN rest
        <4>1. rest[i - BatchSize] = todo[i]
          BY <1>11, <1>12, <3>2
        <4> QED  BY <3>2, <4>1 DEF RangeOf
      <3> QED  BY <1>11, <3>1, <3>2
    <2> QED  BY <2>1, <2>2 DEF RangeOf
  <1>14. RangeOf(req[t].left) = {} /\ RangeOf(req[t].sent) = {}
    <2>1. req[t].left = <<>> /\ req[t].sent = <<>>
      BY <1>7, <1>8 DEF Phase, NoRequest
    <2> QED  BY <2>1, EmptySeq DEF RangeOf
  <1>15. Refusals(t)' /\ Phase(t)'
    BY <1>9, <1>10 DEF Refusals, Phase, RangeOf
  <1>16. Placed(t)'
    <2> SUFFICES ASSUME Alone(DeviceOf[t]), NEW m \in Mutations, outbox[m] = "pending",
                        mut[m].dev = DeviceOf[t], mut[m].key \notin GatedKeys
                 PROVE  m \in RangeOf(rest) \/ m \in RangeOf(batch) \/ Unsent(m)'
      BY <1>7, <1>9, <1>10 DEF Placed, PendingOf, Alone, RangeOf
    <2>1. m \in RangeOf(todo) \/ Unsent(m)
      BY <1>2, <1>7, <1>8, <1>14 DEF Placed, PendingOf
    <2> QED  BY <1>7, <1>13, <2>1 DEF Unsent, Known
  <1>17. Pulled(t)'
    BY <1>7, <1>8, <1>9 DEF Pulled
  <1>18. RequestVouched(d, q)'
    <2>1. Own(d, batch)'
      <3>1. Own(d, todo)
        BY <1>1, <1>2 DEF Sound, IInv, TabOK
      <3> QED  BY <1>7, <1>11, <3>1 DEF Own, Issued
    <2>2. P \in SUBSET Mutations
      <3>1. \A m \in RangeOf(batch) : m \in Mutations /\ mut[m].key \in Keys
        <4>1. \A m \in RangeOf(batch) : m \in Mutations
          <5>1. batch \in Seq(Mutations)
            BY <1>3, <1>8, Batches
          <5> QED  BY <5>1, LenProperties, ElementOfSeq DEF RangeOf
        <4>2. \A m \in RangeOf(batch) : Issued(m)
          BY <2>1, <1>7 DEF Own, Issued, RangeOf
        <4> QED  BY <1>8, <4>1, <4>2, BodyType
      <3> QED  BY <1>5, <1>8, <3>1 DEF Predecessors, TypeOK
    <2>3. ASSUME NEW k \in Keys PROVE Vouched(d, k, q.last[k])'
      <3>1. PICK x : x = q.last[k]
        OBVIOUS
      <3>2. CASE x = 0
        <4>1. Vouched(d, k, NoRequest.last[k])'
          BY EmptyVouched DEF RequestVouched
        <4>2. NoRequest.last[k] = 0
          BY DEF NoRequest
        <4> QED  BY <3>1, <3>2, <4>1, <4>2
      <3>3. ASSUME NEW p \in P, Applied(p), mut[p].dev = d, mut[p].key = k, x = receipts[p].rev
            PROVE  Vouched(d, k, q.last[k])'
        <4>1. Known(p)
          BY <1>8, <2>2, <3>3, ReceiptType
        <4>2. x \in Nat /\ Vouched(d, k, x)
          BY <1>8, <2>2, <3>3, <4>1, ReceiptType DEF Sound, SeenInv
        <4>3. Vouched(d, k, x)'
          BY <4>2, VouchedKept
        <4> QED  BY <3>1, <4>3
      <3> QED  BY <1>7, <1>8, <1>10, <2>2, <3>1, <3>2, <3>3, LastAppliedIs
    <2> QED  BY <1>10, <2>1, <2>3 DEF RequestVouched, Own
  <1>19. RequestVouched(DeviceOf[t], req[t])'
    BY <1>1, <1>9, <1>18 DEF RequestVouched, Own, Vouched, Seen, Surfaced
  <1>20. ASSUME NEW n \in Mutations, NEW m \in Mutations, Blocks(n, m)
         PROVE  Leading(t, n, m)'
    <2>1. \A i \in DOMAIN todo : todo[i] = m => \E j \in DOMAIN todo : j < i /\ todo[j] = n
      BY <1>2, <1>14, <1>20 DEF Blocks, Precedes, Leading, Leads
    <2>2. ASSUME NEW i \in DOMAIN batch, batch[i] = m
          PROVE  \E j \in DOMAIN batch : j < i /\ batch[j] = n
      <3>1. PICK j \in DOMAIN todo : j < i /\ todo[j] = n
        BY <1>11, <2>1, <2>2
      <3>2. j \in DOMAIN batch
        BY <1>11, <1>12, <3>1
      <3> QED  BY <1>11, <3>1, <3>2
    <2>3. ASSUME NEW i \in DOMAIN rest, rest[i] = m
          PROVE  n \in RangeOf(batch) \/ \E j \in DOMAIN rest : j < i /\ rest[j] = n
      <3>1. PICK j \in DOMAIN todo : j < i + BatchSize /\ todo[j] = n
        BY <1>11, <2>1, <2>3
      <3>2. CASE j \in DOMAIN batch
        BY <1>11, <3>1, <3>2 DEF RangeOf
      <3>3. CASE j - BatchSize \in DOMAIN rest /\ j > BatchSize
        <4>1. PICK l : l = j - BatchSize
          OBVIOUS
        <4>2. l \in DOMAIN rest /\ l + BatchSize = j /\ l < i
          BY <1>12, <3>1, <3>3, <4>1
        <4>3. rest[l] = n
          BY <1>11, <3>1, <4>2
        <4> QED  BY <4>2, <4>3
      <3> QED  BY <1>11, <3>2, <3>3
    <2> QED  BY <1>9, <1>10, <2>2, <2>3 DEF Leading, Leads, RangeOf
  <1>21. \A e \in Devices, k \in Keys : PaperVouched(e, k)'
    BY <1>7, PaperKept
  <1>22. orphans \subseteq orphans' /\ orphans' \subseteq orphans \cup {req[t]} /\ outbox' = outbox
    BY <1>7
  <1> QED  BY <1>7, <1>9, <1>15, <1>16, <1>17, <1>19, <1>20, <1>21, <1>22, TabSeen

-----------------------------------------------------------------------------
(* Steps of the server.                                                    *)

\* The head of a push is answered, and what follows moves up.
LEMMA HeadAnswered ==
    ASSUME Sound, NEW q \in Request, NEW d \in Devices, NEW refuse \in BOOLEAN,
           RequestVouched(d, q), ServeMutation(q, refuse), mut' = mut
    PROVE  /\ Head(q.left) \in RangeOf(q.left)
           /\ refuse => Issued(Head(q.left)) /\ mut[Head(q.left)].key \in GatedKeys
           /\ \A n \in Mutations : Known(n)' => Known(n) \/ n = Head(q.left)
           /\ RangeOf(Tail(q.left)) \subseteq RangeOf(q.left)
           /\ \A n \in RangeOf(q.left) : mut[n].key \notin GatedKeys =>
                  Known(n)' \/ n \in RangeOf(Tail(q.left))
           /\ \A n, x \in Mutations : mut[n].key \notin GatedKeys /\ ~Known(n)'
                  /\ Leads(n, x, q.left, {}) => Leads(n, x, Tail(q.left), {})
  <1>1. PICK m : m = Head(q.left)
    OBVIOUS
  <1>2. PICK rest : rest = Tail(q.left)
    OBVIOUS
  <1>3. TypeOK /\ \A i \in DOMAIN q.left : Issued(q.left[i])
    BY DEF Sound, IInv, RequestVouched, Own
  <1>4. /\ q.left # <<>> /\ m \in Mutations /\ Issued(m)
        /\ \A n \in Mutations : n # m => receipts'[n] = receipts[n]
        /\ ~refuse => receipts'[m] \in Receipt
    BY <1>1, <1>3, Serving
  <1>5. /\ q.left \in Seq(Mutations) /\ rest \in Seq(Mutations)
        /\ DOMAIN q.left = 1..Len(q.left) /\ DOMAIN rest = 1..Len(rest)
        /\ Len(q.left) \in Nat /\ Len(rest) = Len(q.left) - 1
        /\ \A i \in 1..Len(rest) : rest[i] = q.left[i + 1]
        /\ 1 \in 1..Len(q.left) /\ q.left[1] = m
    BY <1>1, <1>2, <1>4, RequestType, LenProperties, HeadTailProperties, EmptySeq
  <1>6. refuse => mut[m].key \in GatedKeys
    <2> SUFFICES ASSUME refuse, mut[m].key \notin GatedKeys
                 PROVE  FALSE
      OBVIOUS
    <2>1. ~ResolutionAccepted(m)
      BY <1>1, Zenon DEF ServeMutation, MayBeRejected
    <2>2. PICK r : r = mut[m].resolves
      OBVIOUS
    <2>3. r # None /\ ~(Conflict(r) /\ mut[r].key = mut[m].key)
      BY <2>1, <2>2 DEF ResolutionAccepted
    <2>4. r \in Mutations
      BY <1>3, <1>4, <2>2, <2>3, BodyType
    <2> QED  BY <1>4, <2>2, <2>3, <2>4 DEF Sound, SeenInv, Resolutions
  <1>7. ~refuse => Known(m)'
    BY <1>4, Shapes DEF Known
  <1>8. \A n \in Mutations : Known(n)' => Known(n) \/ n = m
    BY <1>4 DEF Known
  <1>9. \A i \in 1..Len(rest) : i + 1 \in 1..Len(q.left)
    BY <1>5
  <1>10. RangeOf(rest) \subseteq RangeOf(q.left)
    BY <1>5, <1>9 DEF RangeOf
  <1>11. ASSUME NEW n \in RangeOf(q.left), mut[n].key \notin GatedKeys, ~Known(n)'
         PROVE  n \in RangeOf(rest)
    <2>1. PICK i \in 1..Len(q.left) : q.left[i] = n
      BY <1>5 DEF RangeOf
    <2>2. i # 1
      BY <1>5, <1>6, <1>7, <1>11, <2>1
    <2>3. i - 1 \in 1..Len(rest) /\ rest[i - 1] = n
      BY <1>5, <2>1, <2>2
    <2> QED  BY <1>5, <2>3 DEF RangeOf
  <1>12. ASSUME NEW n \in Mutations, NEW x \in Mutations, mut[n].key \notin GatedKeys, ~Known(n)',
                Leads(n, x, q.left, {})
         PROVE  Leads(n, x, rest, {})
    <2> SUFFICES ASSUME NEW i \in 1..Len(rest), rest[i] = x
                 PROVE  \E j \in 1..Len(rest) : j < i /\ rest[j] = n
      BY <1>5 DEF Leads
    <2>1. i + 1 \in DOMAIN q.left /\ q.left[i + 1] = x
      BY <1>5, <1>9
    <2>2. PICK j \in 1..Len(q.left) : j < i + 1 /\ q.left[j] = n
      BY <1>5, <1>12, <2>1 DEF Leads
    <2>3. j # 1
      BY <1>5, <1>6, <1>7, <1>12, <2>2
    <2>4. j - 1 \in 1..Len(rest) /\ j - 1 < i /\ rest[j - 1] = n
      BY <1>5, <2>2, <2>3
    <2> QED  BY <2>4
  <1>13. m \in RangeOf(q.left)
    BY <1>5 DEF RangeOf
  <1> QED  BY <1>1, <1>2, <1>4, <1>6, <1>8, <1>10, <1>11, <1>12, <1>13

\* An applied mutation leaves its revision in last_applied.
LEMMA ServedVouched ==
    ASSUME Sound, NEW q \in Request, NEW d \in Devices, NEW refuse \in BOOLEAN,
           RequestVouched(d, q), ServeMutation(q, refuse), mut' = mut, NEW p, p = Served(q, refuse)
    PROVE  /\ RequestVouched(d, p)'
           /\ p \in Request /\ p.left = Tail(q.left) /\ p.sent = q.sent
           /\ p.rejected = q.rejected \cup (IF refuse THEN {Head(q.left)} ELSE {})
  <1>1. PICK m : m = Head(q.left)
    OBVIOUS
  <1>3. TypeOK /\ TypeOK' /\ \A i \in DOMAIN q.left : Issued(q.left[i])
    BY DEF Sound, IInv, RequestVouched, Own
  <1>4. q.left # <<>> /\ m \in Mutations /\ Issued(m)
    BY <1>1, <1>3, Serving
  <1>5. receipts' \in [Mutations -> Receipt \cup {Undecided}]
    BY <1>3 DEF TypeOK
  <1>6. /\ p \in Request /\ p.left = Tail(q.left) /\ p.sent = q.sent
        /\ p.rejected = q.rejected \cup (IF refuse THEN {m} ELSE {})
    BY <1>1, <1>4, <1>5, ServedRequest
  <1>7. q.left \in Seq(Mutations) /\ q.last \in [Keys -> Nat]
    BY RequestType
  <1>8. mut[m].dev = d /\ Own(d, p.left)
    <2>1. /\ DOMAIN q.left = 1..Len(q.left) /\ DOMAIN p.left = 1..Len(p.left)
          /\ Len(q.left) \in Nat /\ Len(p.left) = Len(q.left) - 1
          /\ \A i \in 1..Len(p.left) : p.left[i] = q.left[i + 1]
          /\ 1 \in 1..Len(q.left) /\ q.left[1] = m
      BY <1>1, <1>4, <1>6, <1>7, RequestType, LenProperties, HeadTailProperties, EmptySeq
    <2>2. \A i \in 1..Len(p.left) : i + 1 \in 1..Len(q.left)
      BY <2>1
    <2>3. \A i \in 1..Len(q.left) : Issued(q.left[i]) /\ mut[q.left[i]].dev = d
      BY <2>1 DEF RequestVouched, Own
    <2>4. \A i \in 1..Len(p.left) : Issued(p.left[i]) /\ mut[p.left[i]].dev = d
      BY <2>1, <2>2, <2>3
    <2> QED  BY <2>1, <2>3, <2>4 DEF Own
  <1>9. PICK k \in Keys : k = mut[m].key
    BY <1>3, <1>4, BodyType
  <1>10. PICK l : l = IF receipts'[m].status = "applied"
                      THEN [q.last EXCEPT ![mut[m].key] = receipts'[m].rev] ELSE q.last
    OBVIOUS
  <1>11. p.last = l
    <2>1. PICK rest : rest = Tail(q.left)
      OBVIOUS
    <2>2. PICK rj : rj = IF refuse THEN q.rejected \cup {m} ELSE q.rejected
      OBVIOUS
    <2>3. p = [q EXCEPT !.left = rest, !.rejected = rj, !.last = l]
      BY <1>1, <1>10, <2>1, <2>2, Zenon DEF Served
    <2> QED  BY <2>3 DEF Request
  <1>12. ASSUME NEW j \in Keys PROVE Vouched(d, j, p.last[j])'
    <2>1. CASE l[j] = q.last[j]
      <3>1. Vouched(d, j, q.last[j])'
        BY RequestKept DEF RequestVouched
      <3> QED  BY <1>11, <2>1, <3>1
    <2>2. CASE l[j] # q.last[j]
      <3>1. j = k /\ Applied(m)' /\ l[j] = receipts'[m].rev
        BY <1>7, <1>9, <1>10, <2>2 DEF Applied
      <3>2. Known(m)'
        BY <3>1, Shapes DEF Applied, Known
      <3>3. PICK x : x = receipts'[m].rev
        OBVIOUS
      <3>4. Vouched(d, k, x)'
        <4>1. Vouched(mut[m].dev, mut[m].key, receipts[m].rev)'
          BY <1>4, <3>2, ReceiptsVouched
        <4>2. mut'[m].dev = d /\ mut'[m].key = k
          BY <1>8, <1>9
        <4> QED  BY <3>3, <4>1, <4>2 DEF Vouched, Seen, Surfaced
      <3> QED  BY <1>11, <3>1, <3>3, <3>4
    <2> QED  BY <2>1, <2>2
  <1>13. RequestVouched(d, p)'
    BY <1>8, <1>12 DEF RequestVouched, Own, Issued
  <1> QED  BY <1>1, <1>6, <1>13

LEMMA ServeSeen ==
    ASSUME Sound, NEW t \in Tabs, ServePush(t)
    PROVE  SeenInv'
  <1>1. PICK refuse \in BOOLEAN : ServeMutation(req[t], refuse) /\ req' = [req EXCEPT ![t] = Served(@, refuse)]
    BY DEF ServePush
  <1>2. tab[t].pc = "wait" /\ UNCHANGED <<mut, outbox, paper, tab, orphans>>
    BY DEF ServePush, device
  <1>3. TypeOK /\ TypeOK' /\ Phase(t) /\ Placed(t) /\ Refusals(t) /\ Pulled(t)
    BY DEF Sound, IInv, SeenInv, Replied
  <1>4. PICK q \in Request : q = req[t]
    BY <1>3, TabType
  <1>5. PICK d \in Devices : d = DeviceOf[t]
    BY DeviceOfType
  <1>6. PICK p : p = Served(q, refuse)
    OBVIOUS
  <1>7. PICK m : m = Head(q.left)
    OBVIOUS
  <1>8. PICK rest : rest = Tail(q.left)
    OBVIOUS
  <1>9. RequestVouched(d, q) /\ ServeMutation(q, refuse)
    BY <1>1, <1>4, <1>5 DEF Sound, SeenInv
  <1>10. /\ RequestVouched(d, p)' /\ p.left = rest /\ p.sent = q.sent
         /\ p.rejected = q.rejected \cup (IF refuse THEN {m} ELSE {})
    BY <1>2, <1>6, <1>7, <1>8, <1>9, ServedVouched
  <1>11. /\ m \in RangeOf(q.left)
         /\ refuse => Issued(m) /\ mut[m].key \in GatedKeys
         /\ \A n \in Mutations : Known(n)' => Known(n) \/ n = m
         /\ RangeOf(rest) \subseteq RangeOf(q.left)
         /\ \A n \in RangeOf(q.left) : mut[n].key \notin GatedKeys => Known(n)' \/ n \in RangeOf(rest)
         /\ \A n, x \in Mutations : mut[n].key \notin GatedKeys /\ ~Known(n)'
                  /\ Leads(n, x, q.left, {}) => Leads(n, x, rest, {})
    BY <1>2, <1>7, <1>8, <1>9, HeadAnswered
  <1>12. req'[t] = p /\ \A u \in Tabs : u # t => req'[u] = req[u]
    BY <1>1, <1>3, <1>4, <1>6 DEF TypeOK
  <1>13. m \in RangeOf(q.sent) /\ mut[m].dev = d
    <2>1. m \in RangeOf(q.sent)
      BY <1>3, <1>4, <1>11 DEF Phase
    <2>2. mut[m].dev = d
      BY <1>9, <1>11 DEF RequestVouched, Own, RangeOf
    <2> QED  BY <2>1, <2>2
  <1>14. Phase(t)'
    <2>1. RangeOf(rest) \subseteq RangeOf(q.sent)
      BY <1>3, <1>4, <1>11 DEF Phase
    <2>2. RangeOf(req'[t].left) \subseteq RangeOf(req'[t].sent)
      BY <1>10, <1>12, <2>1
    <2> QED  BY <1>2, <2>2 DEF Phase, RangeOf
  <1>15. Refusals(t)'
    BY <1>2, <1>3, <1>4, <1>10, <1>11, <1>12 DEF Refusals, Issued
  <1>16. ASSUME NEW n \in Mutations, Unsent(n), n # m PROVE Unsent(n)'
    BY <1>2, <1>11, <1>16 DEF Unsent, RangeOf
  <1>17. Placed(t)'
    <2> SUFFICES ASSUME Alone(DeviceOf[t]), NEW n \in Mutations, outbox[n] = "pending",
                        mut[n].dev = DeviceOf[t], mut[n].key \notin GatedKeys
                 PROVE  n \in RangeOf(tab[t].todo) \/ n \in RangeOf(q.sent) \/ Unsent(n)'
      BY <1>2, <1>10, <1>12 DEF Placed, PendingOf, Alone, RangeOf
    <2>1. n \in RangeOf(tab[t].todo) \/ n \in RangeOf(q.sent) \/ Unsent(n)
      BY <1>2, <1>3, <1>4 DEF Placed, PendingOf
    <2> QED  BY <1>13, <1>16, <2>1
  <1>18. Pulled(t)'
    <2>1. revision \in Nat /\ revision' \in Nat /\ revision <= revision'
      BY <1>3 DEF TypeOK, Sound, Grows
    <2>2. \A k \in Keys : tab[t].snap[k].rev \in Nat /\ tab[t].snap[k].rev <= revision
      BY <1>3, TabType DEF Pulled, Snapshot
    <2> QED  BY <1>2, <2>1, <2>2 DEF Pulled
  <1>19. RequestVouched(DeviceOf[t], req[t])'
    BY <1>5, <1>10, <1>12 DEF RequestVouched, Own, Vouched, Seen, Surfaced
  <1>20. PICK todo \in Seq(Mutations) : todo = tab[t].todo
    BY <1>3, TabType
  <1>21. ASSUME NEW n \in Mutations, NEW x \in Mutations, Blocks(n, x), ~Known(n)', mut[x].key \notin GatedKeys
         PROVE  Leading(t, n, x)'
    <2>1. mut[n].key \notin GatedKeys
      BY <1>21 DEF Blocks, Open
    <2>2. Leads(n, x, q.left, {}) /\ Leads(n, x, todo, RangeOf(q.left))
      BY <1>4, <1>20, <1>21 DEF Blocks, Precedes, Leading
    <2>3. Leads(n, x, rest, {})
      BY <1>11, <1>21, <2>1, <2>2
    <2>4. Leads(n, x, todo, RangeOf(rest))
      BY <1>11, <1>21, <2>1, <2>2 DEF Leads
    <2> QED  BY <1>2, <1>10, <1>12, <1>20, <2>3, <2>4 DEF Leading, Leads, RangeOf
  <1>22. PICK T \in SUBSET Tabs : T = {t}
    OBVIOUS
  <1>23. \A n \in Mutations : Unsent(n) => Unsent(n)' \/ \E u \in T : mut[n].dev = DeviceOf[u]
    BY <1>5, <1>13, <1>16, <1>22
  <1>24. /\ \A u \in Tabs \ T : tab'[u] = tab[u] /\ req'[u] = req[u]
         /\ \A u \in T : /\ Refusals(u)' /\ Phase(u)' /\ Placed(u)' /\ Pulled(u)'
                         /\ RequestVouched(DeviceOf[u], req[u])'
    BY <1>2, <1>12, <1>14, <1>15, <1>17, <1>18, <1>19, <1>22
  <1>25. \A n, x \in Mutations : Blocks(n, x) /\ ~Known(n)' /\ mut[x].key \notin GatedKeys =>
               /\ \A u \in T : Leading(u, n, x)'
               /\ \A r \in orphans' \ orphans : Leads(n, x, r.left, {})
    BY <1>2, <1>21, <1>22
  <1>26. \A e \in Devices, k \in Keys : PaperVouched(e, k)'
    BY <1>2, PaperKept
  <1>27. outbox' = outbox /\ orphans' \ orphans = {}
    BY <1>2
  <1> QED  BY <1>2, <1>23, <1>24, <1>25, <1>26, <1>27, QuietSeen

LEMMA OrphanSeen ==
    ASSUME Sound, NEW q \in orphans, ServeOrphan(q)
    PROVE  SeenInv'
  <1>1. PICK refuse \in BOOLEAN :
          /\ ServeMutation(q, refuse)
          /\ orphans' = (orphans \ {q}) \cup
                (IF Len(q.left) = 1 THEN {} ELSE {Served(q, refuse)})
    BY DEF ServeOrphan
  <1>2. UNCHANGED <<mut, outbox, paper, tab, req>>
    BY DEF ServeOrphan, device
  <1>3. q \in Request
    BY DEF Sound, IInv, TypeOK
  <1>4. PICK d \in Devices : RequestVouched(d, q)
    BY DEF Sound, SeenInv
  <1>5. PICK p : p = Served(q, refuse)
    OBVIOUS
  <1>6. PICK m : m = Head(q.left)
    OBVIOUS
  <1>7. PICK rest : rest = Tail(q.left)
    OBVIOUS
  <1>8. RequestVouched(d, p)' /\ p.left = rest
    BY <1>1, <1>2, <1>3, <1>4, <1>5, <1>7, ServedVouched
  <1>9. /\ m \in RangeOf(q.left)
        /\ \A n \in Mutations : Known(n)' => Known(n) \/ n = m
        /\ RangeOf(rest) \subseteq RangeOf(q.left)
        /\ \A n, x \in Mutations : mut[n].key \notin GatedKeys /\ ~Known(n)'
                  /\ Leads(n, x, q.left, {}) => Leads(n, x, rest, {})
    BY <1>1, <1>2, <1>3, <1>4, <1>6, <1>7, HeadAnswered
  <1>10. \A r \in orphans' : r \in orphans \/ r = p
    BY <1>1, <1>5
  <1>11. \A n \in Mutations : Unsent(n) => Unsent(n)'
    <2> SUFFICES ASSUME NEW n \in Mutations, Unsent(n)
                 PROVE  Unsent(n)'
      OBVIOUS
    <2>1. n # m /\ n \notin RangeOf(rest) /\ ~Known(n)
      BY <1>9 DEF Unsent
    <2>2. \A r \in orphans' : n \notin RangeOf(r.left)
      BY <1>8, <1>10, <2>1 DEF Unsent
    <2> QED  BY <1>9, <2>1, <2>2 DEF Unsent, RangeOf
  <1>12. \A r \in orphans' \ orphans : \E e \in Devices : RequestVouched(e, r)'
    BY <1>8, <1>10
  <1>13. ASSUME NEW n \in Mutations, NEW x \in Mutations, Blocks(n, x), ~Known(n)', mut[x].key \notin GatedKeys
         PROVE  \A r \in orphans' \ orphans : Leads(n, x, r.left, {})
    <2>1. mut[n].key \notin GatedKeys
      BY <1>13 DEF Blocks, Open
    <2>2. Leads(n, x, q.left, {})
      BY <1>13 DEF Blocks, Precedes
    <2>3. Leads(n, x, rest, {})
      BY <1>9, <1>13, <2>1, <2>2
    <2> QED  BY <1>8, <1>10, <2>3
  <1>14. \A e \in Devices, k \in Keys : PaperVouched(e, k)'
    BY <1>2, PaperKept
  <1>15. PICK T \in SUBSET Tabs : T = {}
    OBVIOUS
  <1>16. /\ \A u \in Tabs \ T : tab'[u] = tab[u] /\ req'[u] = req[u]
         /\ \A u \in T : /\ Refusals(u)' /\ Phase(u)' /\ Placed(u)' /\ Pulled(u)'
                         /\ RequestVouched(DeviceOf[u], req[u])'
         /\ outbox' = outbox
    BY <1>2, <1>15
  <1>17. \A n, x \in Mutations : Blocks(n, x) /\ ~Known(n)' /\ mut[x].key \notin GatedKeys =>
               /\ \A u \in T : Leading(u, n, x)'
               /\ \A r \in orphans' \ orphans : Leads(n, x, r.left, {})
    BY <1>13, <1>15
  <1>18. \A n \in Mutations : Unsent(n) => Unsent(n)' \/ \E u \in T : mut[n].dev = DeviceOf[u]
    BY <1>11
  <1> QED  BY <1>2, <1>12, <1>14, <1>16, <1>17, <1>18, QuietSeen

-----------------------------------------------------------------------------
(* The invariant and what follows.                                         *)

\* Nothing precedes the head of a push on its way to the server.
LEMMA HeadFirst ==
    ASSUME NEW q \in Request, NEW n, q.left # <<>>, Leads(n, Head(q.left), q.left, {})
    PROVE  FALSE
  <1>1. /\ DOMAIN q.left = 1..Len(q.left) /\ Len(q.left) \in Nat
        /\ 1 \in 1..Len(q.left) /\ q.left[1] = Head(q.left)
    BY RequestType, LenProperties, HeadTailProperties, EmptySeq
  <1>2. \A j \in 1..Len(q.left) : ~(j < 1)
    BY <1>1
  <1> QED  BY <1>1, <1>2 DEF Leads

LEMMA PushDecides ==
    ASSUME IInv, SeenInv, NEW t \in Tabs, ServePush(t)
    PROVE  Decides /\ \A m \in Mutations : ~Known(m) => Regards(m)
  <1>1. PICK refuse \in BOOLEAN : ServeMutation(req[t], refuse)
    BY DEF ServePush
  <1>2. UNCHANGED <<mut, shown>>
    BY DEF ServePush, device
  <1>3. PICK q \in Request : q = req[t]
    BY TabType DEF IInv
  <1>4. PICK d \in Devices : d = DeviceOf[t]
    BY DeviceOfType
  <1>5. RequestVouched(d, q) /\ ServeMutation(q, refuse) /\ q.left # <<>>
    BY <1>1, <1>3, <1>4 DEF SeenInv, ServeMutation
  <1>6. \A n \in Mutations : ~Blocks(n, Head(q.left))
    BY <1>3, <1>5, HeadFirst DEF Blocks, Precedes, Leading
  <1> QED  BY <1>2, <1>5, <1>6, DecisionSeen

LEMMA OrphanDecides ==
    ASSUME IInv, SeenInv, NEW q \in orphans, ServeOrphan(q)
    PROVE  Decides /\ \A m \in Mutations : ~Known(m) => Regards(m)
  <1>1. PICK refuse \in BOOLEAN : ServeMutation(q, refuse)
    BY DEF ServeOrphan
  <1>2. UNCHANGED <<mut, shown>>
    BY DEF ServeOrphan, device
  <1>3. q \in Request /\ q.left # <<>>
    BY <1>1 DEF IInv, TypeOK, ServeMutation
  <1>4. PICK d \in Devices : RequestVouched(d, q)
    BY DEF SeenInv
  <1>5. \A n \in Mutations : ~Blocks(n, Head(q.left))
    BY <1>3, HeadFirst DEF Blocks, Precedes
  <1> QED  BY <1>1, <1>2, <1>3, <1>4, <1>5, DecisionSeen

\* A step that leaves the receipts alone decides nothing.
LEMMA NoDecision ==
    ASSUME TypeOK, receipts' = receipts
    PROVE  Decides /\ \A m \in Mutations : ~Known(m) => Regards(m)
  BY ReceiptType DEF Decides, Regards, Known, Applied

LEMMA NextDecides ==
    ASSUME IInv, SeenInv, [Next]_vars
    PROVE  Decides /\ \A m \in Mutations : ~Known(m) => Regards(m)
  <1>1. TypeOK
    BY DEF IInv
  <1>2. ASSUME NEW t \in Tabs, TabStep(t)
        PROVE  Decides /\ \A m \in Mutations : ~Known(m) => Regards(m)
    BY <1>1, <1>2, NoDecision, PushDecides
       DEF TabStep, StartSync, SendPush, ReceiveResults, PullSnapshot, ApplyPull, server
  <1>3. CASE UserStep
    BY <1>1, <1>3, NoDecision DEF UserStep, QueueMutation, ChooseResolution, WriteResolution, OnlineWrite, server
  <1>4. CASE FaultStep
    BY <1>1, <1>4, NoDecision, OrphanDecides DEF FaultStep, AbortSync, LoseRequest, server
  <1>5. CASE UNCHANGED vars
    BY <1>1, <1>5, NoDecision DEF vars, server
  <1> QED  BY <1>2, <1>3, <1>4, <1>5 DEF Next

LEMMA InitSeen == Init => SeenInv
  <1> SUFFICES ASSUME Init
               PROVE  SeenInv
    OBVIOUS
  <1>1. IInv
    BY InitIInv
  <1>2. \A m \in Mutations : ~Issued(m) /\ ~Known(m)
    BY DEF Init, Issued, Known
  <1>3. orphans = {} /\ revision = 0 /\ \A k \in Keys : canon[k].rev = 0
    BY DEF Init
  <1>4. ASSUME NEW t \in Tabs
        PROVE  Phase(t) /\ Placed(t) /\ Refusals(t) /\ Pulled(t) /\ RequestVouched(DeviceOf[t], req[t])
    <2>1. tab[t] = Idle /\ req[t] = NoRequest
      BY DEF Init
    <2>2. /\ Idle.pc = "idle" /\ Idle.todo = <<>> /\ Idle.snap = NoSnapshot
          /\ NoRequest.left = <<>> /\ NoRequest.sent = <<>> /\ NoRequest.rejected = {}
      BY DEF Idle, NoRequest
    <2>3. \A k \in Keys : NoSnapshot[k].rev = 0
      BY DEF NoSnapshot
    <2>4. RequestVouched(DeviceOf[t], req[t])
      BY <1>1, <2>1, DeviceOfType, NothingVouched DEF IInv
    <2> QED  BY <1>3, <2>1, <2>2, <2>3, <2>4 DEF Phase, Placed, Refusals, Pulled, RangeOf
  <1>5. ASSUME NEW d \in Devices, NEW k \in Keys
        PROVE  PaperVouched(d, k)
    <2>1. paper[d][k].rev = 0
      BY DEF Init, NoSnapshot
    <2> QED  BY <1>3, <2>1 DEF PaperVouched, Vouched, Seen
  <1>6. Resolutions /\ Replied
    BY <1>2, <1>4 DEF Resolutions, Replied
  <1> QED  BY <1>2, <1>3, <1>4, <1>5, <1>6 DEF SeenInv

LEMMA NextSeen == IInv /\ OrderInv /\ SeenInv /\ [Next]_vars => SeenInv'
  <1> SUFFICES ASSUME IInv, OrderInv, SeenInv, [Next]_vars
               PROVE  SeenInv'
    OBVIOUS
  <1>1. Sound
    BY NextIInv, NextGrows, NextDecides DEF Sound
  <1>2. ASSUME NEW t \in Tabs, TabStep(t) PROVE SeenInv'
    BY <1>1, <1>2, StartSeen, SendSeen, ServeSeen, ReceiveSeen, PullSeen, ApplySeen DEF TabStep
  <1>3. CASE UserStep
    <2>1. ASSUME NEW m \in Mutations, NEW keepLocal \in BOOLEAN, ChooseResolution(m, keepLocal)
          PROVE  SeenInv'
      BY <1>1, <2>1, RestSeen DEF ChooseResolution, server
    <2>2. ASSUME NEW k \in Keys, NEW v \in FieldValue, OnlineWrite(k, v)
          PROVE  SeenInv'
      BY <1>1, <2>2, RestSeen DEF OnlineWrite, device
    <2> QED  BY <1>1, <1>3, <2>1, <2>2, QueueSeen, ResolveSeen DEF UserStep
  <1>4. CASE FaultStep
    BY <1>1, <1>4, AbortSeen, LoseSeen, OrphanSeen DEF FaultStep
  <1>5. CASE UNCHANGED vars
    BY <1>1, <1>5, RestSeen DEF vars, device, server
  <1> QED  BY <1>2, <1>3, <1>4, <1>5 DEF Next

\* Every revision that may become the base of a write covers no foreign value
\* that has not surfaced.
THEOREM Vouching == Spec => [](IInv /\ OrderInv /\ SeenInv)
  <1>1. Init => IInv /\ OrderInv /\ SeenInv
    BY InitIInv, InitOrder, InitSeen
  <1>2. IInv /\ OrderInv /\ SeenInv /\ [Next]_vars => (IInv /\ OrderInv /\ SeenInv)'
    BY NextIInv, NextOrder, NextSeen
  <1> QED  BY <1>1, <1>2, PTL DEF Spec

\* Only edits of the fields the gate guards are refused.
RejectedGated == \A m \in Mutations : outbox[m] = "rejected" => mut[m].key \in GatedKeys

\* A push reports a refusal only of what the gate refused.
LEMMA ReceiveRejects ==
    ASSUME IInv, SeenInv, RejectedGated, Frozen, NEW t \in Tabs, ReceiveResults(t)
    PROVE  RejectedGated'
  <1> SUFFICES ASSUME NEW m \in Mutations, outbox'[m] = "rejected"
               PROVE  mut'[m].key \in GatedKeys
    BY DEF RejectedGated
  <1>1. mut' = mut
    BY DEF ReceiveResults
  <1>2. outbox'[m] = RowAfter(t, m) \/ outbox'[m] = outbox[m]
    BY DEF ReceiveResults
  <1>3. CASE outbox'[m] = RowAfter(t, m)
    <2>1. m \in req[t].rejected
      BY <1>3 DEF RowAfter
    <2> QED  BY <1>1, <2>1 DEF SeenInv, Replied, Refusals
  <1>4. CASE outbox'[m] = outbox[m]
    BY <1>1, <1>4 DEF RejectedGated
  <1> QED  BY <1>2, <1>3, <1>4

\* The user's steps set no row to rejected.
LEMMA UserRejects ==
    ASSUME IInv, RejectedGated, Frozen, UserStep
    PROVE  RejectedGated'
  <1> SUFFICES ASSUME NEW m \in Mutations, outbox'[m] = "rejected"
               PROVE  mut'[m].key \in GatedKeys
    BY DEF RejectedGated
  <1>1. outbox \in [Mutations -> {"unused", "pending", "conflict", "rejected", "retired"}]
    BY DEF IInv, TypeOK
  <1>2. outbox[m] = "rejected"
    BY <1>1 DEF UserStep, QueueMutation, ChooseResolution, WriteResolution, OnlineWrite, device
  <1>3. Issued(m)
    BY <1>2 DEF IInv, Bodies
  <1> QED  BY <1>2, <1>3 DEF RejectedGated, Frozen

LEMMA NextRejects == IInv /\ SeenInv /\ RejectedGated /\ [Next]_vars => RejectedGated'
  <1> SUFFICES ASSUME IInv, SeenInv, RejectedGated, [Next]_vars
               PROVE  RejectedGated'
    OBVIOUS
  <1>1. Frozen
    BY NextIInv
  <1>2. ASSUME UNCHANGED <<mut, outbox>>
        PROVE  RejectedGated'
    BY <1>2 DEF RejectedGated
  <1>3. ASSUME NEW t \in Tabs, TabStep(t)
        PROVE  RejectedGated'
    BY <1>1, <1>2, <1>3, ReceiveRejects
       DEF TabStep, StartSync, SendPush, ServePush, PullSnapshot, ApplyPull, device
  <1>4. CASE FaultStep
    BY <1>2, <1>4 DEF FaultStep, AbortSync, LoseRequest, ServeOrphan, device
  <1>5. CASE UNCHANGED vars
    BY <1>2, <1>5 DEF vars, device
  <1> QED  BY <1>1, <1>3, <1>4, <1>5, UserRejects DEF Next

\* Only edits the gate may refuse are marked rejected in the outbox.
THEOREM Rejections == Spec => []RejectedGated
  <1>1. Init => RejectedGated
    BY DEF Init, RejectedGated
  <1> QED  BY <1>1, NextRejects, Vouching, PTL DEF Spec

\* The row of a conflict the gate could not refuse is on the device, or its
\* conflict has been resolved.
LEMMA ConflictKept ==
    ASSUME IInv, RejectedGated, NEW c \in Mutations, Conflict(c), mut[c].key \notin GatedKeys
    PROVE  outbox[c] \in {"pending", "conflict"} \/ Resolved(c)
  <1>1. outbox[c] \in {"unused", "pending", "conflict", "rejected", "retired"}
    BY DEF IInv, TypeOK
  <1>2. outbox[c] # "unused"
    BY ReceiptType DEF IInv, Bodies, Known, Conflict, Undecided
  <1>3. outbox[c] # "rejected"
    BY DEF RejectedGated
  <1>4. CASE outbox[c] = "retired"
    <2>1. ~Applied(c)
      BY DEF Applied, Conflict
    <2> QED  BY <1>4, <2>1 DEF IInv, NoEditForgotten, Resolved, Issued
  <1> QED  BY <1>1, <1>2, <1>3, <1>4

\* No edit of somebody else is overwritten without a trace: when a lone tab's
\* device overwrites a field the gate does not guard, its user was shown the
\* value, or an edit of the device has met a conflict that names it and its
\* row is there to tell, or resolved.  The user may learn of the conflict
\* after the overwrite (applyPull, apply_sync_mutation, applyPushResults).
THEOREM ForeignEditsSeen == Spec => ForeignEditsSurface
  <1>1. ASSUME IInv, SeenInv, RejectedGated, [Next]_vars, NEW m \in Mutations, Overwrites(m)
        PROVE  \/ WasShown(m)
               \/ \E c \in Mutations : Names(c, m) /\ (outbox[c] \in {"pending", "conflict"} \/ Resolved(c))
    <2>1. PICK d, k : d = mut[m].dev /\ k = mut[m].key
      OBVIOUS
    <2>2. Regards(m) /\ Free(d, k)
      BY <1>1, <2>1, NextDecides DEF Overwrites, Known, Free
    <2>3. Surfaced(d, k, canon[k].rev)
      BY <1>1, <2>1, <2>2 DEF Regards, Overwrites, Known
    <2>4. CASE canon[k].rev <= shown[d][k]
      BY <2>1, <2>4 DEF WasShown
    <2>5. ASSUME NEW c \in Mutations, Conflict(c), mut[c].dev = d, mut[c].key = k,
                 canon[k].rev <= receipts[c].rev
          PROVE  Names(c, m) /\ (outbox[c] \in {"pending", "conflict"} \/ Resolved(c))
      BY <1>1, <2>1, <2>2, <2>5, ConflictKept DEF Names, Free
    <2> QED  BY <2>3, <2>4, <2>5 DEF Surfaced
  <1>2. IInv /\ SeenInv /\ RejectedGated /\ [Next]_vars =>
          \A m \in Mutations : Overwrites(m) =>
            \/ WasShown(m)
            \/ \E c \in Mutations : Names(c, m) /\ (outbox[c] \in {"pending", "conflict"} \/ Resolved(c))
    BY <1>1
  <1> QED  BY <1>2, Vouching, Rejections, PTL DEF Spec, ForeignEditsSurface
=============================================================================
