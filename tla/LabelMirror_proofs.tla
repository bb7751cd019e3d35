-------------------------- MODULE LabelMirror_proofs --------------------------
(***************************************************************************)
(* Proofs about LabelMirror, for any requests, passes and bounds.          *)
(*                                                                         *)
(* IInv says how the rows number their changes (Log), what the holder of   *)
(* the writer lock has done to the tag (LockOK), and what a reconciliation *)
(* may conclude from a tag and a change it read earlier (PassOK).          *)
(***************************************************************************)
EXTENDS LabelMirror, TLAPS

Log ==
    /\ \A a \in Aliases : /\ row[a].revision <= revision
                          /\ row[a].revision = 0 => row[a].label = NoLabel
    /\ Newest.revision = revision
    /\ \A m \in mirrored : m <= revision

\* What the mirror of the newest change leaves in Zotero.
Clean == Newest.label = NoLabel => tag = NoLabel \/ hand

LockOK ==
    /\ \A q \in Requests : request[q].pc = "written" => lock = q
    /\ \A p \in Passes : pass[p].pc = "retrywritten" => lock = p
    /\ lock # Nobody => revision > 0 /\ Clean

PassOK(s) ==
    /\ s.seen.revision <= revision
    /\ s.seen.revision = revision => s.seen.label = Newest.label
    /\ s.pc \in {"retry", "retrywritten", "pinned"} =>
         /\ s.seen.revision > 0
         /\ s.live = NoLabel /\ s.seen.revision = revision => Clean
    /\ s.pc = "live" /\ s.done => s.seen.revision \in mirrored
    /\ s.pc = "set" =>
         (s.seen.revision = revision /\ Retracted(Newest) /\ s.live # NoLabel => s.by)

IInv == /\ TypeOK /\ Log /\ LockOK /\ (\A p \in Passes : PassOK(pass[p]))
        /\ AcknowledgedRetractionsAreGone

\* The body of ReturnsByHandOnly.
ByHand ==
    \A p \in Passes :
        (Retracted(Newest) /\ Newest'.label # NoLabel /\ pass'[p] # pass[p]) => pass[p].by

-----------------------------------------------------------------------------
LEMMA NewestType ==
    ASSUME TypeOK
    PROVE  /\ Newest \in Change
           /\ revision \in Nat
           /\ \A a \in Aliases : row[a] \in Row
  <1>1. row[Lib] \in Row /\ row[Feed] \in Row /\ Lib \in Aliases /\ Feed \in Aliases
    BY DEF TypeOK, Aliases
  <1> QED  BY <1>1, BoundsType DEF TypeOK, Newest, Change, Row

LEMMA IdleType == Idle \in Pass
  BY BoundsType DEF Idle, Pass, Change, Aliases, Labels

LEMMA InitOK ==
    Init => IInv
  <1> SUFFICES ASSUME Init PROVE IInv
    OBVIOUS
  <1>1. NoRow \in Row
    BY BoundsType DEF NoRow, Row, Labels
  <1>2. row \in [Aliases -> Row] /\ \A a \in Aliases : row[a] = NoRow
    BY <1>1 DEF Init
  <1>3. Newest = [key |-> Lib, label |-> NoLabel, revision |-> 0]
    BY <1>2 DEF Newest, NoRow, Aliases
  <1>4. request \in [Requests -> Request] /\ \A q \in Requests : request[q].pc = "new"
    BY DEF Init, Request
  <1>5. pass \in [Passes -> Pass] /\ \A p \in Passes : pass[p] = Idle
    BY IdleType DEF Init
  <1>6. TypeOK
    <2>1. revision \in 0..MaxRevision /\ edits \in 0..MaxEdits /\ restarts \in 0..MaxRestarts
      BY BoundsType DEF Init
    <2>2. mirrored = {} /\ lock = Nobody /\ tag \in Labels /\ hand = FALSE /\ trashed = FALSE
      BY DEF Init, Labels
    <2> QED  BY <1>2, <1>4, <1>5, <2>1, <2>2 DEF TypeOK
  <1>7. Log
    BY <1>2, <1>3 DEF Init, Log, NoRow
  <1>8. LockOK
    BY <1>4, <1>5 DEF Init, LockOK, Idle
  <1>9. \A p \in Passes : PassOK(pass[p])
    BY <1>3, <1>5 DEF Init, PassOK, Idle
  <1>10. AcknowledgedRetractionsAreGone
    BY DEF Init, AcknowledgedRetractionsAreGone
  <1> QED  BY <1>6, <1>7, <1>8, <1>9, <1>10 DEF IInv

\* A change of a row is the newest.
LEMMA Committed ==
    ASSUME TypeOK, Log, NEW a \in Aliases, NEW x \in Row, row' = [row EXCEPT ![a] = x],
           x.revision = revision + 1, revision' = revision + 1, mirrored' = mirrored
    PROVE  Log' /\ Newest'.label = x.label /\ Newest'.revision = revision + 1
  <1>1. row[Lib] \in Row /\ row[Feed] \in Row /\ Lib # Feed /\ Aliases = {Lib, Feed} /\ revision \in Nat
    BY AliasesType, BoundsType DEF TypeOK, Aliases
  <1>2. row[Lib].revision <= revision /\ row[Feed].revision <= revision
        /\ row[Lib].revision \in Nat /\ row[Feed].revision \in Nat
    BY <1>1, BoundsType DEF Log, Row
  <1>3. /\ row'[a] = x /\ \A b \in Aliases \ {a} : row'[b] = row[b]
    BY DEF TypeOK
  <1>4. Newest'.label = x.label /\ Newest'.revision = revision + 1
    <2>1. CASE a = Lib
      <3>1. row'[Lib].revision = revision + 1 /\ row'[Feed].revision <= revision
            /\ row'[Feed].revision \in Nat
        BY <1>1, <1>2, <1>3, <2>1
      <3>2. ~(row'[Feed].revision > row'[Lib].revision)
        BY <1>1, <3>1
      <3> QED  BY <1>3, <2>1, <3>1, <3>2 DEF Newest
    <2>2. CASE a = Feed
      <3>1. row'[Feed].revision = revision + 1 /\ row'[Lib].revision <= revision
            /\ row'[Lib].revision \in Nat
        BY <1>1, <1>2, <1>3, <2>2
      <3>2. row'[Feed].revision > row'[Lib].revision
        BY <1>1, <3>1
      <3> QED  BY <1>3, <2>2, <3>1, <3>2 DEF Newest
    <2> QED  BY <1>1, <2>1, <2>2
  <1>5. \A b \in Aliases : row'[b].revision <= revision + 1
                            /\ (row'[b].revision = 0 => row'[b].label = NoLabel)
    <2> TAKE b \in Aliases
    <2>1. CASE b = a
      BY <1>1, <1>3, <2>1
    <2>2. CASE b # a
      <3>1. row'[b] = row[b] /\ row[b].revision <= revision /\ row[b].revision \in Nat
        BY <1>1, <1>2, <1>3, <2>2
      <3> QED  BY <1>1, <3>1 DEF Log
    <2> QED  BY <2>1, <2>2
  <1>6. \A m \in mirrored : m <= revision + 1
    BY <1>1, BoundsType DEF Log, TypeOK
  <1> QED  BY <1>4, <1>5, <1>6 DEF Log

\* The two kinds of commit: nothing new, or a new newest change.
Quiet == revision' = revision /\ Newest' = Newest /\ Log'
Fresh == revision' = revision + 1 /\ Newest'.revision = revision + 1 /\ Log'

LEMMA UpsertOK ==
    ASSUME TypeOK, Log, NEW a \in Aliases, NEW v \in Priorities, NEW z \in BOOLEAN, Upsert(a, v, z),
           mirrored' = mirrored
    PROVE  /\ row' \in [Aliases -> Row] /\ revision' \in 0..MaxRevision
           /\ Quiet \/ (Fresh /\ Newest'.label = v)
  <1>1. row[a] \in Row /\ revision \in Nat /\ revision < MaxRevision
    BY BoundsType DEF Upsert, TypeOK
  <1>2. CASE row[a].label = v
    <2>1. row' = [row EXCEPT ![a].fromZotero = z] /\ revision' = revision
      BY <1>2 DEF Upsert
    <2>2. row' \in [Aliases -> Row]
      BY <1>1, <2>1 DEF TypeOK, Row
    <2>3. \A b \in Aliases : row'[b].label = row[b].label /\ row'[b].revision = row[b].revision
      BY <1>1, <2>1 DEF TypeOK, Row
    <2>4. Newest' = Newest
      BY <2>3 DEF Newest, Aliases
    <2>5. Log'
      BY <2>1, <2>3, <2>4 DEF Log
    <2> QED  BY <2>1, <2>2, <2>4, <2>5 DEF Quiet, TypeOK
  <1>3. CASE row[a].label # v
    <2>a. PICK x : x = [label |-> v, fromZotero |-> z, revision |-> revision + 1]
      OBVIOUS
    <2>1. row' = [row EXCEPT ![a] = x] /\ revision' = revision + 1
      BY <1>3, <2>a DEF Upsert
    <2>2. revision + 1 \in 0..MaxRevision
      BY <1>1, BoundsType
    <2>3. x \in Row /\ x.label = v /\ x.revision = revision + 1
      BY <2>2, <2>a DEF Row, Labels
    <2>4. row' \in [Aliases -> Row]
      BY <2>1, <2>3 DEF TypeOK
    <2> QED  BY <2>1, <2>2, <2>3, <2>4, Committed DEF Fresh
  <1> QED  BY <1>2, <1>3

LEMMA DeleteOK ==
    ASSUME TypeOK, Log, NEW a \in Aliases, Delete(a), mirrored' = mirrored
    PROVE  /\ row' \in [Aliases -> Row] /\ revision' \in 0..MaxRevision
           /\ Quiet \/ (Fresh /\ Newest'.label = NoLabel)
  <1>1. CASE row[a].label = NoLabel
    <2>1. row' = row /\ revision' = revision
      BY <1>1 DEF Delete
    <2>2. Newest' = Newest /\ Log'
      BY <2>1 DEF Newest, Log
    <2> QED  BY <2>1, <2>2 DEF Quiet, TypeOK
  <1>2. CASE row[a].label # NoLabel
    <2>a. PICK x : x = [NoRow EXCEPT !.revision = revision + 1]
      OBVIOUS
    <2>1. row' = [row EXCEPT ![a] = x] /\ revision' = revision + 1 /\ revision < MaxRevision
      BY <1>2, <2>a DEF Delete
    <2>2. revision + 1 \in 0..MaxRevision
      BY <2>1, BoundsType DEF TypeOK
    <2>3. x \in Row /\ x.label = NoLabel /\ x.revision = revision + 1
      BY <2>2, <2>a DEF Row, NoRow, Labels
    <2>4. row' \in [Aliases -> Row]
      BY <2>1, <2>3 DEF TypeOK
    <2> QED  BY <2>1, <2>2, <2>3, <2>4, Committed DEF Fresh
  <1> QED  BY <1>1, <1>2

-----------------------------------------------------------------------------
(* What a step does to the parts that passes and receipts depend on.       *)

\* A commit makes older readings worthless or leaves them as they are.
LEMMA CommitKeeps ==
    ASSUME IInv, Quiet \/ Fresh, mirrored' = mirrored, tag' = tag, Quiet => hand' = hand
    PROVE  /\ Log' /\ (\A s \in Pass : PassOK(s) => PassOK(s)')
           /\ AcknowledgedRetractionsAreGone'
  <1>1. revision \in Nat /\ \A s \in Pass : s.seen.revision \in Nat
    BY BoundsType DEF IInv, TypeOK, Pass, Change
  <1>2. CASE Quiet
    BY <1>2 DEF Quiet, IInv, PassOK, Clean, Retracted, AcknowledgedRetractionsAreGone
  <1>3. CASE Fresh
    <2>1. \A s \in Pass : PassOK(s) => PassOK(s)'
      <3> SUFFICES ASSUME NEW s \in Pass, PassOK(s) PROVE PassOK(s)'
        OBVIOUS
      <3>1. s.seen.revision <= revision' /\ s.seen.revision # revision'
        BY <1>1, <1>3 DEF Fresh, PassOK
      <3> QED  BY <3>1 DEF PassOK
    <2>2. Newest'.revision \notin mirrored'
      BY <1>1, <1>3 DEF Fresh, IInv, Log
    <2> QED  BY <1>3, <2>1, <2>2 DEF Fresh, AcknowledgedRetractionsAreGone
  <1> QED  BY <1>2, <1>3

\* The tag moves, or nothing does.
LEMMA TagKeeps ==
    ASSUME IInv, UNCHANGED <<row, revision, mirrored>>, Clean => Clean'
    PROVE  /\ Log' /\ Newest' = Newest /\ (\A s \in Pass : PassOK(s) => PassOK(s)')
           /\ AcknowledgedRetractionsAreGone'
  <1>1. Newest' = Newest
    BY DEF Newest
  <1>2. Log' /\ (\A s \in Pass : PassOK(s) => PassOK(s)')
    BY <1>1 DEF IInv, Log, PassOK, Retracted
  <1>3. AcknowledgedRetractionsAreGone'
    BY <1>1 DEF IInv, AcknowledgedRetractionsAreGone, Retracted, Clean
  <1> QED  BY <1>1, <1>2, <1>3

\* A receipt is written.
LEMMA ReceiptKeeps ==
    ASSUME IInv, UNCHANGED <<row, revision, tag, hand>>, Clean \/ mirrored' = mirrored,
           mirrored' = mirrored \/ (revision > 0 /\ mirrored' = mirrored \cup {revision})
    PROVE  /\ Log' /\ Newest' = Newest /\ (\A s \in Pass : PassOK(s) => PassOK(s)')
           /\ AcknowledgedRetractionsAreGone' /\ mirrored' \subseteq 1..MaxRevision
  <1>1. Newest' = Newest
    BY DEF Newest
  <1>2. revision \in 0..MaxRevision /\ revision \in Nat /\ mirrored \subseteq 1..MaxRevision
    BY BoundsType DEF IInv, TypeOK
  <1>3. Log'
    <2>1. \A m \in mirrored : m <= revision
      BY DEF IInv, Log
    <2>2. revision <= revision
      BY <1>2
    <2>3. \A m \in mirrored' : m <= revision
      <3>1. CASE mirrored' = mirrored
        BY <2>1, <3>1
      <3>2. CASE mirrored' = mirrored \cup {revision}
        BY <2>1, <2>2, <3>2
      <3> QED  BY <3>1, <3>2
    <2> QED  BY <1>1, <2>3 DEF IInv, Log
  <1>6. Clean' <=> Clean
    BY <1>1 DEF Clean
  <1>7. \A s \in Pass : PassOK(s) => PassOK(s)'
    <2>1. mirrored \subseteq mirrored'
      OBVIOUS
    <2> QED  BY <1>1, <1>6, <2>1 DEF PassOK, Retracted
  <1>4. AcknowledgedRetractionsAreGone'
    <2>1. CASE mirrored' = mirrored
      BY <1>1, <2>1 DEF IInv, AcknowledgedRetractionsAreGone, Retracted
    <2>2. CASE Clean
      BY <1>1, <2>2 DEF AcknowledgedRetractionsAreGone, Retracted, Clean
    <2> QED  BY <2>1, <2>2
  <1>5. mirrored' \subseteq 1..MaxRevision
    <2>1. CASE mirrored' = mirrored
      BY <1>2, <2>1
    <2>2. CASE revision > 0 /\ mirrored' = mirrored \cup {revision}
      <3>1. revision \in 1..MaxRevision
        BY <1>2, <2>2, BoundsType
      <3> QED  BY <1>2, <2>2, <3>1
    <2> QED  BY <2>1, <2>2
  <1> QED  BY <1>1, <1>3, <1>4, <1>5, <1>7

LEMMA PassesKeep ==
    ASSUME IInv, \A s \in Pass : PassOK(s) => PassOK(s)'
    PROVE  \A p \in Passes : pass'[p] = pass[p] => PassOK(pass[p])'
  <1> SUFFICES ASSUME NEW p \in Passes, pass'[p] = pass[p] PROVE PassOK(pass[p])'
    OBVIOUS
  <1>1. PICK x : x = pass[p]
    OBVIOUS
  <1>2. x \in Pass /\ PassOK(x)
    BY <1>1 DEF IInv, TypeOK
  <1>3. PassOK(x)'
    BY <1>2
  <1> QED  BY <1>1, <1>3 DEF PassOK

LEMMA AcknowledgedIs ==
    ASSUME IInv
    PROVE  /\ Acknowledged = mirrored \/ (Newest.label = NoLabel /\ Acknowledged = mirrored \cup {revision})
  BY DEF Acknowledged, IInv, Log

LEMMA WriteTagOK ==
    ASSUME IInv, NEW t \in Threads, NEW d \in BOOLEAN, WriteTag(t, d), UNCHANGED <<row, revision, mirrored>>
    PROVE  /\ Clean' /\ lock' = t /\ lock = Nobody /\ revision > 0 /\ tag' \in Labels /\ hand' \in BOOLEAN
  <1>1. Newest' = Newest /\ Newest.revision = revision /\ Newest.label \in Labels
    BY NewestType DEF Newest, IInv, Log, Change
  <1>2. lock' = t /\ lock = Nobody /\ revision > 0
    BY <1>1 DEF WriteTag, LockFree
  <1>3. CASE Pending(d)
    BY <1>1, <1>2, <1>3 DEF WriteTag, Clean
  <1>4. CASE ~Pending(d)
    <2>1. Newest.label = NoLabel /\ Newest.revision \in mirrored /\ tag' = tag /\ hand' = hand
      BY <1>4 DEF WriteTag, Pending
    <2>2. tag = NoLabel \/ hand
      BY <1>1, <1>2, <2>1 DEF IInv, AcknowledgedRetractionsAreGone, Retracted
    <2> QED  BY <1>1, <1>2, <2>1, <2>2 DEF Clean, IInv, TypeOK
  <1> QED  BY <1>3, <1>4

-----------------------------------------------------------------------------
(* Zotero and the requests.                                                *)

LEMMA ZoteroOK ==
    ASSUME IInv, Trash \/ \E v \in Labels : EditTag(v)
    PROVE  IInv' /\ ByHand
  <1>1. UNCHANGED <<row, revision, mirrored, lock, request, pass, restarts>>
    BY DEF Trash, EditTag, ZoteroOnly
  <1>2. Clean => Clean'
    BY DEF Trash, EditTag, ZoteroOnly, Clean, Newest
  <1>3. TypeOK'
    <2>1. edits' \in 0..MaxEdits
      BY BoundsType DEF Trash, EditTag, IInv, TypeOK
    <2>2. tag' \in Labels /\ hand' \in BOOLEAN /\ trashed' \in BOOLEAN
      BY DEF Trash, EditTag, IInv, TypeOK
    <2> QED  BY <1>1, <2>1, <2>2 DEF IInv, TypeOK
  <1>4. LockOK'
    BY <1>1, <1>2 DEF IInv, LockOK
  <1>5. \A p \in Passes : pass[p] \in Pass
    BY DEF IInv, TypeOK
  <1> QED  BY <1>1, <1>2, <1>3, <1>4, <1>5, TagKeeps DEF IInv, ByHand

LEMMA SubmitOK ==
    ASSUME IInv, NEW q \in Requests, Submit(q)
    PROVE  IInv' /\ ByHand
  <1>a. PICK r : r = request[q]
    OBVIOUS
  <1>1. r \in Request /\ r.pc = "new" /\ lock = Nobody /\ TypeOK /\ Log
    BY <1>a DEF Submit, LockFree, IInv, TypeOK
  <1>2. UNCHANGED <<mirrored, lock, tag>>
    BY DEF Submit
  <1>3. /\ row' \in [Aliases -> Row] /\ revision' \in 0..MaxRevision /\ (Quiet \/ Fresh)
        /\ \E pc \in {"mirror", "effects"} : RequestStep(q, pc)
    <2>1. CASE r.label = NoLabel
      BY <1>1, <1>2, <1>a, <2>1, DeleteOK DEF Submit, Request
    <2>2. CASE r.label # NoLabel
      <3>1. r.label \in Priorities /\ r.key \in Aliases
        BY <1>1, <2>2 DEF Request, Labels
      <3> QED  BY <1>1, <1>2, <1>a, <2>2, <3>1, UpsertOK DEF Submit
    <2> QED  BY <2>1, <2>2
  <1>4. PICK pc \in {"mirror", "effects"} : RequestStep(q, pc)
    BY <1>3
  <1>5. /\ UNCHANGED <<trashed, pass, edits, restarts>>
        /\ request' \in [Requests -> Request] /\ request'[q].pc = pc
        /\ \A o \in Requests \ {q} : request'[o] = request[o]
    BY <1>4 DEF RequestStep, IInv, TypeOK, Request
  <1>6. hand' \in BOOLEAN /\ (Quiet => hand' = hand)
    BY <1>1 DEF Submit, Quiet, TypeOK
  <1>7. TypeOK'
    BY <1>1, <1>2, <1>3, <1>5, <1>6 DEF TypeOK
  <1>8. LockOK'
    BY <1>1, <1>2, <1>4, <1>5 DEF IInv, LockOK
  <1>10. Log' /\ AcknowledgedRetractionsAreGone' /\ \A p \in Passes : PassOK(pass[p])'
    <2>1. Log' /\ AcknowledgedRetractionsAreGone' /\ \A s \in Pass : PassOK(s) => PassOK(s)'
      BY <1>2, <1>3, <1>6, CommitKeeps
    <2> QED  BY <1>5, <2>1, PassesKeep
  <1>11. ByHand
    BY <1>5 DEF ByHand
  <1> QED  BY <1>7, <1>8, <1>10, <1>11 DEF IInv

LEMMA EffectsOK ==
    ASSUME IInv, NEW q \in Requests, Effects(q)
    PROVE  IInv' /\ ByHand
  <1>1. UNCHANGED <<row, revision, mirrored, lock, tag, hand, trashed, pass, edits, restarts>>
    BY DEF Effects
  <1>2. PICK d \in BOOLEAN : request' = [request EXCEPT ![q].pc = "mirror", ![q].redeliver = d]
    BY DEF Effects
  <1>3. request[q] \in Request /\ TypeOK
    BY DEF IInv, TypeOK
  <1>a. PICK x : x = [request[q] EXCEPT !.pc = "mirror", !.redeliver = d]
    OBVIOUS
  <1>4. x \in Request /\ x.pc = "mirror"
    BY <1>3, <1>a DEF Request
  <1>5. request' = [request EXCEPT ![q] = x]
    BY <1>2, <1>3, <1>a DEF TypeOK
  <1>6. TypeOK'
    BY <1>1, <1>3, <1>4, <1>5 DEF TypeOK
  <1>7. LockOK'
    BY <1>1, <1>3, <1>4, <1>5 DEF IInv, TypeOK, LockOK, Clean, Newest
  <1>8. /\ Log' /\ (\A s \in Pass : PassOK(s) => PassOK(s)')
        /\ AcknowledgedRetractionsAreGone'
    BY <1>1, TagKeeps DEF Clean, Newest
  <1>9. \A p \in Passes : PassOK(pass[p])'
    BY <1>1, <1>8, PassesKeep
  <1> QED  BY <1>1, <1>6, <1>7, <1>8, <1>9 DEF IInv, ByHand

\* One request goes on and the passes stay as they are.
LEMMA RequestMoves ==
    ASSUME IInv, NEW q \in Requests, NEW pc \in {"mirror", "effects", "written", "over"},
           RequestStep(q, pc), pc = "written" => lock' = q,
           \A t \in Threads \ {q} : lock = t => lock' = t,
           TypeOK => /\ row' \in [Aliases -> Row] /\ revision' \in 0..MaxRevision
                     /\ mirrored' \subseteq 1..MaxRevision /\ lock' \in Threads \cup {Nobody}
                     /\ tag' \in Labels /\ hand' \in BOOLEAN,
           lock' # Nobody => revision' > 0 /\ Clean',
           Log', \A s \in Pass : PassOK(s) => PassOK(s)', AcknowledgedRetractionsAreGone'
    PROVE  IInv' /\ ByHand
  <1>1. /\ UNCHANGED <<trashed, pass, edits, restarts>>
        /\ request' \in [Requests -> Request] /\ request'[q].pc = pc
        /\ \A o \in Requests \ {q} : request'[o] = request[o]
    BY DEF RequestStep, IInv, TypeOK, Request
  <1>2. TypeOK'
    BY <1>1 DEF IInv, TypeOK
  <1>3. LockOK'
    <2>1. \A o \in Requests : request'[o].pc = "written" => lock' = o
      BY <1>1 DEF IInv, LockOK, Threads
    <2>2. \A p \in Passes : pass'[p].pc = "retrywritten" => lock' = p
      BY <1>1, ThreadsType DEF IInv, LockOK, Threads
    <2> QED  BY <2>1, <2>2 DEF LockOK
  <1>4. \A p \in Passes : PassOK(pass[p])'
    BY <1>1, PassesKeep
  <1> QED  BY <1>1, <1>2, <1>3, <1>4 DEF IInv, ByHand

LEMMA MirrorOK ==
    ASSUME IInv, NEW q \in Requests, Mirror(q)
    PROVE  IInv' /\ ByHand
  <1>1. UNCHANGED <<row, revision, mirrored>> /\ RequestStep(q, "written")
    BY DEF Mirror
  <1>2. PICK d \in BOOLEAN : WriteTag(q, d)
    <2>1. request[q].redeliver \in BOOLEAN
      BY DEF IInv, TypeOK, Request
    <2> QED  BY <2>1 DEF Mirror
  <1>3. q \in Threads
    BY DEF Threads
  <1>4. Clean' /\ lock' = q /\ lock = Nobody /\ revision > 0 /\ tag' \in Labels /\ hand' \in BOOLEAN
    BY <1>1, <1>2, <1>3, WriteTagOK
  <1>5. Log' /\ (\A s \in Pass : PassOK(s) => PassOK(s)') /\ AcknowledgedRetractionsAreGone'
    BY <1>1, <1>4, TagKeeps
  <1> QED  BY <1>1, <1>3, <1>4, <1>5, ThreadsType, RequestMoves DEF TypeOK

LEMMA MirrorFailsOK ==
    ASSUME IInv, NEW q \in Requests, MirrorFails(q)
    PROVE  IInv' /\ ByHand
  <1>1. UNCHANGED <<row, revision, mirrored, lock, tag, hand>> /\ RequestStep(q, "over") /\ lock = Nobody
    BY DEF MirrorFails, LockFree
  <1>2. Log' /\ (\A s \in Pass : PassOK(s) => PassOK(s)') /\ AcknowledgedRetractionsAreGone'
    BY <1>1, TagKeeps DEF Clean, Newest
  <1> QED  BY <1>1, <1>2, RequestMoves DEF TypeOK

LEMMA MirrorDoneOK ==
    ASSUME IInv, NEW q \in Requests, MirrorDone(q)
    PROVE  IInv' /\ ByHand
  <1>1. /\ UNCHANGED <<row, revision, tag, hand>> /\ RequestStep(q, "over") /\ lock' = Nobody
        /\ mirrored' = Acknowledged /\ request[q].pc = "written"
    BY DEF MirrorDone, Acknowledge
  <1>2. lock = q /\ revision > 0 /\ Clean
    BY <1>1, ThreadsType DEF IInv, LockOK, Threads
  <1>3. mirrored' = mirrored \/ (revision > 0 /\ mirrored' = mirrored \cup {revision})
    BY <1>1, <1>2, AcknowledgedIs
  <1>4. /\ Log' /\ (\A s \in Pass : PassOK(s) => PassOK(s)') /\ AcknowledgedRetractionsAreGone'
        /\ mirrored' \subseteq 1..MaxRevision
    BY <1>1, <1>2, <1>3, ReceiptKeeps
  <1> QED  BY <1>1, <1>2, <1>4, RequestMoves DEF TypeOK

-----------------------------------------------------------------------------
(* The reconciliation.                                                     *)

\* One pass goes on and the requests stay as they are.
LEMMA PassMoves ==
    ASSUME IInv, NEW p \in Passes, NEW x \in Pass, PassStep(p, x),
           x.pc = "retrywritten" => lock' = p,
           \A t \in Threads \ {p} : lock = t => lock' = t,
           TypeOK => /\ row' \in [Aliases -> Row] /\ revision' \in 0..MaxRevision
                     /\ mirrored' \subseteq 1..MaxRevision /\ lock' \in Threads \cup {Nobody}
                     /\ tag' \in Labels /\ hand' \in BOOLEAN,
           lock' # Nobody => revision' > 0 /\ Clean',
           Log', \A s \in Pass : PassOK(s) => PassOK(s)', AcknowledgedRetractionsAreGone',
           PassOK(x)',
           Retracted(Newest) /\ Newest'.label # NoLabel => pass[p].by
    PROVE  IInv' /\ ByHand
  <1>1. /\ UNCHANGED <<trashed, request, edits, restarts>>
        /\ pass' = [pass EXCEPT ![p] = x] /\ pass \in [Passes -> Pass]
    BY DEF PassStep, IInv, TypeOK
  <1>2. /\ pass' \in [Passes -> Pass] /\ pass'[p] = x
        /\ \A o \in Passes \ {p} : pass'[o] = pass[o]
    BY <1>1
  <1>3. TypeOK'
    BY <1>1, <1>2 DEF IInv, TypeOK
  <1>4. LockOK'
    <2>1. \A q \in Requests : request'[q].pc = "written" => lock' = q
      BY <1>1, ThreadsType DEF IInv, LockOK, Threads
    <2>2. \A o \in Passes : pass'[o].pc = "retrywritten" => lock' = o
      BY <1>2 DEF IInv, LockOK, Threads
    <2> QED  BY <2>1, <2>2 DEF LockOK
  <1>5. \A o \in Passes : PassOK(pass[o])'
    <2> TAKE o \in Passes
    <2>1. CASE o = p
      BY <1>2, <2>1 DEF PassOK
    <2>2. CASE o # p
      BY <1>2, <2>2, PassesKeep
    <2> QED  BY <2>1, <2>2
  <1>6. ByHand
    BY <1>2 DEF ByHand
  <1> QED  BY <1>3, <1>4, <1>5, <1>6 DEF IInv

\* A pass that only reads.
LEMMA ReadMoves ==
    ASSUME IInv, NEW p \in Passes, NEW x \in Pass, PassStep(p, x), Reads,
           x.pc # "retrywritten", PassOK(x)
    PROVE  IInv' /\ ByHand
  <1>1. UNCHANGED <<row, revision, mirrored, lock, tag, hand>>
    BY DEF Reads
  <1>2. Newest' = Newest /\ Clean' = Clean
    BY <1>1 DEF Clean, Newest
  <1>3. Log' /\ (\A s \in Pass : PassOK(s) => PassOK(s)') /\ AcknowledgedRetractionsAreGone'
    BY <1>1, <1>2, TagKeeps
  <1>4. lock' # Nobody => revision' > 0 /\ Clean'
    BY <1>1, <1>2 DEF IInv, LockOK
  <1>5. ~(Retracted(Newest) /\ Newest'.label # NoLabel)
    BY <1>2 DEF Retracted
  <1> QED  BY <1>1, <1>3, <1>4, <1>5, PassMoves DEF TypeOK

LEMMA PassType ==
    ASSUME IInv, NEW p \in Passes
    PROVE  pass[p] \in Pass /\ PassOK(pass[p])
  BY DEF IInv, TypeOK

\* What a pass that starts over knows.
LEMMA IdleOK ==
    ASSUME IInv, NEW x \in Pass, x.seen = Idle.seen, x.pc \in {"idle", "states"}
    PROVE  PassOK(x)
  <1>1. x.seen.revision = 0 /\ x.seen.label = NoLabel
    BY DEF Idle
  <1>2. revision \in Nat /\ Newest.revision = revision
    BY NewestType DEF IInv, Log
  <1>3. revision = 0 => Newest.label = NoLabel
    BY <1>2 DEF IInv, Log, Newest, Aliases
  <1> QED  BY <1>1, <1>2, <1>3 DEF PassOK

LEMMA StartPassOK ==
    ASSUME IInv, NEW p \in Passes, StartPass(p)
    PROVE  IInv' /\ ByHand
  <1>a. PICK x : x = [Idle EXCEPT !.pc = "states", !.sample = tag # NoLabel /\ ~trashed]
    OBVIOUS
  <1>1. PassStep(p, x) /\ Reads
    BY <1>a DEF StartPass
  <1>2. x \in Pass /\ x.pc = "states" /\ x.seen = Idle.seen
    BY <1>a, IdleType DEF Pass, Idle
  <1> QED  BY <1>1, <1>2, IdleOK, ReadMoves

LEMMA StatesOK ==
    ASSUME IInv, NEW p \in Passes, States(p)
    PROVE  IInv' /\ ByHand
  <1>d. PICK done \in BOOLEAN : done = (Newest.revision \in mirrored)
    <2>1. CASE Newest.revision \in mirrored
      <3>1. TRUE = (Newest.revision \in mirrored)
        BY <2>1
      <3> QED  BY <3>1
    <2>2. CASE Newest.revision \notin mirrored
      <3>1. FALSE = (Newest.revision \in mirrored)
        BY <2>2
      <3> QED  BY <3>1
    <2> QED  BY <2>1, <2>2
  <1>e. done => Newest.revision \in mirrored
    BY <1>d
  <1>a. PICK x : x = [pass[p] EXCEPT !.pc = "live", !.seen = Newest, !.done = done]
    OBVIOUS
  <1>1. PassStep(p, x) /\ Reads
    BY <1>a, <1>d DEF States
  <1>2. Newest \in Change /\ revision \in Nat /\ Newest.revision = revision
    BY NewestType DEF IInv, Log
  <1>3. x \in Pass /\ x.pc = "live" /\ x.seen = Newest /\ x.done = done
    BY <1>2, <1>a, PassType DEF Pass
  <1>4. PassOK(x)
    BY <1>2, <1>3, <1>e DEF PassOK
  <1> QED  BY <1>1, <1>3, <1>4, ReadMoves

LEMMA ReadTagOK ==
    ASSUME IInv, NEW p \in Passes, ReadTag(p)
    PROVE  IInv' /\ ByHand
  <1>s. PICK s : s = pass[p]
    OBVIOUS
  <1>r. PICK retry \in BOOLEAN : retry = (Retracted(s.seen) /\ ~s.done)
    OBVIOUS
  <1>a. PICK x : x = [s EXCEPT !.pc = IF retry THEN "retry" ELSE "set",
                               !.live = tag, !.by = hand, !.absent = trashed]
    OBVIOUS
  <1>1. PassStep(p, x) /\ Reads /\ s.pc = "live"
    BY <1>a, <1>r, <1>s DEF ReadTag
  <1>2. s \in Pass /\ PassOK(s)
    BY <1>s, PassType
  <1>3. /\ x \in Pass /\ x.pc = (IF retry THEN "retry" ELSE "set")
        /\ x.seen = s.seen /\ x.live = tag /\ x.by = hand
    BY <1>2, <1>a DEF Pass, IInv, TypeOK
  <1>4. PassOK(x)
    <2>1. CASE retry
      BY <1>2, <1>3, <1>r, <2>1 DEF PassOK, Retracted, Clean
    <2>2. CASE ~retry
      <3>1. SUFFICES ASSUME s.seen.revision = revision, Retracted(Newest), tag # NoLabel
                     PROVE  hand
        BY <1>2, <1>3, <2>2, <3>1 DEF PassOK
      <3>2. Newest.revision = revision /\ Retracted(s.seen)
        BY <1>2, <3>1 DEF PassOK, Retracted, IInv, Log
      <3>3. s.seen.revision \in mirrored
        BY <1>1, <1>2, <1>r, <2>2, <3>2 DEF PassOK
      <3> QED  BY <3>1, <3>2, <3>3 DEF IInv, AcknowledgedRetractionsAreGone
    <2> QED  BY <2>1, <2>2
  <1> QED  BY <1>1, <1>3, <1>4, ReadMoves

LEMMA RetryFailsOK ==
    ASSUME IInv, NEW p \in Passes, RetryFails(p)
    PROVE  IInv' /\ ByHand
  <1>s. PICK s : s = pass[p]
    OBVIOUS
  <1>a. PICK x : x = [s EXCEPT !.pc = "pinned"]
    OBVIOUS
  <1>1. Reads /\ s.pc = "retry" /\ (PassStep(p, x) \/ PassStep(p, Idle))
    BY <1>a, <1>s DEF RetryFails
  <1>2. s \in Pass /\ PassOK(s)
    BY <1>s, PassType
  <1>3. x \in Pass /\ x.pc = "pinned" /\ x.seen = s.seen /\ x.live = s.live
    BY <1>2, <1>a DEF Pass
  <1>4. PassOK(x)
    BY <1>1, <1>2, <1>3 DEF PassOK
  <1>5. PassOK(Idle) /\ Idle.pc = "idle"
    BY IdleType, IdleOK DEF Idle
  <1> QED  BY <1>1, <1>3, <1>4, <1>5, IdleType, ReadMoves

LEMMA States2OK ==
    ASSUME IInv, NEW p \in Passes, States2(p)
    PROVE  IInv' /\ ByHand
  <1>a. PICK x : x = [pass[p] EXCEPT !.pc = "verdicts", !.seen = Newest]
    OBVIOUS
  <1>1. PassStep(p, x) /\ Reads
    BY <1>a DEF States2
  <1>2. Newest \in Change /\ revision \in Nat /\ Newest.revision = revision
    BY NewestType DEF IInv, Log
  <1>3. x \in Pass /\ x.pc = "verdicts" /\ x.seen = Newest
    BY <1>2, <1>a, PassType DEF Pass
  <1>4. PassOK(x)
    BY <1>2, <1>3 DEF PassOK
  <1> QED  BY <1>1, <1>3, <1>4, ReadMoves

LEMMA VerdictsOK ==
    ASSUME IInv, NEW p \in Passes, Verdicts(p)
    PROVE  IInv' /\ ByHand
  <1>s. PICK s : s = pass[p]
    OBVIOUS
  <1>a. PICK x : x = [s EXCEPT !.pc = "live2"]
    OBVIOUS
  <1>1. Reads /\ (PassStep(p, x) \/ PassStep(p, Idle))
    BY <1>a, <1>s DEF Verdicts
  <1>2. s \in Pass /\ PassOK(s)
    BY <1>s, PassType
  <1>3. x \in Pass /\ x.pc = "live2" /\ x.seen = s.seen
    BY <1>2, <1>a DEF Pass
  <1>4. PassOK(x)
    BY <1>2, <1>3 DEF PassOK
  <1>5. PassOK(Idle) /\ Idle.pc = "idle"
    BY IdleType, IdleOK DEF Idle
  <1> QED  BY <1>1, <1>3, <1>4, <1>5, IdleType, ReadMoves

LEMMA ReadTag2OK ==
    ASSUME IInv, NEW p \in Passes, ReadTag2(p)
    PROVE  IInv' /\ ByHand
  <1>s. PICK s : s = pass[p]
    OBVIOUS
  <1>a. PICK x : x = [s EXCEPT !.pc = "retract", !.live = tag, !.by = hand, !.absent = trashed]
    OBVIOUS
  <1>1. Reads /\ PassStep(p, x)
    BY <1>a, <1>s DEF ReadTag2
  <1>2. s \in Pass /\ PassOK(s)
    BY <1>s, PassType
  <1>3. x \in Pass /\ x.pc = "retract" /\ x.seen = s.seen
    BY <1>2, <1>a DEF Pass, IInv, TypeOK
  <1>4. PassOK(x)
    BY <1>2, <1>3 DEF PassOK
  <1> QED  BY <1>1, <1>3, <1>4, ReadMoves

\* The newest change is written again; the pass goes on with the lock.
LEMMA RetryOK ==
    ASSUME IInv, NEW p \in Passes, Retry(p)
    PROVE  IInv' /\ ByHand
  <1>s. PICK s : s = pass[p]
    OBVIOUS
  <1>a. PICK x : x = [s EXCEPT !.pc = "retrywritten"]
    OBVIOUS
  <1>1. /\ UNCHANGED <<row, revision, mirrored>> /\ PassStep(p, x)
        /\ WriteTag(p, FALSE) /\ s.pc = "retry"
    BY <1>a, <1>s DEF Retry
  <1>2. s \in Pass /\ PassOK(s) /\ p \in Threads
    BY <1>s, PassType DEF Threads
  <1>3. x \in Pass /\ x.pc = "retrywritten" /\ x.seen = s.seen /\ x.live = s.live
    BY <1>2, <1>a DEF Pass
  <1>4. Clean' /\ lock' = p /\ lock = Nobody /\ revision > 0 /\ tag' \in Labels /\ hand' \in BOOLEAN
    BY <1>1, <1>2, WriteTagOK
  <1>5. /\ Log' /\ Newest' = Newest /\ (\A z \in Pass : PassOK(z) => PassOK(z)')
        /\ AcknowledgedRetractionsAreGone'
    BY <1>1, <1>4, TagKeeps
  <1>6. PassOK(x)
    BY <1>1, <1>2, <1>3 DEF PassOK
  <1>7. PassOK(x)' /\ ~(Retracted(Newest) /\ Newest'.label # NoLabel)
    BY <1>3, <1>5, <1>6 DEF Retracted
  <1>8. \A t \in Threads \ {p} : lock = t => lock' = t
    BY <1>4, ThreadsType
  <1> QED  BY <1>1, <1>2, <1>3, <1>4, <1>5, <1>7, <1>8, PassMoves DEF TypeOK

LEMMA RetryDoneOK ==
    ASSUME IInv, NEW p \in Passes, RetryDone(p)
    PROVE  IInv' /\ ByHand
  <1>s. PICK s : s = pass[p]
    OBVIOUS
  <1>a. PICK x : x = [s EXCEPT !.pc = "pinned"]
    OBVIOUS
  <1>1. /\ UNCHANGED <<row, revision, tag, hand>> /\ PassStep(p, x) /\ lock' = Nobody
        /\ mirrored' = Acknowledged /\ s.pc = "retrywritten"
    BY <1>a, <1>s DEF RetryDone, Acknowledge
  <1>2. s \in Pass /\ PassOK(s)
    BY <1>s, PassType
  <1>3. x \in Pass /\ x.pc = "pinned" /\ x.seen = s.seen /\ x.live = s.live
    BY <1>2, <1>a DEF Pass
  <1>4. lock = p /\ revision > 0 /\ Clean
    BY <1>1, <1>s, ThreadsType DEF IInv, LockOK, Threads
  <1>5. mirrored' = mirrored \/ (revision > 0 /\ mirrored' = mirrored \cup {revision})
    BY <1>1, <1>4, AcknowledgedIs
  <1>6. /\ Log' /\ Newest' = Newest /\ (\A z \in Pass : PassOK(z) => PassOK(z)')
        /\ AcknowledgedRetractionsAreGone' /\ mirrored' \subseteq 1..MaxRevision
    BY <1>1, <1>4, <1>5, ReceiptKeeps
  <1>7. PassOK(x)
    BY <1>1, <1>2, <1>3 DEF PassOK
  <1>8. PassOK(x)' /\ ~(Retracted(Newest) /\ Newest'.label # NoLabel)
    BY <1>3, <1>6, <1>7 DEF Retracted
  <1> QED  BY <1>1, <1>3, <1>4, <1>6, <1>8, PassMoves DEF TypeOK

\* The receipt of a confirmed absence: the tag was gone when it was read, and
\* the retraction is still the newest change.
LEMMA ConfirmOK ==
    ASSUME IInv, NEW p \in Passes, Confirm(p)
    PROVE  IInv' /\ ByHand
  <1>s. PICK s : s = pass[p]
    OBVIOUS
  <1>a. PICK x : x = [s EXCEPT !.pc = "states2"]
    OBVIOUS
  <1>1. /\ UNCHANGED <<row, revision, lock, tag, hand>> /\ PassStep(p, x) /\ lock = Nobody
        /\ s.pc = "pinned"
        /\ mirrored' = IF ~s.absent /\ s.live = NoLabel /\ Pinned(s.seen)
                       THEN Acknowledged ELSE mirrored
    BY <1>a, <1>s DEF Confirm, LockFree
  <1>2. s \in Pass /\ PassOK(s)
    BY <1>s, PassType
  <1>3. x \in Pass /\ x.pc = "states2" /\ x.seen = s.seen
    BY <1>2, <1>a DEF Pass
  <1>4. mirrored' = mirrored
        \/ (Clean /\ revision > 0 /\ (mirrored' = mirrored \/ mirrored' = mirrored \cup {revision}))
    <2>1. CASE s.live = NoLabel /\ Pinned(s.seen)
      <3>1. s.seen.revision = revision
        BY <2>1 DEF Pinned, IInv, Log
      <3>2. Clean /\ revision > 0
        BY <1>1, <1>2, <2>1, <3>1 DEF PassOK
      <3> QED  BY <1>1, <3>2, AcknowledgedIs
    <2>2. CASE ~(s.live = NoLabel /\ Pinned(s.seen))
      BY <1>1, <2>2
    <2> QED  BY <2>1, <2>2
  <1>5. /\ Log' /\ Newest' = Newest /\ (\A z \in Pass : PassOK(z) => PassOK(z)')
        /\ AcknowledgedRetractionsAreGone' /\ mirrored' \subseteq 1..MaxRevision
    BY <1>1, <1>4, ReceiptKeeps
  <1>6. PassOK(x)
    BY <1>2, <1>3 DEF PassOK
  <1>7. PassOK(x)' /\ ~(Retracted(Newest) /\ Newest'.label # NoLabel)
    BY <1>3, <1>5, <1>6 DEF Retracted
  <1> QED  BY <1>1, <1>3, <1>5, <1>7, PassMoves DEF TypeOK

\* A commit of a pass.
LEMMA CommitMoves ==
    ASSUME IInv, NEW p \in Passes, NEW x \in Pass, PassStep(p, x), x.pc # "retrywritten",
           lock = Nobody, UNCHANGED <<mirrored, lock, tag, hand>>,
           row' \in [Aliases -> Row], revision' \in 0..MaxRevision, Quiet \/ Fresh, PassOK(x),
           Retracted(Newest) /\ Newest'.label # NoLabel => pass[p].by
    PROVE  IInv' /\ ByHand
  <1>1. /\ Log' /\ (\A s \in Pass : PassOK(s) => PassOK(s)')
        /\ AcknowledgedRetractionsAreGone'
    BY CommitKeeps
  <1>2. PassOK(x)'
    BY <1>1
  <1> QED  BY <1>1, <1>2, PassMoves DEF TypeOK

\* A tag becomes a verdict only when nothing was committed since it was read:
\* over a retraction it is then one set by hand.
LEMMA SetFromTagOK ==
    ASSUME IInv, NEW p \in Passes, SetFromTag(p)
    PROVE  IInv' /\ ByHand
  <1>s. PICK s : s = pass[p]
    OBVIOUS
  <1>a. PICK x : x = [s EXCEPT !.pc = "states2"]
    OBVIOUS
  <1>1. /\ UNCHANGED <<mirrored, lock, tag, hand>> /\ PassStep(p, x) /\ lock = Nobody
        /\ s.pc = "set"
        /\ \/ s.live # NoLabel /\ Unchanged(s.seen) /\ Upsert(Lib, s.live, TRUE)
           \/ UNCHANGED <<row, revision>>
    BY <1>a, <1>s DEF SetFromTag, LockFree
  <1>2. s \in Pass /\ PassOK(s) /\ TypeOK /\ Log /\ Lib \in Aliases
    BY <1>s, PassType DEF IInv, Aliases
  <1>3. x \in Pass /\ x.pc = "states2" /\ x.seen = s.seen
    BY <1>2, <1>a DEF Pass
  <1>4. PassOK(x)
    BY <1>2, <1>3 DEF PassOK
  <1>5. CASE UNCHANGED <<row, revision>>
    <2>1. Quiet /\ row' \in [Aliases -> Row] /\ revision' \in 0..MaxRevision
      BY <1>1, <1>2, <1>5 DEF Quiet, Newest, Log, TypeOK
    <2>2. ~(Retracted(Newest) /\ Newest'.label # NoLabel)
      BY <2>1 DEF Quiet, Retracted
    <2> QED  BY <1>1, <1>3, <1>4, <2>1, <2>2, CommitMoves
  <1>6. CASE s.live # NoLabel /\ Unchanged(s.seen) /\ Upsert(Lib, s.live, TRUE)
    <2>1. s.live \in Priorities
      BY <1>2, <1>6 DEF Pass, Labels
    <2>2. row' \in [Aliases -> Row] /\ revision' \in 0..MaxRevision /\ (Quiet \/ Fresh)
      BY <1>1, <1>2, <1>6, <2>1, UpsertOK
    <2>3. Retracted(Newest) => s.by
      <3>1. s.seen.revision = revision
        BY <1>2, <1>6 DEF Unchanged, Log
      <3> QED  BY <1>1, <1>2, <1>6, <3>1 DEF PassOK
    <2> QED  BY <1>1, <1>3, <1>4, <1>s, <2>2, <2>3, CommitMoves
  <1> QED  BY <1>1, <1>5, <1>6

LEMMA RetractRemovedOK ==
    ASSUME IInv, NEW p \in Passes, RetractRemoved(p)
    PROVE  IInv' /\ ByHand
  <1>1. /\ UNCHANGED <<mirrored, lock, tag, hand>> /\ PassStep(p, Idle) /\ lock = Nobody
        /\ Delete(Lib) \/ UNCHANGED <<row, revision>>
    BY DEF RetractRemoved, LockFree
  <1>2. TypeOK /\ Log /\ Lib \in Aliases
    BY DEF IInv, Aliases
  <1>3. PassOK(Idle) /\ Idle.pc = "idle"
    BY IdleType, IdleOK DEF Idle
  <1>4. /\ row' \in [Aliases -> Row] /\ revision' \in 0..MaxRevision
        /\ Quiet \/ (Fresh /\ Newest'.label = NoLabel)
    <2>1. CASE UNCHANGED <<row, revision>>
      BY <1>1, <1>2, <2>1 DEF Quiet, Newest, Log, TypeOK
    <2>2. CASE Delete(Lib)
      BY <1>1, <1>2, <2>2, DeleteOK
    <2> QED  BY <1>1, <2>1, <2>2
  <1>5. ~(Retracted(Newest) /\ Newest'.label # NoLabel)
    BY <1>4 DEF Quiet, Retracted
  <1> QED  BY <1>1, <1>3, <1>4, <1>5, IdleType, CommitMoves

-----------------------------------------------------------------------------
LEMMA RestartOK ==
    ASSUME IInv, Restart
    PROVE  IInv' /\ ByHand
  <1>1. /\ UNCHANGED <<row, revision, mirrored, tag, hand, trashed, edits>>
        /\ lock' = Nobody /\ pass' = [p \in Passes |-> Idle]
    BY DEF Restart
  <1>2. restarts' \in 0..MaxRestarts
    BY BoundsType DEF Restart, IInv, TypeOK
  <1>3. /\ request' \in [Requests -> Request]
        /\ \A q \in Requests : request'[q].pc # "written"
    <2>1. \A q \in Requests : request[q] \in Request
      BY DEF IInv, TypeOK
    <2>2. \A q \in Requests : /\ [request[q] EXCEPT !.pc = "over"] \in Request
                              /\ [request[q] EXCEPT !.pc = "over"].pc = "over"
      BY <2>1 DEF Request
    <2> QED  BY <2>1, <2>2 DEF Restart
  <1>4. TypeOK'
    BY <1>1, <1>2, <1>3, IdleType DEF IInv, TypeOK
  <1>5. /\ Log' /\ Newest' = Newest /\ (\A s \in Pass : PassOK(s) => PassOK(s)')
        /\ AcknowledgedRetractionsAreGone'
    BY <1>1, TagKeeps DEF Clean, Newest
  <1>6. LockOK'
    BY <1>1, <1>3 DEF LockOK, Idle
  <1>7. \A p \in Passes : PassOK(pass[p])'
    <2>1. PassOK(Idle)'
      BY <1>5, IdleType, IdleOK DEF Idle
    <2> QED  BY <1>1, <2>1 DEF PassOK
  <1>8. ByHand
    BY <1>5 DEF ByHand, Retracted
  <1> QED  BY <1>4, <1>5, <1>6, <1>7, <1>8 DEF IInv

LEMMA StutterOK ==
    ASSUME IInv, UNCHANGED vars
    PROVE  IInv' /\ ByHand
  BY DEF vars, IInv, TypeOK, Log, LockOK, PassOK, Clean, Newest, Retracted,
         AcknowledgedRetractionsAreGone, ByHand

LEMMA NextOK ==
    ASSUME IInv, [Next]_vars
    PROVE  IInv' /\ ByHand
  BY ZoteroOK, RestartOK, SubmitOK, EffectsOK, MirrorOK, MirrorFailsOK, MirrorDoneOK,
     StartPassOK, StatesOK, ReadTagOK, RetryOK, RetryDoneOK, RetryFailsOK, ConfirmOK,
     SetFromTagOK, States2OK, VerdictsOK, ReadTag2OK, RetractRemovedOK, StutterOK
     DEF Next

-----------------------------------------------------------------------------
(* The theorems.                                                           *)

\* Every variable keeps its type.
THEOREM TypeCorrect == Spec => []TypeOK
  <1>1. IInv => TypeOK
    BY DEF IInv
  <1> QED  BY InitOK, NextOK, <1>1, PTL DEF Spec

\* label_mirrors: a retraction that has its receipt has left Zotero, and a tag
\* that is there is one set by hand later.
THEOREM RetractionsAcknowledged == Spec => []AcknowledgedRetractionsAreGone
  <1>1. IInv => AcknowledgedRetractionsAreGone
    BY DEF IInv
  <1> QED  BY InitOK, NextOK, <1>1, PTL DEF Spec

\* reconcile_label_verdicts: a verdict that was taken back is set again only
\* from a tag edited in Zotero afterwards.
THEOREM ByHandOnly == Spec => ReturnsByHandOnly
  <1>1. IInv /\ [Next]_vars => [ByHand]_vars
    BY NextOK
  <1> QED  BY InitOK, NextOK, <1>1, PTL DEF Spec, ReturnsByHandOnly, ByHand
=============================================================================
