--------------------- MODULE FeedMaterialization_proofs ---------------------
(***************************************************************************)
(* Proofs about FeedMaterialization, for any rows, keys, requests and      *)
(* bounds.                                                                 *)
(*                                                                         *)
(* IInv says what a request knows at each place of materialize_row: which  *)
(* row it works for (Requested), the key reserved for it (Reserved), that  *)
(* the write lock is its own and the intent it checked still holds         *)
(* (Holding), and that its item was written (Written); and it ties Zotero's *)
(* items to the keys the rows have planned (ItemsArePlanned).              *)
(***************************************************************************)
EXTENDS FeedMaterialization, TLAPS

Pcs == {"start", "read", "label", "effects", "cancel", "decide", "outcome",
        "classify", "next", "reserve", "intent", "write", "commit", "park"}

\* What a request is given: a row where it needs one, a priority to write.
Proper ==
    {x \in Request :
        /\ x.kind \in {"add", "trash", "daily"} \/ x.pc \in Materializing \cup {"park"}
             => x.row \in Rows
        /\ x.kind \in {"verdict", "daily"} => x.want \in Priorities}

Requested == req \in [Requests -> Proper]

Locked == {"write", "commit"}

\* Between the check of the intent and the commit, nothing it read changes.
Holding ==
    \A q \in Requests : req[q].pc \in Locked =>
        /\ lock = q
        /\ \A r \in Rows : row[r].key = None
        /\ ~Superseded(req[q].row, req[q].label)

\* The key a request holds is its row's, as long as the row has no item.
ReservedFor(q) ==
    /\ req[q].key \in Keys
    /\ row[req[q].row].key = None => row[req[q].row].planned = req[q].key

Reserved == \A q \in Requests : req[q].pc \in Locked \cup {"intent"} => ReservedFor(q)

Written == \A q \in Requests : req[q].pc = "commit" => item[req[q].key] # None

\* An item created for a row that is not recorded has the key it has planned.
ItemsArePlanned ==
    \A k \in Keys : item[k] # None /\ row[item[k].by].key = None => row[item[k].by].planned = k

\* No two rows are recorded under different items.
OneRecordedKey ==
    \A r, s \in Rows : row[r].key # None /\ row[s].key # None => row[r].key = row[s].key

\* As long as no request has broken off, an item is recorded, or the request
\* that wrote it is about to commit.
ItemsAreTraced ==
    failures = 0 =>
        \A k \in Keys : item[k] # None =>
            k \in ItemKeys \/ \E q \in Requests : req[q].pc = "commit" /\ req[q].key = k

RowsOK == RecordedItemsExist /\ OneRecordedKey

IInv ==
    /\ TypeOK
    /\ Requested
    /\ Holding
    /\ Reserved
    /\ Written
    /\ ItemsArePlanned
    /\ ItemsAreTraced
    /\ RowsOK
    /\ OneItemPerRow

-----------------------------------------------------------------------------
(* How a request moves.                                                    *)

Moved(q) == \A p \in Requests : p # q => req'[p] = req[p]

\* Replacing one proper request by another leaves them all proper.
LEMMA NewRequest ==
    ASSUME Requested, NEW q \in Requests, NEW x \in Proper, req' = [req EXCEPT ![q] = x]
    PROVE  Requested' /\ Moved(q) /\ req'[q] = x
  BY DEF Requested, Moved

\* A request with a row may go anywhere, one without only where none is needed.
LEMMA GotoMoves ==
    ASSUME Requested, NEW q \in Requests, NEW pc \in Pcs, Goto(q, pc),
           pc \in Materializing \cup {"park"} => req[q].row \in Rows
    PROVE  /\ Requested' /\ Moved(q)
           /\ req'[q] = [req[q] EXCEPT !.pc = pc] /\ req'[q].pc = pc
  <1> DEFINE x == [req[q] EXCEPT !.pc = pc]
  <1>1. x \in Proper /\ x.pc = pc
    BY DEF Requested, Proper, Request, Pcs
  <1>2. req' = [req EXCEPT ![q] = x]
    BY DEF Goto
  <1> HIDE DEF x
  <1>3. Requested' /\ Moved(q) /\ req'[q] = x
    BY <1>1, <1>2, NewRequest
  <1> QED  BY <1>1, <1>3 DEF x

\* A request that is over is out of the locked part.
LEMMA FinishMoves ==
    ASSUME Requested, NEW q \in Requests, Finish(q)
    PROVE  Requested' /\ Moved(q) /\ req'[q].pc = "start"
  <1>1. Over \in Proper /\ Over.pc = "start"
    BY DEF Over, Idle, Proper, Request, Materializing
  <1> QED  BY <1>1, NewRequest DEF Finish

\* "apply all" goes on with its next candidate, the others end.
LEMMA ContinueMoves ==
    ASSUME Requested, NEW q \in Requests, Continue(q)
    PROVE  Requested' /\ Moved(q) /\ req'[q].pc \in {"start", "next"}
  BY FinishMoves, GotoMoves DEF Continue, Pcs, Materializing

\* What raises is parked or ends.
LEMMA RaiseMoves ==
    ASSUME Requested, NEW q \in Requests, Raise(q)
    PROVE  Requested' /\ Moved(q) /\ req'[q].pc \in {"start", "park"}
  <1>1. req[q].pc \in Materializing => req[q].row \in Rows
    BY DEF Requested, Proper
  <1> QED  BY <1>1, FinishMoves, GotoMoves DEF Raise, Pcs

-----------------------------------------------------------------------------
(* How the rows change.                                                    *)

\* The outcome of a row that has its item is left alone, or observed.
ObservedOnce(r, x) == Outcome(x) = Outcome(row[r]) \/ (Due(r) /\ x.outcome = "seen")

\* A recorded key stays; a planned key stays until the row has its item; rows
\* are recorded under the key of one item there is.
RowsGrow ==
    /\ row' \in [Rows -> Row]
    /\ \A r \in Rows :
         /\ row[r].key # None => row'[r].key = row[r].key /\ ObservedOnce(r, row'[r])
         /\ row[r].planned # None /\ row'[r].key = None => row'[r].planned = row[r].planned
         /\ row'[r].key # None => item[row'[r].key] # None
    /\ OneRecordedKey'

\* An update of one row that leaves its keys alone.
LEMMA RowUpdated ==
    ASSUME TypeOK, RowsOK, NEW r \in Rows, NEW x \in Row,
           x.key = row[r].key, x.planned = row[r].planned,
           x.key = None \/ ObservedOnce(r, x), row' = [row EXCEPT ![r] = x]
    PROVE  RowsGrow
  BY DEF TypeOK, RowsGrow, RowsOK, RecordedItemsExist, OneRecordedKey, ItemKeys,
         ObservedOnce, Outcome, Due

\* Rows that stay as they are.
LEMMA RowsKept ==
    ASSUME TypeOK, RowsOK, row' = row PROVE RowsGrow
  BY DEF TypeOK, RowsGrow, RowsOK, RecordedItemsExist, OneRecordedKey, ItemKeys,
         ObservedOnce

\* cancel_pending_materialization touches no row that has a key.
LEMMA CancelGrows ==
    ASSUME TypeOK, RowsOK, row' = Cancelled PROVE RowsGrow
  <1> DEFINE taken(r) == [row[r] EXCEPT !.decision = "user_rejected",
                                        !.outcome = "none", !.detected = FALSE]
  <1>a. ASSUME NEW r \in Rows
        PROVE  /\ row[r] \in Row /\ taken(r) \in Row
               /\ taken(r).key = row[r].key /\ taken(r).planned = row[r].planned
    BY DEF TypeOK, Row
  <1>b. \A r \in Rows : row'[r] = IF row[r].decision = "user_approved" /\ row[r].key = None
                                  THEN taken(r) ELSE row[r]
    BY DEF Cancelled
  <1>c. row' \in [Rows -> Row]
    BY <1>a DEF Cancelled
  <1>1. /\ row' \in [Rows -> Row]
        /\ \A r \in Rows :
             /\ row'[r].key = row[r].key /\ row'[r].planned = row[r].planned
             /\ row[r].key # None => row'[r] = row[r]
    <2> HIDE DEF taken
    <2> QED  BY <1>a, <1>b, <1>c
  <1>2. \A r \in Rows : row[r].key # None => ObservedOnce(r, row'[r])
    BY <1>1 DEF ObservedOnce
  <1>3. \A r \in Rows : row'[r].key # None => item[row'[r].key] # None
    BY <1>1 DEF RowsOK, RecordedItemsExist, ItemKeys
  <1>4. OneRecordedKey'
    BY <1>1 DEF RowsOK, OneRecordedKey, ItemKeys
  <1> QED  BY <1>1, <1>2, <1>3, <1>4 DEF RowsGrow

\* link_materialized_sibling records the key the paper has already.
LEMMA LinkGrows ==
    ASSUME TypeOK, RowsOK, NEW r \in Rows, NEW k \in ItemKeys, row' = Linked(r, k)
    PROVE  RowsGrow
  <1>1. k \in Keys /\ item[k] # None
    BY DEF TypeOK, Row, RowsOK, RecordedItemsExist, ItemKeys
  <1>2. CASE row[r].key # None
    BY <1>2, RowsKept DEF Linked
  <1>3. CASE row[r].key = None
    <2> DEFINE x == [row[r] EXCEPT !.key = k, !.decision = "selected",
                                !.outcome = "none", !.detected = FALSE]
    <2>1. x \in Row /\ x.key = k
      BY <1>1 DEF TypeOK, Row
    <2>2. row' = [row EXCEPT ![r] = x]
      BY <1>3 DEF Linked, TypeOK
    <2> HIDE DEF x
    <2>3. row' \in [Rows -> Row] /\ row'[r] = x /\ \A s \in Rows \ {r} : row'[s] = row[s]
      BY <2>1, <2>2 DEF TypeOK
    <2>4. \A s \in Rows : row[s].key # None => row[s].key = k
      BY DEF RowsOK, OneRecordedKey, ItemKeys
    <2> QED  BY <1>1, <1>3, <2>1, <2>3, <2>4, KeysAssumption
             DEF RowsGrow, RowsOK, RecordedItemsExist, OneRecordedKey, ItemKeys, ObservedOnce
  <1> QED  BY <1>2, <1>3

-----------------------------------------------------------------------------
(* Every step but two is orderly: it writes nothing to Zotero, it changes   *)
(* rows and verdict only when nobody else holds the lock, and it takes      *)
(* no request into the locked part of materialize_row.                     *)

Orderly ==
    /\ Requested'
    /\ RowsGrow
    /\ verdict' \in Verdict \cup {None}
    /\ refused' \in SUBSET Rows
    /\ item' = item
    /\ lock' \in {lock, None}
    /\ failures' \in 0..MaxFailures
    /\ failures' = 0 => failures = 0
    /\ \A p \in Requests :
         /\ failures' = 0 /\ req[p].pc = "commit" /\ req'[p] # req[p] => req[p].key \in ItemKeys'
         /\ req'[p].pc \in Locked =>
              req'[p] = req[p] /\ lock' = lock /\ row' = row /\ verdict' = verdict
         /\ req'[p].pc = "intent" /\ req'[p] # req[p] => ReservedFor(p)'

\* A step of one request that ends outside the locked part.
LEMMA StepIsOrderly ==
    ASSUME IInv, NEW q \in Requests, Requested', Moved(q),
           req'[q].pc \notin Locked, req'[q].pc = "intent" => ReservedFor(q)',
           \/ lock \in {None, q} /\ RowsGrow
           \/ lock' = lock /\ row' = row /\ verdict' = verdict,
           verdict' \in Verdict \cup {None}, refused' \in SUBSET Rows, item' = item, lock' \in {lock, None},
           failures' \in 0..MaxFailures,
           \/ failures' # 0
           \/ failures' = failures /\ req[q].pc # "commit"
           \/ failures' = failures /\ req[q].key \in ItemKeys'
    PROVE  Orderly
  <1>1. RowsGrow
    BY RowsKept DEF IInv
  <1>2. ASSUME NEW p \in Requests, p # q, req'[p].pc \in Locked
        PROVE  lock' = lock /\ row' = row /\ verdict' = verdict
    <2>1. lock = p
      BY <1>2 DEF Moved, IInv, Holding
    <2> QED  BY <1>2, <2>1, KeysAssumption
  <1> QED  BY <1>1, <1>2 DEF Orderly, Moved

\* A step of one request that only reads.
LEMMA ReadIsOrderly ==
    ASSUME IInv, NEW q \in Requests, Requested', Moved(q),
           req[q].pc # "commit", req'[q].pc \notin Locked \cup {"intent"},
           UNCHANGED <<row, verdict, refused, item, lock, failures>>
    PROVE  Orderly
  BY StepIsOrderly DEF IInv, TypeOK

\* A request's own verdict.
LEMMA VerdictType ==
    ASSUME NEW p \in Priorities, NEW from \in {"user", "today_add", "today_trash", "review"}
    PROVE  [priority |-> p, from |-> from] \in Verdict
  BY DEF Verdict

\* A request begins with what its kind needs.
LEMMA BeginOrderly ==
    ASSUME IInv, NEW q \in Requests,
           NEW kind \in {"add", "trash", "verdict", "daily"},
           NEW pc \in {"read", "label", "effects"},
           NEW r \in Rows \cup {None}, NEW want \in Priorities \cup {None},
           kind \in {"add", "trash", "daily"} => r \in Rows,
           kind \in {"verdict", "daily"} => want \in Priorities,
           Begin(q, kind, pc, r, want)
    PROVE  Orderly
  <1> DEFINE x == [Idle EXCEPT !.kind = kind, !.pc = pc, !.row = r, !.want = want]
  <1>1. x \in Proper /\ x.pc = pc
    BY DEF Idle, Proper, Request, Materializing
  <1>2. req' = [req EXCEPT ![q] = x] /\ UNCHANGED <<row, verdict, refused, item, lock, failures>>
    BY DEF Begin
  <1>0. req[q].pc # "commit"
    BY DEF Begin, Free, Idle
  <1> HIDE DEF x
  <1>3. Requested' /\ Moved(q) /\ req'[q] = x
    BY <1>1, <1>2, NewRequest DEF IInv
  <1> QED  BY <1>0, <1>1, <1>2, <1>3, ReadIsOrderly DEF Locked

\* Requests begin.
LEMMA StartsOrderly ==
    ASSUME IInv, NEW q \in Requests, Starts(q) PROVE Orderly
  <1>1. ASSUME NEW r \in Rows, StartAdd(q, r) PROVE Orderly
    BY <1>1, BeginOrderly DEF StartAdd
  <1>2. ASSUME NEW r \in Rows, StartTrash(q, r) PROVE Orderly
    BY <1>2, BeginOrderly DEF StartTrash
  <1>3. ASSUME NEW p \in Priorities, StartVerdict(q, p) PROVE Orderly
    BY <1>3, BeginOrderly DEF StartVerdict
  <1>4. ASSUME NEW p \in Priorities, ReplayVerdict(q, p) PROVE Orderly
    BY <1>4, BeginOrderly DEF ReplayVerdict
  <1>5. ASSUME NEW r \in Rows, NEW p \in Priorities, StartDaily(q, r, p) PROVE Orderly
    BY <1>5, BeginOrderly DEF StartDaily
  <1>6. ASSUME StartApply(q) PROVE Orderly
    <2> DEFINE x == [Idle EXCEPT !.kind = "apply", !.pc = "classify",
                                 !.todo = {r \in Rows : row[r].decision = "user_approved"}]
    <2>1. x \in Proper /\ x.pc = "classify"
      BY DEF Idle, Proper, Request, Materializing
    <2>2. req' = [req EXCEPT ![q] = x] /\ UNCHANGED <<row, verdict, refused, item, lock, failures>>
      BY <1>6 DEF StartApply
    <2>0. req[q].pc # "commit"
      BY <1>6 DEF StartApply, Free, Idle
    <2> HIDE DEF x
    <2>3. Requested' /\ Moved(q) /\ req'[q] = x
      BY <2>1, <2>2, NewRequest DEF IInv
    <2> QED  BY <2>0, <2>1, <2>2, <2>3, ReadIsOrderly DEF Locked
  <1> QED  BY <1>1, <1>2, <1>3, <1>4, <1>5, <1>6 DEF Starts

\* Verdicts are written only while nobody holds the lock.
LEMMA LabelsOrderly ==
    ASSUME IInv, NEW q \in Requests, Labels(q) PROVE Orderly
  <1> USE DEF IInv
  <1>0. req[q] \in Proper
    BY DEF Requested
  <1>1. ASSUME At(q, {"add"}, "read") \/ At(q, {"add"}, "label"), Opened(q)
        PROVE  Requested' /\ Moved(q) /\ req'[q].pc \notin Locked \cup {"intent"}
    BY <1>0, <1>1, GotoMoves DEF At, Opened, Proper, Pcs, Locked
  <1>2. CASE AddReads(q)
    <2>1. CASE UserVerdict
      BY <1>1, <1>2, <2>1, ReadIsOrderly DEF AddReads, At
    <2>2. CASE ~UserVerdict
      BY <1>2, <2>2, GotoMoves, ReadIsOrderly DEF AddReads, Pcs, Locked, Materializing, At
    <2> QED  BY <2>1, <2>2
  <1>3. CASE AddLabels(q)
    <2>1. verdict' \in Verdict
      BY <1>3, VerdictType DEF AddLabels, Priorities, Positive
    <2> QED  BY <1>1, <1>3, <2>1, StepIsOrderly, RowsKept DEF AddLabels, Unlocked, TypeOK, At
  <1>4. CASE TrashLabels(q)
    <2>1. verdict' \in Verdict
      BY <1>4, VerdictType DEF TrashLabels, Priorities, Positive
    <2>2. Requested' /\ Moved(q) /\ req'[q].pc = "decide" /\ req[q].row \in Rows
      BY <1>0, <1>4, GotoMoves DEF TrashLabels, Pcs, Materializing, At, Proper
    <2> QED  BY <1>4, <2>1, <2>2, StepIsOrderly, RowsKept
             DEF TrashLabels, Unlocked, TypeOK, Locked, At
  <1>5. CASE VerdictLabels(q)
    <2>1. verdict' \in Verdict
      BY <1>0, <1>5, VerdictType DEF VerdictLabels, At, Proper
    <2>2. Requested' /\ Moved(q) /\ req'[q].pc = "effects"
      BY <1>5, GotoMoves DEF VerdictLabels, Pcs, Materializing
    <2> QED  BY <1>5, <2>1, <2>2, StepIsOrderly, RowsKept
             DEF VerdictLabels, Unlocked, TypeOK, Locked, At
  <1>6. CASE DailyLabels(q)
    <2>1. verdict' \in Verdict
      BY <1>0, <1>6, VerdictType DEF DailyLabels, At, Proper
    <2>2. Requested' /\ Moved(q) /\ req'[q].pc \in {"cancel", "outcome"}
      BY <1>6, GotoMoves DEF DailyLabels, Pcs, Materializing
    <2> QED  BY <1>6, <2>1, <2>2, StepIsOrderly, RowsKept
             DEF DailyLabels, Unlocked, TypeOK, Locked, At
  <1> QED  BY <1>2, <1>3, <1>4, <1>5, <1>6, Labels(q) DEF Labels

\* So is what follows a label: cancellations, decisions and outcomes.
LEMMA FollowsOrderly ==
    ASSUME IInv, NEW q \in Requests, Follows(q) PROVE Orderly
  <1> USE DEF IInv
  <1>0. req[q] \in Proper
    BY DEF Requested
  <1>1. CASE Effects(q)
    <2>1. CASE Finish(q)
      BY <1>1, <2>1, FinishMoves, ReadIsOrderly DEF Effects, Locked, At
    <2>2. CASE Goto(q, "cancel")
      BY <1>1, <2>2, GotoMoves, ReadIsOrderly DEF Effects, Locked, Pcs, Materializing, At
    <2>3. ASSUME NEW r \in Rows, NEW pc \in {"reserve", "park"}, req[q].want # "dont_read",
                 req' = [req EXCEPT ![q].row = r, ![q].label = req[q].want, ![q].pc = pc]
          PROVE  Orderly
      <3> DEFINE x == [req[q] EXCEPT !.row = r, !.label = req[q].want, !.pc = pc]
      <3>1. req[q].want \in Positive
        BY <1>0, <1>1, <2>3 DEF Effects, At, Proper, Priorities
      <3>2. x \in Proper /\ x.pc = pc
        BY <1>0, <3>1 DEF Proper, Request
      <3>3. req' = [req EXCEPT ![q] = x]
        BY <2>3 DEF Requested, Proper
      <3> HIDE DEF x
      <3>4. Requested' /\ Moved(q) /\ req'[q] = x
        BY <3>2, <3>3, NewRequest
      <3> QED  BY <1>1, <3>2, <3>4, ReadIsOrderly DEF Effects, Locked, At
    <2> QED  BY <1>1, <2>1, <2>2, <2>3 DEF Effects
  <1>2. CASE CancelPending(q)
    <2>1. Requested' /\ Moved(q) /\ req'[q].pc \in {"outcome", "start"}
      BY <1>2, GotoMoves, FinishMoves DEF CancelPending, Pcs, Materializing
    <2> QED  BY <1>2, <2>1, StepIsOrderly, CancelGrows
             DEF CancelPending, Unlocked, TypeOK, Locked, At
  <1>3. CASE TrashDecides(q)
    <2> DEFINE r == req[q].row
               x == [row[r] EXCEPT !.decision = "user_rejected"]
    <2>1. r \in Rows
      BY <1>0, <1>3 DEF TrashDecides, At, Proper
    <2>2. /\ x \in Row /\ x.key = row[r].key /\ x.planned = row[r].planned
          /\ ObservedOnce(r, x)
      BY <2>1 DEF TypeOK, Row, ObservedOnce, Outcome
    <2>3. row' = [row EXCEPT ![r] = x]
      BY <1>3, <2>1 DEF TrashDecides
    <2> HIDE DEF r, x
    <2>4. RowsGrow
      BY <2>1, <2>2, <2>3, RowUpdated
    <2>5. Requested' /\ Moved(q) /\ req'[q].pc = "outcome"
      BY <1>3, GotoMoves DEF TrashDecides, Pcs, Materializing
    <2> QED  BY <1>3, <2>4, <2>5, StepIsOrderly DEF TrashDecides, Unlocked, TypeOK, Locked, At
  <1>4. CASE RecordOutcome(q)
    <2> DEFINE r == req[q].row
               x == WithAppOutcome(row[r])
    <2>1. r \in Rows
      BY <1>0, <1>4 DEF RecordOutcome, At, Proper
    <2>2. x \in Row /\ x.key = row[r].key /\ x.planned = row[r].planned
      <3>1. row[r] \in Row
        BY <2>1 DEF TypeOK
      <3> HIDE DEF r
      <3> QED  BY <3>1 DEF Row, WithAppOutcome
    <2>3. row' = row \/ (x.key = None /\ row' = [row EXCEPT ![r] = x])
      BY <1>4, <2>1, <2>2 DEF RecordOutcome
    <2> HIDE DEF r, x
    <2>4. RowsGrow
      BY <2>1, <2>2, <2>3, RowUpdated, RowsKept
    <2>5. Requested' /\ Moved(q) /\ req'[q].pc = "start"
      BY <1>4, FinishMoves DEF RecordOutcome
    <2> QED  BY <1>4, <2>4, <2>5, StepIsOrderly DEF RecordOutcome, Unlocked, TypeOK, Locked, At
  <1>5. ASSUME NEW r \in Rows, Classify(q, r) PROVE Orderly
    <2>1. CASE Rejected
      <3> DEFINE x == [req[q] EXCEPT !.todo = @ \ {r}]
      <3>1. x \in Proper /\ x.pc = "classify"
        BY <1>0, <1>5 DEF Classify, At, Proper, Request
      <3>2. req' = [req EXCEPT ![q] = x]
        BY <1>5, <2>1 DEF Classify
      <3> HIDE DEF x
      <3>3. Requested' /\ Moved(q) /\ req'[q] = x
        BY <3>1, <3>2, NewRequest
      <3> QED  BY <1>5, <2>1, <3>1, <3>3, StepIsOrderly, CancelGrows
               DEF Classify, Unlocked, TypeOK, Locked, At
    <2>2. CASE ~Rejected
      <3> DEFINE label == IF UserVerdict THEN verdict.priority ELSE None
                 x == [req[q] EXCEPT !.todo = @ \ {r}, !.cand = @ \cup {<<r, label>>}]
      <3>1. label \in Positive \cup {None}
        BY <2>2 DEF TypeOK, Rejected, UserVerdict, Verdict, Priorities
      <3>2. req' = [req EXCEPT ![q] = x]
        BY <1>5, <2>2 DEF Classify, Requested, Proper
      <3> HIDE DEF label
      <3>3. req[q].cand \cup {<<r, label>>} \in SUBSET (Rows \X (Positive \cup {None}))
        BY <1>0, <3>1 DEF Proper, Request
      <3>4. req[q].todo \ {r} \in SUBSET Rows
        BY <1>0 DEF Proper, Request
      <3>5. x \in Proper /\ x.pc = "classify"
        BY <1>0, <1>5, <3>3, <3>4 DEF Classify, At, Proper, Request
      <3> HIDE DEF x
      <3>6. Requested' /\ Moved(q) /\ req'[q] = x
        BY <3>2, <3>5, NewRequest
      <3> QED  BY <1>5, <2>2, <3>5, <3>6, ReadIsOrderly DEF Classify, Locked, At
    <2> QED  BY <2>1, <2>2
  <1>6. CASE OpenWriter(q)
    <2>1. CASE Finish(q)
      BY <1>6, <2>1, FinishMoves, ReadIsOrderly DEF OpenWriter, Locked, At
    <2>2. ASSUME NEW writer \in BOOLEAN, req' = [req EXCEPT ![q].writer = writer, ![q].pc = "next"]
          PROVE  Orderly
      <3> DEFINE x == [req[q] EXCEPT !.writer = writer, !.pc = "next"]
      <3>1. x \in Proper /\ x.pc = "next"
        BY <1>0, <1>6 DEF OpenWriter, At, Proper, Request, Materializing
      <3>2. req' = [req EXCEPT ![q] = x]
        BY <2>2 DEF Requested, Proper
      <3> HIDE DEF x
      <3>3. Requested' /\ Moved(q) /\ req'[q] = x
        BY <3>1, <3>2, NewRequest
      <3> QED  BY <1>6, <3>1, <3>3, ReadIsOrderly DEF OpenWriter, Locked, At
    <2> QED  BY <1>6, <2>1, <2>2 DEF OpenWriter
  <1>7. ASSUME NEW c \in req[q].cand, NextCandidate(q, c) PROVE Orderly
    <2> DEFINE pc == IF req[q].writer THEN "reserve" ELSE "park"
               x == [req[q] EXCEPT !.cand = @ \ {c}, !.row = c[1], !.label = c[2], !.pc = pc]
    <2>1. c[1] \in Rows /\ c[2] \in Positive \cup {None}
      BY <1>0, <1>7 DEF Proper, Request
    <2>2. x \in Proper /\ x.pc = pc
      BY <1>0, <1>7, <2>1, ZenonT(60) DEF NextCandidate, At, Proper, Request
    <2>3. req' = [req EXCEPT ![q] = x]
      BY <1>7 DEF NextCandidate, Requested, Proper
    <2> HIDE DEF x
    <2>4. Requested' /\ Moved(q) /\ req'[q] = x
      BY <2>2, <2>3, NewRequest
    <2>5. req'[q].pc \notin Locked \cup {"intent"}
      BY <2>2, <2>4 DEF Locked
    <2>6. UNCHANGED <<row, verdict, refused, item, lock, failures>>
      BY <1>7 DEF NextCandidate
    <2>7. req[q].pc # "commit"
      BY <1>7 DEF NextCandidate, At
    <2> HIDE DEF pc
    <2> QED  BY <2>7, <2>4, <2>5, <2>6, ReadIsOrderly
  <1> QED  BY <1>1, <1>2, <1>3, <1>4, <1>5, <1>6, <1>7, Follows(q) DEF Follows

\* A planned key is kept; a request leaves with the key its row has planned.
LEMMA ReserveOrderly ==
    ASSUME IInv, NEW q \in Requests, Reserve(q) PROVE Orderly
  <1> USE DEF IInv
  <1> DEFINE r == req[q].row
  <1>1. PICK k \in Keys :
          /\ row' = [row EXCEPT ![r].planned = Planned(r, k)]
          /\ req' = [req EXCEPT ![q].key = Planned(r, k), ![q].pc = "intent"]
    BY DEF Reserve
  <1> DEFINE key == Planned(r, k)
             x == [req[q] EXCEPT !.key = key, !.pc = "intent"]
             y == [row[r] EXCEPT !.planned = key]
  <1>2. req[q] \in Proper /\ r \in Rows
    BY DEF Requested, Reserve, At, Proper, Materializing
  <1>3. row[r] \in Row
    BY <1>2 DEF TypeOK
  <1>4. key \in Keys
    BY <1>3 DEF Planned, Row
  <1>5. x \in Proper /\ x.pc = "intent" /\ x.key = key /\ x.row = r
    BY <1>2, <1>4, ZenonT(60) DEF Proper, Request
  <1>6. req' = [req EXCEPT ![q] = x]
    BY <1>1 DEF Requested, Proper
  <1>7. y \in Row /\ y.key = row[r].key /\ y.planned = key /\ ObservedOnce(r, y)
    BY <1>3, <1>4 DEF Row, ObservedOnce, Outcome
  <1>8. row' = [row EXCEPT ![r] = y]
    BY <1>1
  <1>9. row[r].planned # None /\ row[r].key = None => key = row[r].planned
    BY DEF Planned
  <1> HIDE DEF x, y, key, r
  <1>10. Requested' /\ Moved(q) /\ req'[q] = x
    BY <1>5, <1>6, NewRequest
  <1>11. row' \in [Rows -> Row] /\ row'[r] = y /\ \A s \in Rows \ {r} : row'[s] = row[s]
    BY <1>2, <1>7, <1>8 DEF TypeOK
  <1>12. RowsGrow
    BY <1>7, <1>9, <1>11 DEF RowsGrow, RowsOK, RecordedItemsExist, OneRecordedKey, ItemKeys,
                             ObservedOnce
  <1>13. ReservedFor(q)'
    BY <1>4, <1>5, <1>7, <1>10, <1>11 DEF ReservedFor
  <1> QED  BY <1>5, <1>10, <1>12, <1>13, StepIsOrderly DEF Reserve, Unlocked, TypeOK, Locked, At

\* The request is dropped or finds an item.
LEMMA DroppedIsOrderly ==
    ASSUME IInv, NEW q \in Requests, CheckIntent(q), lock' = lock PROVE Orderly
  <1> USE DEF IInv
  <1>0. req[q].row \in Rows
    BY DEF Requested, CheckIntent, At, Proper, Materializing
  <1>1. Continue(q)
    BY KeysAssumption DEF CheckIntent, Unlocked
  <1>2. row' = row \/ \E k \in ItemKeys : row' = Linked(req[q].row, k)
    BY DEF CheckIntent
  <1>3. RowsGrow
    BY <1>0, <1>2, LinkGrows, RowsKept
  <1>4. Requested' /\ Moved(q) /\ req'[q].pc \in {"start", "next"}
    BY <1>1, ContinueMoves
  <1> QED  BY <1>3, <1>4, StepIsOrderly DEF CheckIntent, Unlocked, TypeOK, Locked, At

\* A failure gives the lock back and changes no row.
LEMMA WriteFailsOrderly ==
    ASSUME IInv, NEW q \in Requests, WriteFails(q) \/ CommitFails(q) PROVE Orderly
  <1> USE DEF IInv
  <1>1. lock = q
    BY DEF WriteFails, CommitFails, At, Locked, Holding
  <1>2. Requested' /\ Moved(q) /\ req'[q].pc \in {"start", "park"}
    BY RaiseMoves DEF WriteFails, CommitFails
  <1>3. /\ failures' \in 0..MaxFailures
        /\ failures' # 0 \/ (failures' = failures /\ req[q].pc # "commit")
    BY BoundsAssumption DEF WriteFails, CommitFails, TypeOK, At
  <1> QED  BY <1>1, <1>2, <1>3, StepIsOrderly, RowsKept
           DEF WriteFails, CommitFails, TypeOK, Locked, At

\* The row is recorded under the key its request wrote.
LEMMA CommitItemOrderly ==
    ASSUME IInv, NEW q \in Requests, CommitItem(q) PROVE Orderly
  <1> USE DEF IInv
  <1> DEFINE r == req[q].row
             x == [row[r] EXCEPT !.key = req[q].key, !.outcome = "pending", !.decision = "selected"]
  <1>1. r \in Rows /\ req[q].key \in Keys /\ item[req[q].key] # None
    BY DEF Requested, CommitItem, At, Proper, Materializing, Locked, Reserved,
           ReservedFor, Written
  <1>2. lock = q
    BY DEF CommitItem, At, Locked, Holding
  <1>3. x \in Row /\ x.key = req[q].key
    <2>1. row[r] \in Row
      BY <1>1 DEF TypeOK
    <2> HIDE DEF r
    <2> QED  BY <1>1, <2>1 DEF Row
  <1>4. \A s \in Rows : row[s].key = None
    BY DEF CommitItem, At, Locked, Holding
  <1>5. row' = [row EXCEPT ![r] = x]
    BY <1>1, <1>4 DEF CommitItem, TypeOK
  <1> HIDE DEF x, r
  <1>6. row' \in [Rows -> Row] /\ row'[r] = x /\ \A s \in Rows \ {r} : row'[s] = row[s]
    BY <1>1, <1>3, <1>5 DEF TypeOK
  <1>7. RowsGrow
    BY <1>1, <1>3, <1>4, <1>6, KeysAssumption DEF RowsGrow, OneRecordedKey, ObservedOnce
  <1>9. req[q].key \in ItemKeys'
    BY <1>1, <1>3, <1>6, KeysAssumption DEF ItemKeys
  <1>8. Requested' /\ Moved(q) /\ req'[q].pc \in {"start", "next"}
    BY ContinueMoves DEF CommitItem
  <1> QED  BY <1>2, <1>7, <1>8, <1>9, StepIsOrderly DEF CommitItem, TypeOK, Locked, At

\* Parking is for papers without an item.
LEMMA ParkOrderly ==
    ASSUME IInv, NEW q \in Requests, Park(q) PROVE Orderly
  <1> USE DEF IInv
  <1> DEFINE r == req[q].row
             x == WithAppOutcome([row[r] EXCEPT !.decision = "user_approved"])
  <1>1. r \in Rows
    BY DEF Requested, Park, At, Proper
  <1>2. x \in Row /\ x.key = row[r].key /\ x.planned = row[r].planned
    <2>1. row[r] \in Row
      BY <1>1 DEF TypeOK
    <2> HIDE DEF r
    <2> QED  BY <2>1 DEF Row, WithAppOutcome
  <1>3. \/ row' = row
        \/ \E k \in ItemKeys : row' = Linked(r, k)
        \/ x.key = None /\ row' = [row EXCEPT ![r] = x]
    <2>1. ItemKeys = {} => row[r].key = None
      BY <1>1 DEF ItemKeys
    <2> QED  BY <1>1, <1>2, <2>1 DEF Park, TypeOK
  <1> HIDE DEF x, r
  <1>4. RowsGrow
    BY <1>1, <1>2, <1>3, LinkGrows, RowUpdated, RowsKept
  <1>5. Requested' /\ Moved(q) /\ req'[q].pc \in {"start", "next"}
    BY ContinueMoves DEF Park
  <1> QED  BY <1>4, <1>5, StepIsOrderly DEF Park, Unlocked, TypeOK, Locked, At

\* A request that waits too long has no lock to give back.
LEMMA TimesOutOrderly ==
    ASSUME IInv, NEW q \in Requests, TimesOut(q) PROVE Orderly
  <1> USE DEF IInv
  <1>1. Requested' /\ Moved(q) /\ req'[q].pc \in {"start", "park"}
    BY RaiseMoves DEF TimesOut
  <1>2. failures' \in 0..MaxFailures /\ failures' # 0
    BY BoundsAssumption DEF TimesOut, TypeOK
  <1> QED  BY <1>1, <1>2, StepIsOrderly DEF TimesOut, TypeOK, Locked, At

\* The steps no request takes.
LEMMA RetractOrderly == ASSUME IInv, Retract PROVE Orderly
  <1>1. \A p \in Requests : req[p].pc \notin Locked
    BY KeysAssumption DEF IInv, Holding, Retract, Unlocked
  <1> QED  BY <1>1, RowsKept DEF IInv, Retract, Orderly, TypeOK, Requested

\* Decision and label, in one transaction.
LEMMA CommitReviewOrderly ==
    ASSUME IInv, NEW r \in Rows, NEW p \in Priorities, CommitReview(r, p) PROVE Orderly
  <1> USE DEF IInv
  <1> DEFINE d == IF p = "dont_read" THEN "user_rejected" ELSE "user_approved"
             x == [row[r] EXCEPT !.decision = d]
  <1>1. \A q \in Requests : req[q].pc \notin Locked
    BY KeysAssumption DEF Holding, CommitReview, Unlocked
  <1>2. /\ x \in Row /\ x.key = row[r].key /\ x.planned = row[r].planned
        /\ ObservedOnce(r, x)
    BY DEF TypeOK, Row, ObservedOnce, Outcome
  <1>3. row' = [row EXCEPT ![r] = x]
    BY DEF CommitReview, TypeOK
  <1> HIDE DEF x
  <1>4. RowsGrow
    BY <1>2, <1>3, RowUpdated
  <1>5. verdict' \in Verdict
    BY VerdictType DEF CommitReview
  <1> QED  BY <1>1, <1>4, <1>5 DEF CommitReview, Orderly, TypeOK, Requested

\* The observation of an outcome.
LEMMA ObserveOrderly ==
    ASSUME IInv, NEW r \in Rows, Observe(r) PROVE Orderly
  <1> USE DEF IInv
  <1> DEFINE x == [row[r] EXCEPT !.outcome = "seen", !.detected = TRUE]
  <1>1. \A q \in Requests : req[q].pc \notin Locked
    BY KeysAssumption DEF Holding, Observe, Unlocked
  <1>2. /\ x \in Row /\ x.key = row[r].key /\ x.planned = row[r].planned
        /\ ObservedOnce(r, x)
    BY DEF TypeOK, Row, ObservedOnce, Observe
  <1>3. row' = [row EXCEPT ![r] = x]
    BY DEF Observe, TypeOK
  <1> HIDE DEF x
  <1>4. RowsGrow
    BY <1>2, <1>3, RowUpdated
  <1> QED  BY <1>1, <1>4 DEF Observe, Orderly, TypeOK, Requested

\* A stop ends every request and frees the lock.
LEMMA StopOrderly == ASSUME IInv, Stop PROVE Orderly
  <1>1. Idle \in Proper /\ Over \in Proper /\ Idle.pc = "start" /\ Over.pc = "start"
    BY DEF Idle, Over, Proper, Request, Materializing
  <1>2. Requested' /\ \A p \in Requests : req'[p].pc = "start"
    BY <1>1 DEF Stop, Requested
  <1>3. failures' \in 0..MaxFailures /\ failures' # 0
    BY BoundsAssumption DEF IInv, Stop, TypeOK
  <1> QED  BY <1>2, <1>3, RowsKept DEF IInv, Stop, Orderly, TypeOK, Locked

\* All steps but taking the lock and writing the item.
LEMMA OrderlySteps ==
    ASSUME IInv, [Next]_vars,
           ~\E q \in Requests : WriteItem(q) \/ (CheckIntent(q) /\ lock' # lock)
    PROVE  Orderly
  <1>1. CASE UNCHANGED vars
    <2>1. /\ row' = row /\ verdict' = verdict /\ refused' = refused /\ item' = item
          /\ req' = req /\ lock' = lock /\ failures' = failures
      BY <1>1 DEF vars
    <2>2. TypeOK /\ Requested /\ RowsGrow
      BY <2>1, RowsKept DEF IInv
    <2>3. \A p \in Requests : req'[p] = req[p]
      BY <2>1
    <2>4. Requested'
      BY <2>1, <2>2 DEF Requested
    <2> QED  BY <2>1, <2>2, <2>3, <2>4 DEF Orderly, TypeOK
  <1>2. ASSUME NEW q \in Requests, Materializes(q) PROVE Orderly
    BY <1>2, ReserveOrderly, DroppedIsOrderly, WriteFailsOrderly, CommitItemOrderly, ParkOrderly
       DEF Materializes
  <1> QED  BY <1>1, <1>2, StartsOrderly, LabelsOrderly, FollowsOrderly, TimesOutOrderly,
              WriteFailsOrderly, RetractOrderly, CommitReviewOrderly, ObserveOrderly,
              StopOrderly DEF Next

-----------------------------------------------------------------------------
(* The inductive invariant.                                                *)

\* Nothing is recorded at first.
LEMMA InitHolds == Init => IInv
  <1> SUFFICES ASSUME Init PROVE IInv
    OBVIOUS
  <1>1. Idle \in Proper /\ Idle.pc = "start"
    BY DEF Idle, Proper, Request, Materializing
  <1>2. Requested /\ \A q \in Requests : req[q].pc = "start"
    BY <1>1 DEF Init, Requested
  <1>3. \A r \in Rows : row[r] \in Row /\ row[r].key = None
    BY DEF Init, Row
  <1>4. TypeOK
    BY <1>2, <1>3, BoundsAssumption DEF Init, TypeOK, Requested, Proper
  <1> QED  BY <1>2, <1>3, <1>4
           DEF Init, IInv, Locked, Holding, Reserved, Written, ItemsArePlanned,
               ItemsAreTraced, RowsOK, RecordedItemsExist, OneRecordedKey, ItemKeys, OneItemPerRow

\* An orderly step keeps the invariant.
LEMMA OrderlyKeeps == ASSUME IInv, Orderly PROVE IInv'
  <1> USE DEF IInv
  <1>1. TypeOK'
    BY DEF Orderly, TypeOK, Requested, Proper, RowsGrow
  <1>2. Holding'
    BY DEF Orderly, Holding, Superseded, Rejected, UserVerdict
  <1>3. ASSUME NEW q \in Requests, req'[q].pc \in Locked \cup {"intent"} PROVE ReservedFor(q)'
    <2>1. CASE req'[q] # req[q]
      BY <1>3, <2>1 DEF Orderly, Locked
    <2>2. CASE req'[q] = req[q]
      <3>1. ReservedFor(q) /\ req[q].row \in Rows
        BY <1>3, <2>2 DEF Reserved, Requested, Proper, Materializing, Locked
      <3> QED  BY <2>2, <3>1, KeysAssumption DEF Orderly, RowsGrow, ReservedFor
    <2> QED  BY <2>1, <2>2
  <1>4. Written'
    BY DEF Orderly, Written, Locked
  <1>5. ItemsArePlanned'
    <2>1. ASSUME NEW k \in Keys, item[k] # None PROVE item[k].by \in Rows
      BY <2>1 DEF TypeOK, Item
    <2> QED  BY <2>1, KeysAssumption DEF Orderly, RowsGrow, ItemsArePlanned
  <1>6. RowsOK'
    BY DEF Orderly, RowsGrow, RowsOK, RecordedItemsExist, ItemKeys
  <1>8. ItemsAreTraced'
    <2> SUFFICES ASSUME failures' = 0, NEW k \in Keys, item'[k] # None
                 PROVE  \/ k \in ItemKeys'
                        \/ \E q \in Requests : req'[q].pc = "commit" /\ req'[q].key = k
      BY DEF ItemsAreTraced
    <2>1. failures = 0 /\ item[k] # None
      BY DEF Orderly
    <2>2. CASE k \in ItemKeys
      <3>1. PICK r \in Rows : row[r].key = k /\ k # None
        BY <2>2 DEF ItemKeys
      <3>2. row'[r].key = k
        BY <3>1 DEF Orderly, RowsGrow
      <3> QED  BY <3>1, <3>2 DEF ItemKeys
    <2>3. ASSUME NEW q \in Requests, req[q].pc = "commit", req[q].key = k
          PROVE  k \in ItemKeys' \/ \E p \in Requests : req'[p].pc = "commit" /\ req'[p].key = k
      <3>1. req'[q] = req[q] \/ k \in ItemKeys'
        BY <2>3 DEF Orderly
      <3> QED  BY <2>3, <3>1
    <2> QED  BY <2>1, <2>2, <2>3 DEF ItemsAreTraced
  <1>7. OneItemPerRow'
    BY DEF Orderly, OneItemPerRow
  <1> QED  BY <1>1, <1>2, <1>3, <1>4, <1>5, <1>6, <1>7, <1>8 DEF Orderly, Reserved

\* The request takes the lock: what it checked is what Holding says.
LEMMA TakingTheLock ==
    ASSUME IInv, NEW q \in Requests, CheckIntent(q), lock' # lock PROVE IInv'
  <1> USE DEF IInv
  <1>1. /\ lock' = q /\ Goto(q, "write") /\ ItemKeys = {}
        /\ ~Superseded(req[q].row, req[q].label)
        /\ UNCHANGED <<row, verdict, refused, item, failures>>
    BY DEF CheckIntent
  <1>2. req[q].row \in Rows /\ ReservedFor(q)
    BY DEF Requested, CheckIntent, At, Proper, Materializing, Reserved
  <1>3. /\ Requested' /\ Moved(q) /\ req'[q].pc = "write"
        /\ req'[q].row = req[q].row /\ req'[q].label = req[q].label /\ req'[q].key = req[q].key
    <2>1. Requested' /\ Moved(q) /\ req'[q] = [req[q] EXCEPT !.pc = "write"]
      BY <1>1, <1>2, GotoMoves DEF Pcs
    <2>2. req[q] \in Request
      BY DEF TypeOK
    <2> QED  BY <2>1, <2>2 DEF Request
  <1>4. \A p \in Requests : req[p].pc \notin Locked
    BY KeysAssumption DEF CheckIntent, Unlocked, Holding
  <1>5. TypeOK'
    BY <1>1, <1>3 DEF TypeOK, Requested, Proper
  <1>6. \A r \in Rows : row[r].key = None
    BY <1>1 DEF ItemKeys
  <1>7. Holding'
    BY <1>1, <1>3, <1>4, <1>6 DEF Moved, Holding, Superseded, Rejected, UserVerdict
  <1>8. Reserved'
    BY <1>1, <1>2, <1>3 DEF Moved, Reserved, ReservedFor
  <1>9. Written'
    BY <1>1, <1>3 DEF Moved, Written
  <1>10. ItemsArePlanned' /\ RowsOK' /\ OneItemPerRow'
    BY <1>1 DEF ItemsArePlanned, RowsOK, RecordedItemsExist, OneRecordedKey, ItemKeys, OneItemPerRow
  <1>11. ItemsAreTraced'
    BY <1>1, <1>4 DEF ItemsAreTraced, ItemKeys, Locked
  <1> QED  BY <1>3, <1>5, <1>7, <1>8, <1>9, <1>10, <1>11

\* The item of a row none of whose siblings is recorded; an item an earlier
\* attempt left behind has the same key.
LEMMA WritingTheItem ==
    ASSUME IInv, NEW q \in Requests, WriteItem(q) PROVE IInv'
  <1> USE DEF IInv
  <1> DEFINE k == req[q].key
             r == req[q].row
             x == [by |-> r, label |-> req[q].label]
  <1>1. /\ lock = q /\ \A s \in Rows : row[s].key = None
        /\ k \in Keys /\ r \in Rows /\ row[r].planned = k
    BY DEF WriteItem, At, Locked, Holding, Reserved, ReservedFor, Requested, Proper, Materializing
  <1>2. x \in Item /\ x.by = r /\ x # None
    BY <1>1, NoneAssumption DEF Item, Requested, Proper, Request
  <1>3. item' = IF item[k] # None THEN item ELSE [item EXCEPT ![k] = x]
    BY DEF WriteItem
  <1> HIDE DEF x, k, r
  <1>4. /\ \A l \in Keys \ {k} : item'[l] = item[l]
        /\ \/ item[k] # None /\ item'[k] = item[k]
           \/ item[k] = None /\ item'[k] = x
        /\ item'[k] # None /\ item' \in [Keys -> Item \cup {None}]
    BY <1>1, <1>2, <1>3 DEF TypeOK
  <1>5. UNCHANGED <<row, verdict, refused, lock, failures>>
    BY DEF WriteItem
  <1>6. /\ Requested' /\ Moved(q) /\ req'[q].pc = "commit"
        /\ req'[q].row = req[q].row /\ req'[q].label = req[q].label /\ req'[q].key = req[q].key
    <2>1. Requested' /\ Moved(q) /\ req'[q] = [req[q] EXCEPT !.pc = "commit"]
      BY <1>1, GotoMoves DEF WriteItem, Pcs, r
    <2>2. req[q] \in Request
      BY DEF TypeOK
    <2> QED  BY <2>1, <2>2 DEF Request
  <1>7. TypeOK'
    BY <1>4, <1>5, <1>6 DEF TypeOK, Requested, Proper
  <1>8. Holding'
    BY <1>1, <1>5, <1>6
    DEF Moved, Holding, Superseded, Rejected, UserVerdict, Locked, WriteItem, At
  <1>9. Reserved'
    BY <1>5, <1>6 DEF Moved, Reserved, ReservedFor, Locked, WriteItem, At
  <1>10. Written'
    BY <1>4, <1>6 DEF Moved, Written, Reserved, ReservedFor, Locked, k
  <1>11. ItemsArePlanned'
    BY <1>1, <1>2, <1>4, <1>5 DEF ItemsArePlanned
  <1>12. RowsOK'
    BY <1>1, <1>5 DEF RowsOK, RecordedItemsExist, OneRecordedKey, ItemKeys
  <1>14. ItemsAreTraced'
    <2> SUFFICES ASSUME failures = 0, NEW l \in Keys, item'[l] # None
                 PROVE  req'[q].key = l
      BY <1>5, <1>6 DEF ItemsAreTraced
    <2>1. ItemKeys = {}
      BY <1>1 DEF ItemKeys
    <2>2. \A p \in Requests : req[p].pc # "commit"
      BY <1>1 DEF Holding, Locked, WriteItem, At
    <2>3. \A j \in Keys : item[j] = None
      BY <2>1, <2>2 DEF ItemsAreTraced
    <2> QED  BY <1>4, <1>6, <2>3 DEF k
  <1>13. OneItemPerRow'
    <2>1. \A l \in Keys : item[l] # None /\ item[l].by = r => l = k
      BY <1>1 DEF ItemsArePlanned
    <2> QED  BY <1>2, <1>4, <2>1 DEF OneItemPerRow
  <1> QED  BY <1>6, <1>7, <1>8, <1>9, <1>10, <1>11, <1>12, <1>13, <1>14

\* Every step keeps the invariant.
LEMMA StepHolds == ASSUME IInv, [Next]_vars PROVE IInv'
  BY OrderlySteps, OrderlyKeeps, TakingTheLock, WritingTheItem

\* The invariant holds in every reachable state.
LEMMA Holds == Spec => []IInv
  BY InitHolds, StepHolds, PTL DEF Spec

-----------------------------------------------------------------------------
(* Theorems.                                                               *)

\* Rows, requests and items stay what the tables of the source allow.
THEOREM TypeCorrect == Spec => []TypeOK
  BY Holds, PTL DEF IInv

\* A row is written to Zotero under one key: a request that starts over finds
\* the key it reserved (reserve_materialization_key).
THEOREM OneItem == Spec => []OneItemPerRow
  BY Holds, PTL DEF IInv

\* What is recorded as materialized is in Zotero: the record follows the
\* write, in one hold of the lock (materialize_row).
THEOREM RecordedItems == Spec => []RecordedItemsExist
  BY Holds, PTL DEF IInv, RowsOK

\* Siblings are recorded under one item; and unless a request broke off, there
\* is one item: the request about to commit holds the lock, and nothing was
\* recorded when it looked.
THEOREM OneItemForSiblings == Spec => []SiblingsShareOneItem
  <1>1. ASSUME IInv PROVE SiblingsShareOneItem
    <2> USE <1>1 DEF IInv
    <2>1. \A k, l \in ItemKeys : k = l
      BY DEF RowsOK, OneRecordedKey, ItemKeys
    <2>2. ASSUME NEW q \in Requests, req[q].pc = "commit"
          PROVE  ItemKeys = {} /\ \A p \in Requests : req[p].pc = "commit" => p = q
      BY <2>2 DEF Holding, Locked, ItemKeys
    <2>3. ASSUME failures = 0, NEW k \in Keys, NEW l \in Keys, item[k] # None, item[l] # None
          PROVE  k = l
      BY <2>1, <2>2, <2>3 DEF ItemsAreTraced
    <2> QED  BY <2>1, <2>3 DEF SiblingsShareOneItem
  <1> QED  BY <1>1, Holds, PTL

\* Only its observation changes the outcome of a row that has its item, and
\* once; a Trash or a priority under way does not (record_app_outcome,
\* record_outcome).
THEOREM OutcomesObserved == Spec => OutcomesAreObserved
  <1> DEFINE P == \A r \in Rows : row[r].key # None =>
                    \/ Outcome(row'[r]) = Outcome(row[r])
                    \/ Due(r) /\ row'[r].outcome = "seen"
  <1>1. ASSUME IInv, [Next]_vars PROVE P
    <2>1. CASE \E q \in Requests : WriteItem(q) \/ (CheckIntent(q) /\ lock' # lock)
      <3>1. row' = row
        BY <2>1 DEF WriteItem, CheckIntent
      <3> QED  BY <3>1
    <2>2. CASE Orderly
      BY <2>2 DEF Orderly, RowsGrow, ObservedOnce
    <2> QED  BY <1>1, <2>1, <2>2, OrderlySteps
  <1>2. IInv /\ [Next]_vars => [P]_vars
    BY <1>1
  <1> QED  BY <1>2, Holds, PTL DEF Spec, OutcomesAreObserved

\* An item is new only in WriteItem, where the request holds the lock.
LEMMA NewItemIsChecked ==
    ASSUME IInv, [Next]_vars, NEW k \in Keys, NewItem(k)
    PROVE  \E q \in Requests :
              /\ row[req[q].row].key = None
              /\ ~Superseded(req[q].row, req[q].label)
              /\ item'[k].by = req[q].row /\ item'[k].label = req[q].label
  <1>1. PICK q \in Requests : WriteItem(q)
    BY OrderlySteps DEF Orderly, NewItem, CheckIntent
  <1>2. /\ req[q].row \in Rows
        /\ row[req[q].row].key = None
        /\ ~Superseded(req[q].row, req[q].label)
    BY <1>1 DEF WriteItem, At, Locked, IInv, Holding, Requested, Proper, Materializing
  <1>3. item'[k] = [by |-> req[q].row, label |-> req[q].label]
    BY <1>1 DEF WriteItem, NewItem, IInv, TypeOK
  <1> QED  BY <1>2, <1>3

\* No item is created for a rejected paper: the check of the intent still
\* holds when the item is written (materialize_row).
THEOREM RejectedStayOut == Spec => RejectedPapersStayOut
  <1> DEFINE P == \A k \in Keys : NewItem(k) =>
                    /\ ~Rejected
                    /\ row[item'[k].by].decision = "user_rejected" => UserVerdict
  <1>1. ASSUME IInv, [Next]_vars PROVE P
    BY <1>1, NewItemIsChecked DEF Superseded
  <1>2. IInv /\ [Next]_vars => [P]_vars
    BY <1>1
  <1> QED  BY <1>2, Holds, PTL DEF Spec, RejectedPapersStayOut

\* A new item carries no label its user has changed since.
THEOREM LabelsStayCurrent == Spec => LabelsAreCurrent
  <1> DEFINE P == \A k \in Keys : NewItem(k) =>
                    verdict = None \/ item'[k].label \in {None, verdict.priority}
  <1>1. ASSUME IInv, [Next]_vars PROVE P
    BY <1>1, NewItemIsChecked DEF Superseded
  <1>2. IInv /\ [Next]_vars => [P]_vars
    BY <1>1
  <1> QED  BY <1>2, Holds, PTL DEF Spec, LabelsAreCurrent

-----------------------------------------------------------------------------
(* The queue of a rejected paper.                                          *)

Queued(r) == row[r].decision = "user_approved" /\ row[r].key = None

\* The request has written "dont_read", or replays it, and will cancel.
Cancels(q) ==
    \/ At(q, {"verdict"}, "effects") /\ req[q].want = "dont_read"
    \/ At(q, {"verdict", "daily"}, "cancel")

\* ... or has written the verdict of a Trash and will decide on its row.
Clears(q, r) ==
    IF verdict.from = "user" THEN Cancels(q)
    ELSE At(q, {"trash"}, "decide") /\ req[q].row = r

\* As long as no request has broken off, a row that the rejection took back and
\* that is in the queue has a request under way which takes it out.
QueueOK ==
    failures = 0 =>
        \A r \in refused : Rejected /\ (Queued(r) => \E q \in Requests : Clears(q, r))

\* A step of one request that gives no verdict, queues no row of a rejected
\* paper and does not give up clearing the queue.
LEMMA QueueKept ==
    ASSUME TypeOK, QueueOK, NEW q \in Requests, Moved(q),
           \A r \in refused : Clears(q, r) => Clears(q, r)' \/ ~Queued(r)',
           failures' = 0 => failures = 0, UNCHANGED <<verdict, refused>>,
           Rejected => \A r \in Rows : Queued(r)' => Queued(r)
    PROVE  QueueOK'
  <1> SUFFICES ASSUME failures' = 0, NEW r \in refused
               PROVE  Rejected' /\ (Queued(r)' => \E p \in Requests : Clears(p, r)')
    BY DEF QueueOK
  <1>1. Rejected /\ Rejected' /\ r \in Rows
    BY DEF QueueOK, Rejected, TypeOK
  <1>2. ASSUME Queued(r)' PROVE \E p \in Requests : Clears(p, r)'
    <2>1. PICK p \in Requests : Clears(p, r)
      BY <1>1, <1>2 DEF QueueOK
    <2>2. p # q => Clears(p, r)'
      BY <2>1 DEF Moved, Clears, Cancels, At
    <2> QED  BY <1>2, <2>1, <2>2
  <1> QED  BY <1>1, <1>2

LEMMA ReqMoves ==
    ASSUME TypeOK, NEW q \in Requests
    PROVE  /\ \A x : req' = [req EXCEPT ![q] = x] => Moved(q) /\ req'[q] = x
           /\ \A pc : Goto(q, pc) => /\ Moved(q) /\ req'[q].pc = pc
                                     /\ req'[q].kind = req[q].kind /\ req'[q].want = req[q].want
                                     /\ req'[q].row = req[q].row
           /\ Finish(q) => Moved(q)
           /\ Continue(q) => Moved(q)
           /\ Raise(q) => Moved(q)
  <1>1. ASSUME NEW x, req' = [req EXCEPT ![q] = x] PROVE Moved(q) /\ req'[q] = x
    BY <1>1 DEF TypeOK, Moved
  <1>2. ASSUME NEW pc, Goto(q, pc)
        PROVE  /\ Moved(q) /\ req'[q].pc = pc
               /\ req'[q].kind = req[q].kind /\ req'[q].want = req[q].want
               /\ req'[q].row = req[q].row
    <2>1. PICK x : x = [req[q] EXCEPT !.pc = pc]
      OBVIOUS
    <2>2. req' = [req EXCEPT ![q] = x]
      BY <1>2, <2>1 DEF Goto
    <2>3. x.pc = pc /\ x.kind = req[q].kind /\ x.want = req[q].want /\ x.row = req[q].row
      BY <2>1 DEF TypeOK, Request
    <2> QED  BY <1>1, <2>2, <2>3
  <1>3. Finish(q) => Moved(q)
    BY <1>1 DEF Finish
  <1> QED  BY <1>1, <1>2, <1>3 DEF Continue, Raise

\* Requests begin and give labels.
LEMMA StartsQueue ==
    ASSUME TypeOK, QueueOK, NEW q \in Requests, Starts(q) PROVE QueueOK'
  <1>1. UNCHANGED <<row, verdict, refused, failures>> /\ req[q] = Idle
    BY DEF Starts, StartAdd, StartTrash, StartVerdict, ReplayVerdict, StartDaily, StartApply, Begin, Free
  <1>2. Moved(q)
    BY ReqMoves DEF Starts, StartAdd, StartTrash, StartVerdict, ReplayVerdict, StartDaily, StartApply, Begin
  <1>3. \A r : ~Clears(q, r)
    BY <1>1 DEF Clears, Cancels, At, Idle
  <1> QED  BY <1>1, <1>2, <1>3, QueueKept DEF Queued

LEMMA LabelsQueue ==
    ASSUME TypeOK, QueueOK, NEW q \in Requests, Labels(q) PROVE QueueOK'
  <1>1. CASE AddReads(q)
    <2>1. Moved(q) /\ \A r : ~Clears(q, r)
      BY <1>1, ReqMoves DEF AddReads, Opened, Clears, Cancels, At
    <2> QED  BY <1>1, <2>1, QueueKept DEF AddReads, Queued
  <1>2. CASE AddLabels(q)
    BY <1>2 DEF AddLabels, QueueOK
  <1>3. CASE TrashLabels(q)
    <2>1. verdict' = [priority |-> "dont_read", from |-> "today_trash"] /\ refused' = {req[q].row}
      BY <1>3 DEF TrashLabels
    <2>2. req'[q].pc = "decide" /\ req'[q].kind = "trash" /\ req'[q].row = req[q].row
      BY <1>3, ReqMoves DEF TrashLabels, At
    <2>3. Rejected' /\ \A r \in refused' : Clears(q, r)'
      BY <2>1, <2>2, VerdictType, NoneAssumption DEF Rejected, Clears, At, Priorities
    <2> QED  BY <2>1, <2>3 DEF QueueOK
  <1>4. CASE VerdictLabels(q) \/ DailyLabels(q)
    <2>1. /\ verdict' = [priority |-> req[q].want, from |-> "user"]
          /\ refused' = IF req[q].want = "dont_read" THEN Rows ELSE {}
      BY <1>4 DEF VerdictLabels, DailyLabels
    <2>2. ASSUME req[q].want = "dont_read" PROVE Rejected' /\ \A r \in Rows : Clears(q, r)'
      <3>1. verdict' = [priority |-> "dont_read", from |-> "user"]
        BY <2>1, <2>2
      <3>2. Rejected'
        BY <3>1, VerdictType, NoneAssumption DEF Rejected, Priorities
      <3>3. Cancels(q)'
        BY <1>4, <2>2, ReqMoves DEF VerdictLabels, DailyLabels, Cancels, At
      <3> QED  BY <3>1, <3>2, <3>3 DEF Clears
    <2> QED  BY <2>1, <2>2 DEF QueueOK
  <1> QED  BY <1>1, <1>2, <1>3, <1>4 DEF Labels

\* What follows a label: a rejection clears the queue.
LEMMA FollowsQueue ==
    ASSUME TypeOK, QueueOK, NEW q \in Requests, Follows(q) PROVE QueueOK'
  <1>0. Moved(q) /\ (failures' = 0 => failures = 0)
    <2>0. req = [p \in Requests |-> req[p]]
      BY DEF TypeOK
    <2>1. Effects(q) => Moved(q)
      BY <2>0, ReqMoves DEF Effects, Moved
    <2>2. CancelPending(q) \/ TrashDecides(q) \/ RecordOutcome(q) => Moved(q)
      BY ReqMoves DEF CancelPending, TrashDecides, RecordOutcome
    <2>3. ASSUME NEW r \in Rows, Classify(q, r) PROVE Moved(q)
      BY <2>0, <2>3 DEF Classify, Moved
    <2>4. OpenWriter(q) => Moved(q)
      BY <2>0, ReqMoves DEF OpenWriter, Moved
    <2>5. ASSUME NEW c \in req[q].cand, NextCandidate(q, c) PROVE Moved(q)
      BY <2>0, <2>5 DEF NextCandidate, Moved
    <2>6. failures' = 0 => failures = 0
      BY DEF Follows, Effects, CancelPending, TrashDecides, RecordOutcome, Classify,
             OpenWriter, NextCandidate
    <2> QED  BY <2>1, <2>2, <2>3, <2>4, <2>5, <2>6 DEF Follows
  <1>1. CASE Effects(q)
    <2>1. UNCHANGED <<row, verdict, refused, failures>>
      BY <1>1 DEF Effects
    <2>2. ASSUME failures = 0, NEW r \in refused, Clears(q, r) PROVE Clears(q, r)'
      <3>1. Rejected
        BY <2>2 DEF QueueOK
      <3>2. verdict = [priority |-> "dont_read", from |-> "user"]
        BY <1>1, <2>2, <3>1 DEF Effects, Clears, Rejected, At, TypeOK, Verdict
      <3> QED  BY <1>1, <2>1, <2>2, <3>2, ReqMoves DEF Effects, Clears, Cancels, At
    <2>3. CASE failures = 0
      BY <1>0, <2>1, <2>2, <2>3, QueueKept DEF Queued
    <2> QED  BY <2>1, <2>3 DEF QueueOK
  <1>2. CASE CancelPending(q)
    <2>1. \A r \in Rows : ~Queued(r)'
      BY <1>2 DEF CancelPending, Cancelled, Queued, TypeOK, Row
    <2>2. UNCHANGED <<verdict, refused, failures>>
      BY <1>2 DEF CancelPending
    <2> QED  BY <2>1, <2>2 DEF QueueOK, Rejected, TypeOK
  <1>3. CASE TrashDecides(q)
    <2>1. \A r \in Rows : Queued(r)' => Queued(r) /\ r # req[q].row
      BY <1>3 DEF TrashDecides, Queued, TypeOK, Row
    <2>2. \A r : Clears(q, r) => r = req[q].row
      BY <1>3 DEF TrashDecides, Clears, Cancels, At
    <2>3. UNCHANGED <<verdict, refused>>
      BY <1>3 DEF TrashDecides
    <2> QED  BY <1>0, <2>1, <2>2, <2>3, QueueKept DEF TypeOK
  <1>4. CASE RecordOutcome(q)
    <2>1. \A r \in Rows : Queued(r)' => Queued(r)
      BY <1>4 DEF RecordOutcome, WithAppOutcome, Queued, TypeOK, Row
    <2>2. \A r : ~Clears(q, r)
      BY <1>4 DEF RecordOutcome, Clears, Cancels, At
    <2>3. UNCHANGED <<verdict, refused>>
      BY <1>4 DEF RecordOutcome
    <2> QED  BY <1>0, <2>1, <2>2, <2>3, QueueKept
  <1>5. ASSUME NEW r \in Rows, Classify(q, r) PROVE QueueOK'
    <2>1. \A s \in Rows : Queued(s)' => Queued(s)
      BY <1>5 DEF Classify, Cancelled, Queued, TypeOK, Row
    <2>2. \A s : ~Clears(q, s)
      BY <1>5 DEF Classify, Clears, Cancels, At
    <2>3. UNCHANGED <<verdict, refused>>
      BY <1>5 DEF Classify
    <2> QED  BY <1>0, <2>1, <2>2, <2>3, QueueKept
  <1>6. CASE OpenWriter(q) \/ \E c \in req[q].cand : NextCandidate(q, c)
    <2>1. UNCHANGED <<row, verdict, refused, failures>> /\ \A r : ~Clears(q, r)
      BY <1>6 DEF OpenWriter, NextCandidate, Clears, Cancels, At
    <2> QED  BY <1>0, <2>1, QueueKept DEF Queued
  <1> QED  BY <1>1, <1>2, <1>3, <1>4, <1>5, <1>6 DEF Follows

\* Nothing puts a row of a rejected paper into the queue: it is superseded.
LEMMA MaterializesQueue ==
    ASSUME TypeOK, Requested, QueueOK, NEW q \in Requests, Materializes(q) PROVE QueueOK'
  <1>1. Moved(q)
    BY ReqMoves DEF Materializes, Reserve, CheckIntent, WriteItem, WriteFails, CommitItem, Park
  <1>2. /\ UNCHANGED <<verdict, refused, failures>>
        /\ \A r : ~Clears(q, r)
        /\ req[q].row \in Rows
    BY DEF Materializes, Reserve, CheckIntent, WriteItem, WriteFails, CommitItem, Park,
           Clears, Cancels, At, Requested, Proper, Materializing
  <1>3. ASSUME NEW r \in Rows, NEW k \in ItemKeys, row' = Linked(r, k)
        PROVE  \A s \in Rows : Queued(s)' => Queued(s)
    BY <1>3 DEF Linked, Queued, TypeOK, Row
  <1>4. CASE Reserve(q)
    <2>1. PICK k \in Keys : row' = [row EXCEPT ![req[q].row].planned = Planned(req[q].row, k)]
      BY <1>4 DEF Reserve
    <2>2. \A r \in Rows : row'[r].decision = row[r].decision /\ row'[r].key = row[r].key
      BY <1>2, <2>1 DEF TypeOK, Row
    <2> QED  BY <1>1, <1>2, <2>2, QueueKept DEF Queued
  <1>5. CASE CheckIntent(q)
    <2>1. \A s \in Rows : Queued(s)' => Queued(s)
      BY <1>2, <1>3, <1>5 DEF CheckIntent, Queued
    <2> QED  BY <1>1, <1>2, <2>1, QueueKept
  <1>6. CASE WriteItem(q) \/ WriteFails(q)
    <2>1. UNCHANGED row
      BY <1>6 DEF WriteItem, WriteFails
    <2> QED  BY <1>1, <1>2, <2>1, QueueKept DEF Queued
  <1>7. CASE CommitItem(q)
    <2>1. \A s \in Rows : Queued(s)' => Queued(s)
      BY <1>2, <1>7 DEF CommitItem, Queued, TypeOK, Row
    <2> QED  BY <1>1, <1>2, <2>1, QueueKept
  <1>8. CASE Park(q)
    <2>1. ASSUME Rejected PROVE \A s \in Rows : Queued(s)' => Queued(s)
      <3>1. row[req[q].row].key = None => Superseded(req[q].row, None)
        BY <2>1 DEF Superseded
      <3>2. row[req[q].row].key # None => ItemKeys # {}
        BY <1>2 DEF ItemKeys
      <3> QED  BY <1>2, <1>3, <1>8, <3>1, <3>2 DEF Park, WithAppOutcome, Queued
    <2> QED  BY <1>1, <1>2, <2>1, QueueKept
  <1> QED  BY <1>4, <1>5, <1>6, <1>7, <1>8 DEF Materializes

LEMMA QueueStep ==
    ASSUME IInv, QueueOK, [Next]_vars PROVE QueueOK'
  <1>0. TypeOK /\ Requested
    BY DEF IInv
  <1>1. CASE UNCHANGED vars
    BY <1>1 DEF vars, QueueOK, Rejected, Queued, Clears, Cancels, At
  <1>2. ASSUME failures' = failures + 1 PROVE QueueOK'
    <2>1. failures' # 0
      BY <1>0, <1>2, BoundsAssumption DEF TypeOK
    <2> QED  BY <2>1 DEF QueueOK
  <1>3. CASE Stop \/ \E q \in Requests : TimesOut(q) \/ CommitFails(q)
    BY <1>2, <1>3 DEF Stop, TimesOut, CommitFails
  <1>4. CASE Retract
    BY <1>4 DEF Retract, QueueOK
  <1>5. ASSUME NEW r \in Rows, NEW p \in Priorities, CommitReview(r, p) PROVE QueueOK'
    <2>1. CASE p = "dont_read"
      <3>1. refused' = {r} /\ verdict' = [priority |-> "dont_read", from |-> "review"]
        BY <1>5, <2>1 DEF CommitReview
      <3>2. Rejected'
        BY <3>1, VerdictType, NoneAssumption DEF Rejected, Priorities
      <3>3. row' = [row EXCEPT ![r].decision = "user_rejected"]
        BY <1>5, <2>1 DEF CommitReview
      <3>4. ~Queued(r)'
        BY <1>0, <3>3 DEF Queued, TypeOK, Row
      <3> QED  BY <3>1, <3>2, <3>4 DEF QueueOK
    <2>2. CASE p # "dont_read"
      BY <1>5, <2>2 DEF CommitReview, QueueOK
    <2> QED  BY <2>1, <2>2
  <1>6. ASSUME NEW r \in Rows, Observe(r) PROVE QueueOK'
    <2>1. \A s \in Rows : Queued(s)' => Queued(s)
      BY <1>0, <1>6 DEF Observe, Queued, TypeOK, Row
    <2>2. UNCHANGED <<verdict, refused, req, failures>>
      BY <1>6 DEF Observe
    <2> QED  BY <1>0, <2>1, <2>2 DEF QueueOK, Rejected, Clears, Cancels, At, TypeOK
  <1> QED  BY <1>0, <1>1, <1>3, <1>4, <1>5, <1>6, StartsQueue, LabelsQueue, FollowsQueue,
              MaterializesQueue DEF Next

\* Once every request has run to its end, no row that the newest verdict took
\* back waits to be added: what gave the verdict takes out of the queue what was
\* there before, a label every sibling, a Trash or a rejection in review its own
\* row, and nothing queues a row of a rejected paper.
THEOREM RejectionsClear == Spec => []RejectionClearsTheQueue
  <1>1. Init => QueueOK
    BY DEF Init, QueueOK
  <1>2. IInv /\ QueueOK => RejectionClearsTheQueue
    <2>1. ASSUME IInv, QueueOK, Quiet, failures = 0, NEW r \in refused,
                 row[r].decision = "user_approved", row[r].key = None
          PROVE  FALSE
      <3>1. PICK q \in Requests : Clears(q, r)
        BY <2>1 DEF QueueOK, Queued
      <3> QED  BY <2>1, <3>1 DEF Quiet, Clears, Cancels, At, Idle, Over
    <2> QED  BY <2>1 DEF RejectionClearsTheQueue
  <1>3. IInv /\ QueueOK /\ [Next]_vars => QueueOK'
    BY QueueStep
  <1> QED  BY <1>1, <1>2, <1>3, Holds, PTL DEF Spec
=============================================================================
