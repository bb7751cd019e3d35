------------------------ MODULE FeedMaterialization ------------------------
(***************************************************************************)
(* One feed paper on its way into Zotero (services/triage/daily_actions.py, *)
(* services/library/review_materialize.py, services/golden/                *)
(* verdict_effects.py, storage/feeds_history.py, storage/feeds.py).        *)
(*                                                                         *)
(* A paper may have arrived in several feeds: its rows are siblings under  *)
(* one stable key and share one verdict.  Add, Trash, a verdict, a Today   *)
(* priority and "apply all" are requests in threads of their own, each a   *)
(* sequence of transactions on the application's database.  Creating the   *)
(* Zotero item is a transaction of another database, made while the        *)
(* application's write lock is held; the two commits can come apart.       *)
(*                                                                         *)
(* The paper has a usable review throughout; what a positive action is     *)
(* refused for lack of one changes no state.                               *)
(***************************************************************************)
EXTENDS Naturals, FiniteSets

CONSTANTS
    Rows,         \* processed_feed_items of the paper
    Keys,         \* Zotero item keys
    Requests,     \* requests, each made once
    MaxAtOnce,    \* bound: requests under way at the same time
    MaxFailures,  \* bound: requests that break off and stops of the server
    None

ASSUME KeysAssumption == None \notin Keys \cup Rows \cup Requests
ASSUME BoundsAssumption == MaxAtOnce \in Nat /\ MaxFailures \in Nat

VARIABLES
    row,      \* processed_feed_items: decision, keys and outcome
    verdict,  \* label_verdicts: the paper's verdict
    refused,  \* history: the rows that verdict was given to take back
    item,     \* Zotero: the items created for the paper
    req,      \* the requests: where they are and what they have read
    lock,     \* holder of the application's write lock between two steps
    failures

vars == <<row, verdict, refused, item, req, lock, failures>>

Positive   == {"should_read", "must_read"}
Priorities == Positive \cup {"dont_read"}

\* from: the action that wrote the verdict; it stands for source and comment.
Verdict == [priority: Priorities, from: {"user", "today_add", "today_trash", "review"}]

UserVerdict == verdict # None /\ verdict.from # "today_add"
Rejected    == verdict # None /\ verdict.priority = "dont_read"

\* decision: "awaiting_review" stands for what the review page can act on,
\* gate-rejected rows included, "triaged_pending" for what only Today shows.
\* outcome, final_outcome: "app" stands for the outcomes the application records
\* of itself (kept, trashed, labelled), "pending" for one to be observed in
\* Zotero after the outcome window, "seen" for one that was.
\* detected: outcome_detected_at is set.
Row == [decision: {"awaiting_review", "triaged_pending", "user_approved",
                   "user_rejected", "selected"},
        planned: Keys \cup {None}, key: Keys \cup {None},
        outcome: {"none", "app", "pending", "seen"}, detected: BOOLEAN]

\* One item: the row it was created for and its label tag.
Item == [by: Rows, label: Positive \cup {None}]

ASSUME NoneAssumption == None \notin Item \cup Verdict

Request == [kind: {"idle", "over", "add", "trash", "verdict", "daily", "apply"},
            pc: {"start", "read", "label", "effects", "cancel", "decide", "outcome",
                 "classify", "next", "reserve", "intent", "write", "commit", "park"},
            row: Rows \cup {None}, want: Priorities \cup {None},
            label: Positive \cup {None}, key: Keys \cup {None},
            todo: SUBSET Rows, cand: SUBSET (Rows \X (Positive \cup {None})),
            writer: BOOLEAN]

Idle == [kind |-> "idle", pc |-> "start", row |-> None, want |-> None, label |-> None,
         key |-> None, todo |-> {}, cand |-> {}, writer |-> TRUE]

Over == [Idle EXCEPT !.kind = "over"]

TypeOK ==
    /\ row \in [Rows -> Row]
    /\ verdict \in Verdict \cup {None}
    /\ refused \in SUBSET Rows
    /\ item \in [Keys -> Item \cup {None}]
    /\ req \in [Requests -> Request]
    /\ lock \in Requests \cup {None}
    /\ failures \in 0..MaxFailures

Init ==
    /\ row \in [Rows -> [decision: {"awaiting_review", "triaged_pending"},
                         planned: {None}, key: {None}, outcome: {"none"},
                         detected: {FALSE}]]
    /\ verdict = None
    /\ refused = {}
    /\ item = [k \in Keys |-> None]
    /\ req = [q \in Requests |-> Idle]
    /\ lock = None
    /\ failures = 0

-----------------------------------------------------------------------------
(* Helpers                                                                 *)

\* A slip: BEGIN without IMMEDIATE, nobody waits for the lock.
NeverWaits == TRUE

\* A write to the application's database waits while another request holds
\* the lock; reads do not wait.
Unlocked == lock = None

\* The keys the paper is already materialized under.
ItemKeys == {row[r].key : r \in Rows} \ {None}

\* A slip: a new label does not stop effects of the old one.
SupersededByRejection(r, label) ==
    /\ row[r].key = None
    /\ \/ Rejected
       \/ row[r].decision = "user_rejected" /\ ~(UserVerdict /\ ~Rejected)

\* A slip: only the row's own decision counts, not the paper's verdict.
SupersededByDecision(r, label) ==
    row[r].key = None /\ row[r].decision = "user_rejected" /\ ~UserVerdict

\* current_materialization_intent: a newer verdict or rejection cancels r's Add.
Superseded(r, label) ==
    /\ row[r].key = None
    /\ \/ Rejected
       \/ verdict # None /\ label # None /\ verdict.priority # label
       \/ row[r].decision = "user_rejected" /\ ~(UserVerdict /\ ~Rejected)

\* link_materialized_sibling: nothing happens to a row that has a key.
Linked(r, k) ==
    IF row[r].key # None THEN row
    ELSE [row EXCEPT ![r].key = k, ![r].decision = "selected",
                     ![r].outcome = "none", ![r].detected = FALSE]

\* cancel_pending_materialization: every unmaterialized sibling.
Cancelled ==
    [r \in Rows |-> IF row[r].decision = "user_approved" /\ row[r].key = None
                    THEN [row[r] EXCEPT !.decision = "user_rejected",
                                        !.outcome = "none", !.detected = FALSE]
                    ELSE row[r]]

At(q, kinds, pc) == req[q].kind \in kinds /\ req[q].pc = pc

\* record_app_outcome, and what mark_pending_if_current writes of the outcome.
\* The time of detection is that of the application's own outcome.
WithAppOutcome(x) == [x EXCEPT !.outcome = "app", !.detected = TRUE]

Goto(q, pc) == req' = [req EXCEPT ![q].pc = pc]

Finish(q) == req' = [req EXCEPT ![q] = Over]

\* "apply all" goes on with its next row, the others are done.
Continue(q) == IF req[q].cand = {} THEN Finish(q) ELSE Goto(q, "next")

\* Add and a verdict park the row when its materialization raises; elsewhere
\* the exception ends the request.
Materializing == {"reserve", "intent", "write", "commit"}

Raise(q) == IF req[q].kind \in {"add", "verdict"} /\ req[q].pc \in Materializing
            THEN Goto(q, "park") ELSE Finish(q)

-----------------------------------------------------------------------------
(* Requests begin                                                          *)

Free(q) ==
    /\ req[q] = Idle
    /\ Cardinality({p \in Requests : req[p] \notin {Idle, Over}}) < MaxAtOnce

Begin(q, kind, pc, r, want) ==
    /\ Free(q)
    /\ req' = [req EXCEPT ![q] = [Idle EXCEPT !.kind = kind, !.pc = pc, !.row = r, !.want = want]]
    /\ UNCHANGED <<row, verdict, refused, item, lock, failures>>

\* add_to_library skips a paper that has an item.
StartAdd(q, r) == ItemKeys = {} /\ Begin(q, "add", "read", r, None)

StartTrash(q, r) == Begin(q, "trash", "label", r, None)

\* A verdict given on the review page, and one replayed by a synchronisation:
\* its effects are delivered again.
StartVerdict(q, p) == Begin(q, "verdict", "label", None, p)
ReplayVerdict(q, p) == Begin(q, "verdict", "effects", None, p)

StartDaily(q, r, p) == Begin(q, "daily", "label", r, p)

StartApply(q) ==
    LET approved == {r \in Rows : row[r].decision = "user_approved"}
    IN  /\ Free(q)
        /\ approved # {}
        /\ req' = [req EXCEPT ![q] = [Idle EXCEPT !.kind = "apply", !.pc = "classify",
                                                  !.todo = approved]]
        /\ UNCHANGED <<row, verdict, refused, item, lock, failures>>

-----------------------------------------------------------------------------
(* Labels                                                                  *)

\* The materialization begins, or the writer is missing and the row is parked.
Opened(q) == \E pc \in {"reserve", "park"} : Goto(q, pc)

\* set_label_verdict reads the verdict in one connection ...
AddReads(q) ==
    /\ At(q, {"add"}, "read")
    /\ IF UserVerdict THEN Opened(q) ELSE Goto(q, "label")
    /\ UNCHANGED <<row, verdict, refused, item, lock, failures>>

\* ... and writes the machine's in another.
AddLabels(q) ==
    /\ At(q, {"add"}, "label")
    /\ Unlocked
    /\ verdict' = [priority |-> "should_read", from |-> "today_add"]
    /\ refused' = {}
    /\ Opened(q)
    /\ UNCHANGED <<row, item, lock, failures>>

TrashLabels(q) ==
    /\ At(q, {"trash"}, "label")
    /\ Unlocked
    /\ verdict' = [priority |-> "dont_read", from |-> "today_trash"]
    /\ refused' = {req[q].row}
    /\ Goto(q, "decide")
    /\ UNCHANGED <<row, item, lock, failures>>

VerdictLabels(q) ==
    /\ At(q, {"verdict"}, "label")
    /\ Unlocked
    /\ verdict' = [priority |-> req[q].want, from |-> "user"]
    /\ refused' = IF req[q].want = "dont_read" THEN Rows ELSE {}
    /\ Goto(q, "effects")
    /\ UNCHANGED <<row, item, lock, failures>>

DailyLabels(q) ==
    /\ At(q, {"daily"}, "label")
    /\ Unlocked
    /\ verdict' = [priority |-> req[q].want, from |-> "user"]
    /\ refused' = IF req[q].want = "dont_read" THEN Rows ELSE {}
    /\ Goto(q, IF req[q].want = "dont_read" THEN "cancel" ELSE "outcome")
    /\ UNCHANGED <<row, item, lock, failures>>

\* remove_verdict
Retract ==
    /\ Unlocked
    /\ verdict # None
    /\ verdict' = None
    /\ refused' = {}
    /\ UNCHANGED <<row, item, req, lock, failures>>

\* _commit_review: the decision and the label in one transaction.
CommitReview(r, p) ==
    /\ Unlocked
    /\ row[r].decision = "awaiting_review"
    /\ verdict' = [priority |-> p, from |-> "review"]
    /\ refused' = IF p = "dont_read" THEN {r} ELSE {}
    /\ row' = [row EXCEPT ![r].decision =
                 IF p = "dont_read" THEN "user_rejected" ELSE "user_approved"]
    /\ UNCHANGED <<item, req, lock, failures>>

-----------------------------------------------------------------------------
(* What follows a label                                                    *)

\* apply_verdict_effects: obsolete effects are dropped, a negative verdict
\* cancels, a positive one adds the newest row unless the paper has an item.
Effects(q) ==
    /\ At(q, {"verdict"}, "effects")
    /\ IF verdict # [priority |-> req[q].want, from |-> "user"] THEN Finish(q)
       ELSE IF req[q].want = "dont_read" THEN Goto(q, "cancel")
       ELSE IF ItemKeys # {} THEN Finish(q)
       ELSE \E r \in Rows, pc \in {"reserve", "park"} :
              req' = [req EXCEPT ![q].row = r, ![q].label = req[q].want, ![q].pc = pc]
    /\ UNCHANGED <<row, verdict, refused, item, lock, failures>>

CancelPending(q) ==
    /\ At(q, {"verdict", "daily"}, "cancel")
    /\ Unlocked
    /\ row' = Cancelled
    /\ IF req[q].kind = "daily" THEN Goto(q, "outcome") ELSE Finish(q)
    /\ UNCHANGED <<verdict, refused, item, lock, failures>>

TrashDecides(q) ==
    /\ At(q, {"trash"}, "decide")
    /\ Unlocked
    /\ row' = [row EXCEPT ![req[q].row].decision = "user_rejected"]
    /\ Goto(q, "outcome")
    /\ UNCHANGED <<verdict, refused, item, lock, failures>>

\* A slip: the row's key is not looked at.
RecordOutcomeAnyway(q) ==
    /\ At(q, {"trash", "daily"}, "outcome")
    /\ Unlocked
    /\ row' = [row EXCEPT ![req[q].row] = WithAppOutcome(@)]
    /\ Finish(q)
    /\ UNCHANGED <<verdict, refused, item, lock, failures>>

\* record_app_outcome: only of a row that has no item.
RecordOutcome(q) ==
    /\ At(q, {"trash", "daily"}, "outcome")
    /\ Unlocked
    /\ row' = IF row[req[q].row].key # None THEN row
              ELSE [row EXCEPT ![req[q].row] = WithAppOutcome(@)]
    /\ Finish(q)
    /\ UNCHANGED <<verdict, refused, item, lock, failures>>

-----------------------------------------------------------------------------
(* apply_all_approved                                                      *)

\* _approved_candidates: a rejected paper's rows are cancelled, the others
\* are candidates with the label their user gave them.
Classify(q, r) ==
    /\ At(q, {"apply"}, "classify")
    /\ r \in req[q].todo
    /\ IF Rejected
       THEN /\ Unlocked
            /\ row' = Cancelled
            /\ req' = [req EXCEPT ![q].todo = @ \ {r}]
       ELSE /\ req' = [req EXCEPT ![q].todo = @ \ {r},
                                  ![q].cand = @ \cup
                                     {<<r, IF UserVerdict THEN verdict.priority ELSE None>>}]
            /\ UNCHANGED row
    /\ UNCHANGED <<verdict, refused, item, lock, failures>>

OpenWriter(q) ==
    /\ At(q, {"apply"}, "classify")
    /\ req[q].todo = {}
    /\ IF req[q].cand = {} THEN Finish(q)
       ELSE \E writer \in BOOLEAN : req' = [req EXCEPT ![q].writer = writer, ![q].pc = "next"]
    /\ UNCHANGED <<row, verdict, refused, item, lock, failures>>

NextCandidate(q, c) ==
    /\ At(q, {"apply"}, "next")
    /\ c \in req[q].cand
    /\ req' = [req EXCEPT ![q].cand = @ \ {c}, ![q].row = c[1], ![q].label = c[2],
                          ![q].pc = IF req[q].writer THEN "reserve" ELSE "park"]
    /\ UNCHANGED <<row, verdict, refused, item, lock, failures>>

-----------------------------------------------------------------------------
(* materialize_row                                                         *)

Working == {"add", "verdict", "apply"}

\* A slip: every attempt plans a key of its own.
PlannedAfresh(r, k) == k

\* COALESCE(materialized key, planned key, proposed key)
Planned(r, k) ==
    IF row[r].key # None THEN row[r].key
    ELSE IF row[r].planned # None THEN row[r].planned ELSE k

\* A key is drawn at random among all there are: nobody else has it.
UnusedKeys == {k \in Keys : item[k] = None /\ \A r \in Rows : k # row[r].planned}

\* reserve_materialization_key: the key drawn counts when there is no other.
Reserve(q) ==
    /\ At(q, Working, "reserve")
    /\ Unlocked
    /\ LET r == req[q].row
       IN  \E k \in Keys :
             /\ Planned(r, k) = k => k \in UnusedKeys
             /\ row' = [row EXCEPT ![r].planned = Planned(r, k)]
             /\ req' = [req EXCEPT ![q].key = Planned(r, k), ![q].pc = "intent"]
    /\ UNCHANGED <<verdict, refused, item, lock, failures>>

\* BEGIN IMMEDIATE and the check of the current intent: the request is dropped,
\* finds an item, or keeps the lock and goes on.
CheckIntent(q) ==
    /\ At(q, Working, "intent")
    /\ Unlocked
    /\ LET r == req[q].row
       IN  IF Superseded(r, req[q].label)
           THEN Continue(q) /\ UNCHANGED <<row, lock>>
           ELSE IF ItemKeys # {}
           THEN /\ \E k \in ItemKeys : row' = Linked(r, k)
                /\ Continue(q)
                /\ UNCHANGED lock
           ELSE lock' = q /\ Goto(q, "write") /\ UNCHANGED row
    /\ UNCHANGED <<verdict, refused, item, failures>>

\* apply_feed_materialization: an item that exists under the key is left alone.
WriteItem(q) ==
    /\ At(q, Working, "write")
    /\ LET k == req[q].key
       IN  item' = IF item[k] # None THEN item
                   ELSE [item EXCEPT ![k] = [by |-> req[q].row, label |-> req[q].label]]
    /\ Goto(q, "commit")
    /\ UNCHANGED <<row, verdict, refused, lock, failures>>

\* A slip: the error is logged and the row recorded.
WriteFailsSilently(q) ==
    /\ At(q, Working, "write")
    /\ Goto(q, "commit")
    /\ UNCHANGED <<row, verdict, refused, item, lock, failures>>

\* Zotero is running or its database is locked: nothing was written.
WriteFails(q) ==
    /\ At(q, Working, "write")
    /\ Raise(q)
    /\ lock' = None
    /\ UNCHANGED <<row, verdict, refused, item, failures>>

\* record_materialization, update_to_decision and the commit: the outcome is
\* scheduled to be observed; the time of an earlier one is not reset.
CommitItem(q) ==
    /\ At(q, Working, "commit")
    /\ row' = IF row[req[q].row].key # None THEN row
              ELSE [row EXCEPT ![req[q].row].key = req[q].key,
                               ![req[q].row].outcome = "pending",
                               ![req[q].row].decision = "selected"]
    /\ Continue(q)
    /\ lock' = None
    /\ UNCHANGED <<verdict, refused, item, failures>>

\* A slip: the row is parked without a look at the current intent.
ParkAnyway(q) ==
    /\ At(q, Working, "park")
    /\ Unlocked
    /\ row' = [row EXCEPT ![req[q].row] = WithAppOutcome([@ EXCEPT !.decision = "user_approved"])]
    /\ Continue(q)
    /\ UNCHANGED <<verdict, refused, item, lock, failures>>

\* mark_pending_if_current: the row waits for Zotero, unless it was superseded
\* or the paper has an item by now.
Park(q) ==
    /\ At(q, Working, "park")
    /\ Unlocked
    /\ LET r == req[q].row
       IN  IF Superseded(r, None) THEN UNCHANGED row
           ELSE IF ItemKeys # {} THEN \E k \in ItemKeys : row' = Linked(r, k)
           ELSE row' = [row EXCEPT ![r] = WithAppOutcome([@ EXCEPT !.decision = "user_approved"])]
    /\ Continue(q)
    /\ UNCHANGED <<verdict, refused, item, lock, failures>>

-----------------------------------------------------------------------------
(* The outcome of an item                                                  *)

\* due_outcome_checks: the window (over at any time) has been scheduled and no
\* outcome was detected yet.
Due(r) == row[r].key # None /\ row[r].outcome = "pending" /\ ~row[r].detected

\* The daemon looks in Zotero what became of the item and records it once
\* (_resolve_due_outcomes, record_outcome, which checks again what it read).
Observe(r) ==
    /\ Unlocked
    /\ Due(r)
    /\ row' = [row EXCEPT ![r].outcome = "seen", ![r].detected = TRUE]
    /\ UNCHANGED <<verdict, refused, item, req, lock, failures>>

-----------------------------------------------------------------------------
(* Failures                                                                *)

Writing(q) ==
    \/ req[q].pc \in {"decide", "outcome", "cancel", "reserve", "intent", "park"}
    \/ req[q].kind \notin {"idle", "over"} /\ req[q].pc = "label"
    \/ At(q, {"apply"}, "classify") /\ Rejected

\* Another request holds the lock for longer than the busy timeout.
TimesOut(q) ==
    /\ failures < MaxFailures
    /\ ~Unlocked
    /\ Writing(q)
    /\ Raise(q)
    /\ failures' = failures + 1
    /\ UNCHANGED <<row, verdict, refused, item, lock>>

\* The item is in Zotero, and its record is rolled back.
CommitFails(q) ==
    /\ failures < MaxFailures
    /\ At(q, Working, "commit")
    /\ Raise(q)
    /\ lock' = None
    /\ failures' = failures + 1
    /\ UNCHANGED <<row, verdict, refused, item>>

\* The server stops and starts again: open transactions are rolled back.
Stop ==
    /\ failures < MaxFailures
    /\ \E q \in Requests : req[q] \notin {Idle, Over}
    /\ req' = [q \in Requests |-> IF req[q] = Idle THEN Idle ELSE Over]
    /\ lock' = None
    /\ failures' = failures + 1
    /\ UNCHANGED <<row, verdict, refused, item>>

-----------------------------------------------------------------------------
Starts(q) ==
    \/ \E r \in Rows : StartAdd(q, r) \/ StartTrash(q, r)
    \/ \E p \in Priorities : StartVerdict(q, p) \/ ReplayVerdict(q, p)
    \/ \E r \in Rows, p \in Priorities : StartDaily(q, r, p)
    \/ StartApply(q)

Labels(q) == AddReads(q) \/ AddLabels(q) \/ TrashLabels(q) \/ VerdictLabels(q) \/ DailyLabels(q)

Follows(q) ==
    \/ Effects(q) \/ CancelPending(q) \/ TrashDecides(q) \/ RecordOutcome(q)
    \/ \E r \in Rows : Classify(q, r)
    \/ OpenWriter(q)
    \/ \E c \in req[q].cand : NextCandidate(q, c)

Materializes(q) ==
    Reserve(q) \/ CheckIntent(q) \/ WriteItem(q) \/ WriteFails(q) \/ CommitItem(q) \/ Park(q)

Next ==
    \/ \E q \in Requests :
         Starts(q) \/ Labels(q) \/ Follows(q) \/ Materializes(q) \/ TimesOut(q) \/ CommitFails(q)
    \/ Retract
    \/ \E r \in Rows, p \in Priorities : CommitReview(r, p)
    \/ \E r \in Rows : Observe(r)
    \/ Stop

Spec == Init /\ [][Next]_vars

-----------------------------------------------------------------------------
(* Properties                                                              *)

NewItem(k) == item[k] = None /\ item'[k] # None

Quiet == \A q \in Requests : req[q] \in {Idle, Over}

\* No item is created for a paper whose verdict is "dont_read" at that moment,
\* nor for a trashed row that no user's verdict has taken back: the check and
\* the Zotero transaction are separate steps, and only the write lock keeps a
\* rejection from coming in between (materialize_row).
RejectedPapersStayOut ==
    [][\A k \in Keys : NewItem(k) =>
         /\ ~Rejected
         /\ row[item'[k].by].decision = "user_rejected" => UserVerdict]_vars

\* A new item carries no label its user has changed since: effects of an
\* obsolete verdict and an old snapshot of "apply all" are dropped.
LabelsAreCurrent ==
    [][\A k \in Keys : NewItem(k) =>
         verdict = None \/ item'[k].label \in {None, verdict.priority}]_vars

\* A row is written to Zotero under one key, however often its record is lost
\* and the request repeated (reserve_materialization_key).
OneItemPerRow ==
    \A k, l \in Keys :
        item[k] # None /\ item[l] # None /\ item[k].by = item[l].by => k = l

\* Siblings are recorded under one item, whoever races for it; and unless a
\* request broke off, Zotero holds one item of the paper.
SiblingsShareOneItem ==
    /\ \A k, l \in ItemKeys : k = l
    /\ failures = 0 => \A k, l \in Keys : item[k] # None /\ item[l] # None => k = l

\* What the application records as materialized is in Zotero, also after a stop.
RecordedItemsExist == \A k \in ItemKeys : item[k] # None

Outcome(x) == <<x.outcome, x.detected>>

\* The outcome of a row that has its item is changed by its observation alone,
\* and once: a Trash or a priority that was under way when the item was created
\* neither sets it nor keeps a scheduled one from being observed
\* (record_app_outcome, record_outcome).
OutcomesAreObserved ==
    [][\A r \in Rows : row[r].key # None =>
         \/ Outcome(row'[r]) = Outcome(row[r])
         \/ Due(r) /\ row'[r].outcome = "seen"]_vars

\* An outcome that is scheduled can be observed once its window is over
\* (record_materialization, due_outcome_checks).
ScheduledOutcomesAreDue ==
    \A r \in Rows : row[r].outcome = "pending" => Due(r)

\* Once every request has run to its end, no row the newest verdict took back
\* is waiting to be added: no sibling after a "dont_read" label, and not the
\* row itself after a Trash or the rejection on the review page
\* (cancel_pending_feed_add, _set_decision, mark_pending_if_current).  Those two
\* leave the siblings of their row queued until "apply all" cancels them.
RejectionClearsTheQueue ==
    Quiet /\ failures = 0 =>
        \A r \in refused : row[r].decision = "user_approved" => row[r].key # None
=============================================================================
