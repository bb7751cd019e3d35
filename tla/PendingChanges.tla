--------------------------- MODULE PendingChanges ---------------------------
(***************************************************************************)
(* The review queue in front of Zotero (services/zotero/pending.py,        *)
(* storage/_repo_pending.py, integrations/zotero_write.py).                *)
(*                                                                         *)
(* Triage and the other producers queue rows; the user edits, rejects or   *)
(* applies them.  Applying reads the requested rows from the application's *)
(* database, writes Zotero's database in one transaction, and only then    *)
(* records the outcome row by row: three databases' worth of steps with    *)
(* other requests, and a crash, possible between any two.  An item whose   *)
(* rows are all closed leaves the Zotero Inbox.                            *)
(*                                                                         *)
(* A payload stands for the tags or the note a change carries.             *)
(***************************************************************************)
EXTENDS Naturals, FiniteSets

CONSTANTS
    Items,      \* Zotero items
    Payloads,   \* contents of changes
    Notes,      \* the payloads of add_note changes
    Appliers,   \* concurrent apply requests
    MaxRows,    \* bound: rows ever queued
    MaxCrashes  \* bound: crashes of the server and requests broken off

ASSUME NotesType  == Notes \subseteq Payloads
ASSUME PayloadsFinite == IsFiniteSet(Payloads)
ASSUME BoundsType == MaxRows \in Nat /\ MaxCrashes \in Nat

VARIABLES
    rows,       \* pending_changes: row id -> item, payload, status
    last,       \* last row id handed out (AUTOINCREMENT)
    inbox,      \* Zotero: items in the Inbox collection
    applier,    \* per apply request: where it is and what it has read
    delivered,  \* history: payloads written to Zotero for a row
    crashes     \* number of crashes and of requests broken off so far

vars == <<rows, last, inbox, applier, delivered, crashes>>

Ids      == 1..MaxRows
Open     == {"pending", "failed"}
Closed   == {"applied", "rejected"}
Statuses == {"absent"} \cup Open \cup Closed

Row == [item: Items, payload: Payloads, status: Open \cup Closed]
NoRow == [status |-> "absent"]

\* What apply_pending_changes holds in local variables: the status it reads
\* from, the rows as read, the ids written and the ids refused by the writer,
\* the items it found complete and the last row id at that moment.
Applier == [pc: {"idle", "write", "applied", "failed", "check", "inbox"},
            source: Open, batch: SUBSET (Ids \X Items \X Payloads),
            done: SUBSET Ids, refused: SUBSET Ids,
            complete: SUBSET Items, seen: Nat]

Idle == [pc |-> "idle", source |-> "pending", batch |-> {}, done |-> {},
         refused |-> {}, complete |-> {}, seen |-> 0]

TypeOK ==
    /\ rows \in [Ids -> Row \cup {NoRow}]
    /\ last \in 0..MaxRows
    /\ inbox \in SUBSET Items
    /\ applier \in [Appliers -> Applier]
    /\ delivered \in [Ids -> SUBSET Payloads]
    /\ crashes \in Nat

Init ==
    /\ rows = [c \in Ids |-> NoRow]
    /\ last = 0
    /\ inbox = Items
    /\ applier = [w \in Appliers |-> Idle]
    /\ delivered = [c \in Ids |-> {}]
    /\ crashes = 0

WithStatus(s) == {c \in Ids : rows[c].status = s}

\* A slip: a refused row no longer counts.
PendingOf(i) == {c \in Ids : rows[c].status = "pending" /\ rows[c].item = i}

\* The rows that keep an item in the Inbox.
OpenOf(i) == {c \in Ids : rows[c].status \in Open /\ rows[c].item = i}

-----------------------------------------------------------------------------
(* Producers and the user.                                                 *)

\* insert_pending_changes: all the changes planned for an item in one
\* transaction.
QueueChanges(i, P) ==
    /\ P # {}
    /\ last + Cardinality(P) <= MaxRows
    /\ \E order \in [last + 1 .. last + Cardinality(P) -> P] :
        /\ \A p \in P : \E c \in DOMAIN order : order[c] = p
        /\ rows' = [c \in Ids |->
              IF c \in DOMAIN order
              THEN [item |-> i, payload |-> order[c], status |-> "pending"]
              ELSE rows[c]]
    /\ last' = last + Cardinality(P)
    /\ UNCHANGED <<inbox, applier, delivered, crashes>>

\* update_pending_change: only a pending row, and not its change type.
EditChange(c, p) ==
    /\ rows[c].status = "pending"
    /\ p \in Notes <=> rows[c].payload \in Notes
    /\ rows' = [rows EXCEPT ![c].payload = p]
    /\ UNCHANGED <<last, inbox, applier, delivered, crashes>>

\* A slip: the expected status is not part of the update.
MarkedAnyway(S, source, status) ==
    [c \in Ids |-> IF c \in S THEN [rows[c] EXCEPT !.status = status] ELSE rows[c]]

\* set_pending_changes_status changes the listed rows that still have the
\* status the caller expects.
Marked(S, source, status) ==
    [c \in Ids |-> IF c \in S /\ rows[c].status = source
                   THEN [rows[c] EXCEPT !.status = status] ELSE rows[c]]

RejectChanges(S) ==
    /\ S # {}
    /\ rows' = Marked(S, "pending", "rejected")
    /\ UNCHANGED <<last, inbox, applier, delivered, crashes>>

-----------------------------------------------------------------------------
(* apply_pending_changes, one request per applier.                         *)

\* The requested rows that have the source status: FAILED ones when retrying.
StartApply(w, S, source) ==
    LET found == S \cap WithStatus(source)
    IN  /\ applier[w].pc = "idle"
        /\ found # {}
        /\ applier' = [applier EXCEPT ![w] =
              [Idle EXCEPT !.pc = "write", !.source = source,
                           !.batch = {<<c, rows[c].item, rows[c].payload>> : c \in found}]]
        /\ UNCHANGED <<rows, last, inbox, delivered, crashes>>

\* A slip: every row of the request counts as written.
AllOf(batch, ok) == {r[1] : r \in batch}

\* applied_ids: the rows whose savepoint was released.
AppliedIds(batch, ok) == {r[1] : r \in ok}

\* The writer's transaction: each row on its own savepoint, refused rows
\* (unknown item or collection, invalid payload) leave no trace.
WriteZotero(w) ==
    LET a == applier[w]
    IN  /\ a.pc = "write"
        /\ \E ok \in SUBSET a.batch :
            LET done == AppliedIds(a.batch, ok)
            IN  /\ delivered' = [c \in Ids |->
                      delivered[c] \cup {r[3] : r \in {x \in ok : x[1] = c}}]
                /\ applier' = [applier EXCEPT ![w].pc = "applied", ![w].done = done,
                      ![w].refused = {r[1] : r \in a.batch} \ done]
        /\ UNCHANGED <<rows, last, inbox, crashes>>

\* An unexpected error or a lock that outlives the retries: rolled back, and
\* the request ends with an error.
WriteFails(w) ==
    /\ applier[w].pc = "write"
    /\ applier' = [applier EXCEPT ![w] = Idle]
    /\ UNCHANGED <<rows, last, inbox, delivered, crashes>>

\* A slip: a refused row ends the request before anything is marked.
MarkWhenAllApplied(w) ==
    /\ applier[w].pc = "applied"
    /\ rows' = IF applier[w].refused = {} THEN Marked(applier[w].done, applier[w].source, "applied")
               ELSE rows
    /\ applier' = [applier EXCEPT ![w].pc = "failed"]
    /\ UNCHANGED <<last, inbox, delivered, crashes>>

MarkApplied(w) ==
    /\ applier[w].pc = "applied"
    /\ rows' = Marked(applier[w].done, applier[w].source, "applied")
    /\ applier' = [applier EXCEPT ![w].pc = "failed"]
    /\ UNCHANGED <<last, inbox, delivered, crashes>>

\* One transaction per refused row; the request ends here when nothing was
\* applied.
MarkFailed(w) ==
    /\ applier[w].pc = "failed"
    /\ \E c \in applier[w].refused :
        /\ rows' = Marked({c}, applier[w].source, "failed")
        /\ applier' = [applier EXCEPT ![w].refused = @ \ {c}]
    /\ UNCHANGED <<last, inbox, delivered, crashes>>

OutcomesRecorded(w) ==
    /\ applier[w].pc = "failed"
    /\ applier[w].refused = {}
    /\ applier' = [applier EXCEPT ![w] = IF @.done = {} THEN Idle ELSE [@ EXCEPT !.pc = "check"]]
    /\ UNCHANGED <<rows, last, inbox, delivered, crashes>>

\* refreshed_item_keys
ItemsDone(w) == {r[2] : r \in {x \in applier[w].batch : x[1] \in applier[w].done}}

\* item_keys_without_open_changes
FindComplete(w) ==
    LET complete == {i \in ItemsDone(w) : OpenOf(i) = {}}
    IN  /\ applier[w].pc = "check"
        /\ applier' = [applier EXCEPT ![w] =
              IF complete = {} THEN Idle
              ELSE [@ EXCEPT !.pc = "inbox", !.complete = complete, !.seen = last]]
        /\ UNCHANGED <<rows, last, inbox, delivered, crashes>>

RemoveFromInbox(w) ==
    /\ applier[w].pc = "inbox"
    /\ inbox' = inbox \ applier[w].complete
    /\ applier' = [applier EXCEPT ![w] = Idle]
    /\ UNCHANGED <<rows, last, delivered, crashes>>

\* The failure is reported to the user and not retried.
RemovalFails(w) ==
    /\ applier[w].pc = "inbox"
    /\ applier' = [applier EXCEPT ![w] = Idle]
    /\ UNCHANGED <<rows, last, inbox, delivered, crashes>>

\* The application's database refuses an update or a read: the request ends
\* with the error, wherever it was after Zotero's commit.
BreakOff(w) ==
    /\ crashes < MaxCrashes
    /\ applier[w].pc \in {"applied", "failed", "check"}
    /\ applier' = [applier EXCEPT ![w] = Idle]
    /\ crashes' = crashes + 1
    /\ UNCHANGED <<rows, last, inbox, delivered>>

\* The server stops; both databases keep what was committed.
Crash ==
    /\ crashes < MaxCrashes
    /\ \E w \in Appliers : applier[w].pc # "idle"
    /\ applier' = [w \in Appliers |-> Idle]
    /\ crashes' = crashes + 1
    /\ UNCHANGED <<rows, last, inbox, delivered>>

Apply(w) ==
    \/ \E S \in SUBSET Ids, source \in Open : StartApply(w, S, source)
    \/ WriteZotero(w) \/ WriteFails(w)
    \/ MarkApplied(w) \/ MarkFailed(w) \/ OutcomesRecorded(w)
    \/ FindComplete(w) \/ RemoveFromInbox(w) \/ RemovalFails(w)
    \/ BreakOff(w)

Review ==
    \/ \E c \in Ids, p \in Payloads : EditChange(c, p)
    \/ \E S \in SUBSET WithStatus("pending") : RejectChanges(S)

Produce == \E i \in Items, P \in SUBSET Payloads : QueueChanges(i, P)

Next == Produce \/ Review \/ (\E w \in Appliers : Apply(w)) \/ Crash

Spec == Init /\ [][Next]_vars

-----------------------------------------------------------------------------
(* Properties.                                                             *)

\* An applied or rejected row never changes again and a failed row can only
\* be applied, whatever apply, retry, edit and reject requests overlap
\* (expected_status in set_pending_changes_status).
FinalStatusesStick ==
    [][\A c \in Ids :
        /\ rows[c].status \in Closed => rows'[c] = rows[c]
        /\ rows[c].status = "failed" => rows'[c].status \in {"failed", "applied"}]_vars

\* A row is marked applied only after Zotero was written on its behalf, also
\* when another row of the request was refused or the server crashed between
\* Zotero's commit and the bookkeeping of an earlier request.
AppliedRowsWereDelivered ==
    \A c \in Ids : rows[c].status = "applied" => delivered[c] # {}

\* What was written to Zotero does not stay in the queue to be applied again,
\* with other rows of the request refused, edits and a second request in
\* between: the row is pending only until the request that wrote it marks it.
\* A crash or an error between the write and the mark does leave it behind.
DeliveriesAreRecorded ==
    crashes = 0 =>
        \A c \in Ids : delivered[c] # {} /\ rows[c].status = "pending" =>
            \E w \in Appliers : applier[w].pc = "applied" /\ c \in applier[w].done

\* A request removes an item from the Inbox only if every row the item had
\* when the request looked is closed.  A row queued later is not seen.
InboxCheckedAgainstQueue ==
    \A w \in Appliers : applier[w].pc = "inbox" =>
        \A c \in Ids :
            (rows[c].status \in Open /\ rows[c].item \in applier[w].complete) => c > applier[w].seen
=============================================================================
