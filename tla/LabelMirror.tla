----------------------------- MODULE LabelMirror -----------------------------
(***************************************************************************)
(* Verdicts and the label tag of their paper in Zotero: the requests that  *)
(* set and remove a verdict (api/routes/golden.py, services/golden/        *)
(* label_verdicts.py, verdict_effects.py), the mirror they share           *)
(* (storage/label_mirrors.py) and the reconciliation that takes up tags    *)
(* edited in Zotero (services/golden/user_labels.py).                      *)
(*                                                                         *)
(* One paper, of which two verdict rows may exist: under its library key   *)
(* and under the key of the feed item it was added from.  A request        *)
(* commits its verdict and delivers the newest one afterwards, under       *)
(* SQLite's writer lock; a reconciliation reads database and Zotero at     *)
(* several moments and writes only if no verdict was committed since.      *)
(***************************************************************************)
EXTENDS Naturals, FiniteSets

CONSTANTS
    Priorities,   \* reading priorities
    NoLabel,      \* no verdict, no label:* tag
    Lib, Feed,    \* the paper's library key and its feed key
    Requests,     \* submit_verdict, remove_verdict and pushed mutations
    Passes,       \* runs of reconcile_label_verdicts
    Nobody,       \* the writer lock is free
    MaxRevision,  \* bound: verdicts committed
    MaxEdits,     \* bound: edits in Zotero
    MaxRestarts   \* bound: restarts of the server

Aliases == {Lib, Feed}
Labels  == Priorities \cup {NoLabel}
Threads == Requests \cup Passes

ASSUME LabelsType  == NoLabel \notin Priorities
ASSUME AliasesType == Lib # Feed
ASSUME ThreadsType == Requests \cap Passes = {} /\ Nobody \notin Threads
ASSUME BoundsType  == MaxRevision \in Nat /\ MaxEdits \in Nat /\ MaxRestarts \in Nat

VARIABLES
    row,       \* per key: row of label_verdicts and newest row of sync_changes
    revision,  \* last revision of sync_changes
    mirrored,  \* label_mirror_receipts
    lock,      \* holder of SQLite's writer lock over several steps
    tag,       \* the label:* tag in Zotero
    hand,      \* the tag was last edited in Zotero, after all verdicts
    trashed,   \* the item is in Zotero's trash
    request,   \* per request: what it asks for and where it is
    pass,      \* per reconciliation: where it is and what it has read
    edits, restarts  \* counters of the bounds

vars == <<row, revision, mirrored, lock, tag, hand, trashed, request, pass, edits, restarts>>

\* label is NoLabel when the row is deleted, fromZotero says that
\* original_derived_priority is ZOTERO_LABEL_ORIGIN; revision 0: no change yet.
Row == [label: Labels, fromZotero: BOOLEAN, revision: 0..MaxRevision]

NoRow == [label |-> NoLabel, fromZotero |-> FALSE, revision |-> 0]

Change == [key: Aliases, label: Labels, revision: 0..MaxRevision]

\* _current_change: the newest change under any of the paper's keys.
Newest ==
    LET key == IF row[Feed].revision > row[Lib].revision THEN Feed ELSE Lib
    IN  [key |-> key, label |-> row[key].label, revision |-> row[key].revision]

Retracted(change) == change.revision > 0 /\ change.label = NoLabel

Request == [pc: {"new", "effects", "mirror", "written", "over"},
            key: Aliases, label: Labels, redeliver: BOOLEAN]

\* seen: newest change of the states in use.  sample: the export saw a label.
\* done: its retraction had its receipt.  live, by: the tag read last and
\* whether it came from a hand; absent: the item was in the trash.
Pass == [pc: {"idle", "states", "live", "retry", "retrywritten", "pinned", "set",
              "states2", "verdicts", "live2", "retract"},
         seen: Change, sample: BOOLEAN, done: BOOLEAN,
         live: Labels, by: BOOLEAN, absent: BOOLEAN]

Idle == [pc |-> "idle", seen |-> [key |-> Lib, label |-> NoLabel, revision |-> 0],
         sample |-> FALSE, done |-> FALSE, live |-> NoLabel, by |-> FALSE,
         absent |-> FALSE]

TypeOK ==
    /\ row \in [Aliases -> Row]
    /\ revision \in 0..MaxRevision
    /\ mirrored \subseteq 1..MaxRevision
    /\ lock \in Threads \cup {Nobody}
    /\ tag \in Labels
    /\ hand \in BOOLEAN
    /\ trashed \in BOOLEAN
    /\ request \in [Requests -> Request]
    /\ pass \in [Passes -> Pass]
    /\ edits \in 0..MaxEdits
    /\ restarts \in 0..MaxRestarts

Init ==
    /\ row = [a \in Aliases |-> NoRow]
    /\ revision = 0
    /\ mirrored = {}
    /\ lock = Nobody
    /\ tag = NoLabel
    /\ hand = FALSE
    /\ trashed = FALSE
    /\ request \in [Requests -> [pc: {"new"}, key: Aliases, label: Labels, redeliver: {FALSE}]]
    /\ pass = [p \in Passes |-> Idle]
    /\ edits = 0
    /\ restarts = 0

-----------------------------------------------------------------------------
(* Zotero.                                                                 *)

ZoteroOnly == UNCHANGED <<row, revision, mirrored, lock, request, pass, restarts>>

\* The user sets, changes or removes the tag in Zotero.
EditTag(v) ==
    /\ edits < MaxEdits
    /\ edits' = edits + 1
    /\ v # tag
    /\ tag' = v
    /\ hand' = TRUE
    /\ UNCHANGED trashed
    /\ ZoteroOnly

\* The user trashes or restores the item.
Trash ==
    /\ edits < MaxEdits
    /\ edits' = edits + 1
    /\ trashed' = ~trashed
    /\ UNCHANGED <<tag, hand>>
    /\ ZoteroOnly

-----------------------------------------------------------------------------
(* label_verdicts and its triggers.                                        *)

\* A commit by any thread waits for the writer lock.
LockFree == lock = Nobody

\* upsert_label_verdict; the trigger sees changes of the label only, not of
\* where it came from.
Upsert(a, v, fromZotero) ==
    /\ revision < MaxRevision
    /\ IF row[a].label = v
       THEN /\ row' = [row EXCEPT ![a].fromZotero = fromZotero]
            /\ UNCHANGED revision
       ELSE /\ row' = [row EXCEPT ![a] = [label |-> v, fromZotero |-> fromZotero,
                                          revision |-> revision + 1]]
            /\ revision' = revision + 1

\* delete_label_verdict
Delete(a) ==
    IF row[a].label = NoLabel
    THEN UNCHANGED <<row, revision>>
    ELSE /\ revision < MaxRevision
         /\ row' = [row EXCEPT ![a] = [NoRow EXCEPT !.revision = revision + 1]]
         /\ revision' = revision + 1

-----------------------------------------------------------------------------
(* The mirror: mirror_current_verdict in the transaction of current_label. *)

\* The tag is delivered but for a retraction that has its receipt.
Pending(redeliver) ==
    Newest.label # NoLabel \/ Newest.revision \notin mirrored \/ redeliver

\* zotero_set_label_tag; it raises when the item is gone.
WriteTag(thread, redeliver) ==
    /\ LockFree
    /\ Newest.revision > 0
    /\ ~trashed
    /\ lock' = thread
    /\ IF Pending(redeliver)
       THEN tag' = Newest.label /\ hand' = FALSE
       ELSE UNCHANGED <<tag, hand>>

\* The receipt of a retraction.
Acknowledged == IF Newest.label = NoLabel THEN mirrored \cup {Newest.revision} ELSE mirrored

Acknowledge ==
    /\ mirrored' = Acknowledged
    /\ lock' = Nobody

-----------------------------------------------------------------------------
(* Requests.                                                               *)

RequestStep(q, pc) ==
    /\ request' = [request EXCEPT ![q].pc = pc]
    /\ UNCHANGED <<trashed, pass, edits, restarts>>

\* The verdict is committed; a verdict set in the app does not come from
\* Zotero, and a change overrides whatever tag is there.
Submit(q) ==
    LET r == request[q]
    IN  /\ r.pc = "new"
        /\ LockFree
        /\ IF r.label = NoLabel
           THEN Delete(r.key) /\ RequestStep(q, "mirror")
           ELSE Upsert(r.key, r.label, FALSE) /\ RequestStep(q, "effects")
        /\ hand' = (hand /\ revision' = revision)
        /\ UNCHANGED <<mirrored, lock, tag>>

\* apply_verdict_effects: what was superseded meanwhile is delivered again.
Effects(q) ==
    LET r == request[q]
    IN  /\ r.pc = "effects"
        /\ request' = [request EXCEPT ![q].pc = "mirror",
                                      ![q].redeliver = row[r.key].label # r.label]
        /\ UNCHANGED <<row, revision, mirrored, lock, tag, hand, trashed, pass, edits, restarts>>

Mirror(q) ==
    /\ request[q].pc = "mirror"
    /\ WriteTag(q, request[q].redeliver)
    /\ RequestStep(q, "written")
    /\ UNCHANGED <<row, revision, mirrored>>

\* Nothing to deliver, or Zotero is open, locked or not configured: the
\* verdict stays as it is.
MirrorFails(q) ==
    /\ request[q].pc = "mirror"
    /\ LockFree
    /\ RequestStep(q, "over")
    /\ UNCHANGED <<row, revision, mirrored, lock, tag, hand>>

MirrorDone(q) ==
    /\ request[q].pc = "written"
    /\ Acknowledge
    /\ RequestStep(q, "over")
    /\ UNCHANGED <<row, revision, tag, hand>>

-----------------------------------------------------------------------------
(* Reconciliation.                                                         *)

PassStep(p, next) ==
    /\ pass' = [pass EXCEPT ![p] = next]
    /\ UNCHANGED <<trashed, request, edits, restarts>>

Reads == UNCHANGED <<row, revision, mirrored, lock, tag, hand>>

\* The export has read the library.
StartPass(p) ==
    /\ pass[p].pc = "idle"
    /\ PassStep(p, [Idle EXCEPT !.pc = "states", !.sample = tag # NoLabel /\ ~trashed])
    /\ Reads

\* label_mirrors.states
States(p) ==
    /\ pass[p].pc = "states"
    /\ PassStep(p, [pass[p] EXCEPT !.pc = "live", !.seen = Newest,
                                   !.done = Newest.revision \in mirrored])
    /\ Reads

\* _live_labels, and for a retraction without receipt _retry_retractions.
ReadTag(p) ==
    LET retry == Retracted(pass[p].seen) /\ ~pass[p].done
    IN  /\ pass[p].pc = "live"
        /\ PassStep(p, [pass[p] EXCEPT !.pc = IF retry THEN "retry" ELSE "set",
                                       !.live = tag, !.by = hand, !.absent = trashed])
        /\ Reads

\* The newest verdict is mirrored, which need not be the retraction any more.
Retry(p) ==
    /\ pass[p].pc = "retry"
    /\ ~pass[p].absent
    /\ WriteTag(p, FALSE)
    /\ PassStep(p, [pass[p] EXCEPT !.pc = "retrywritten"])
    /\ UNCHANGED <<row, revision, mirrored>>

RetryDone(p) ==
    /\ pass[p].pc = "retrywritten"
    /\ Acknowledge
    /\ PassStep(p, [pass[p] EXCEPT !.pc = "pinned"])
    /\ UNCHANGED <<row, revision, tag, hand>>

\* The item is absent, or Zotero is open or not configured; when Zotero fails
\* in between the pass is over.
RetryFails(p) ==
    /\ pass[p].pc = "retry"
    /\ \/ PassStep(p, [pass[p] EXCEPT !.pc = "pinned"])
       \/ ~pass[p].absent /\ PassStep(p, Idle)
    /\ Reads

\* A slip: the receipt goes to whatever is newest.
Unpinned(seen) == TRUE

Pinned(seen) == Newest.revision = seen.revision

\* A tag that was gone when it was read needs no removal.
Confirm(p) ==
    /\ pass[p].pc = "pinned"
    /\ LockFree
    /\ mirrored' = IF ~pass[p].absent /\ pass[p].live = NoLabel /\ Pinned(pass[p].seen)
                   THEN Acknowledged ELSE mirrored
    /\ PassStep(p, [pass[p] EXCEPT !.pc = "states2"])
    /\ UNCHANGED <<row, revision, lock, tag, hand>>

\* A slip: the tag counts whatever the user decided since.
AnyTime(seen) == TRUE

\* expected_revision
Unchanged(seen) == Newest.revision = seen.revision

\* A label found in Zotero becomes the verdict of the library key.
SetFromTag(p) ==
    LET s == pass[p]
    IN  /\ s.pc = "set"
        /\ LockFree
        /\ IF s.sample /\ ~s.absent /\ s.live # NoLabel /\ row[Lib].label # s.live
              /\ Unchanged(s.seen)
           THEN Upsert(Lib, s.live, TRUE)
           ELSE UNCHANGED <<row, revision>>
        /\ PassStep(p, [s EXCEPT !.pc = "states2"])
        /\ UNCHANGED <<mirrored, lock, tag, hand>>

\* _retract_removed_labels: states, verdicts and tags are read again.
States2(p) ==
    /\ pass[p].pc = "states2"
    /\ PassStep(p, [pass[p] EXCEPT !.pc = "verdicts", !.seen = Newest])
    /\ Reads

Verdicts(p) ==
    /\ pass[p].pc = "verdicts"
    /\ PassStep(p, IF row[Lib].label # NoLabel /\ row[Lib].fromZotero
                   THEN [pass[p] EXCEPT !.pc = "live2"] ELSE Idle)
    /\ Reads

ReadTag2(p) ==
    /\ pass[p].pc = "live2"
    /\ PassStep(p, [pass[p] EXCEPT !.pc = "retract", !.live = tag, !.by = hand,
                                   !.absent = trashed])
    /\ Reads

\* A newer verdict of the feed key owns the paper; a missing item proves
\* nothing.
RetractRemoved(p) ==
    LET s == pass[p]
    IN  /\ s.pc = "retract"
        /\ LockFree
        /\ IF /\ s.seen.label # NoLabel => s.seen.key = Lib
              /\ ~s.absent /\ s.live = NoLabel
              /\ Unchanged(s.seen)
           THEN Delete(Lib)
           ELSE UNCHANGED <<row, revision>>
        /\ PassStep(p, Idle)
        /\ UNCHANGED <<mirrored, lock, tag, hand>>

-----------------------------------------------------------------------------
\* The server is restarted: open transactions are rolled back, tags stay.
Restart ==
    /\ restarts < MaxRestarts
    /\ restarts' = restarts + 1
    /\ lock' = Nobody
    /\ request' = [q \in Requests |-> IF request[q].pc = "new" THEN request[q]
                                      ELSE [request[q] EXCEPT !.pc = "over"]]
    /\ pass' = [p \in Passes |-> Idle]
    /\ UNCHANGED <<row, revision, mirrored, tag, hand, trashed, edits>>

Next ==
    \/ \E v \in Labels : EditTag(v)
    \/ Trash \/ Restart
    \/ \E q \in Requests :
          Submit(q) \/ Effects(q) \/ Mirror(q) \/ MirrorFails(q) \/ MirrorDone(q)
    \/ \E p \in Passes :
          \/ StartPass(p) \/ States(p) \/ ReadTag(p) \/ Retry(p) \/ RetryDone(p)
          \/ RetryFails(p) \/ Confirm(p) \/ SetFromTag(p) \/ States2(p)
          \/ Verdicts(p) \/ ReadTag2(p) \/ RetractRemoved(p)

Spec == Init /\ [][Next]_vars

-----------------------------------------------------------------------------
(* Properties.                                                             *)

\* A retraction with a receipt is out of Zotero: whatever fails, dies or runs
\* at the same time, a tag that is there then was put there by hand later
\* (label_mirrors: "acknowledge only completed retractions").
AcknowledgedRetractionsAreGone ==
    (Retracted(Newest) /\ Newest.revision \in mirrored) => (tag = NoLabel \/ hand)

\* A verdict the user took back does not return from its own old tag: a
\* reconciliation sets it again only for a tag edited in Zotero afterwards
\* (_retracted_priorities, expected_revision).
ReturnsByHandOnly ==
    [][\A p \in Passes :
        (Retracted(Newest) /\ Newest'.label # NoLabel /\ pass'[p] # pass[p]) => pass[p].by]_vars

\* services/golden/user_labels.py: a verdict typed in the UI is never deleted
\* by the reconciliation.
TypedVerdictsStay ==
    [][\A p \in Passes :
        (row[Lib].label # NoLabel /\ ~row[Lib].fromZotero /\ pass'[p] # pass[p])
            => row'[Lib].label # NoLabel]_vars
=============================================================================
