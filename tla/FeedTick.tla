------------------------------ MODULE FeedTick ------------------------------
(***************************************************************************)
(* The feed tick (services/triage/feeds/_tick.py and its phases) and the   *)
(* two loops that run it: the daemon (_loop.py) and the backlog drain      *)
(* (services/triage/triage_backlog.py).                                    *)
(*                                                                         *)
(* A tick picks a bounded batch of unread app-RSS items, drops what was    *)
(* already decided, sends the rest through content dedup, library dedup,   *)
(* gate and triage, records every decision in one transaction and then     *)
(* marks the items read.  A process may fail or die between any two of     *)
(* these steps; the tick lock then goes with it.  What an LLM or a gate    *)
(* says of an item is left open.                                           *)
(***************************************************************************)
EXTENDS Naturals, FiniteSets

CONSTANTS
    Items,     \* rows of rss_items; the stable feed key is unique there
    Feed,      \* per item: its feed
    Age,       \* per item: rank of created_at, 0 is the oldest
    Content,   \* per item: its normalised DOI or arXiv id, or NoPaper
    NoPaper,   \* an item with neither id
    Guidless,  \* items whose feed entry has neither guid nor id
    Daemons,   \* processes running run_daemon_loop
    Drains,    \* the backlog drain of the server
    Nobody,    \* the tick lock is free
    BatchSize, \* daemon_batch_size, _BATCH_SIZE
    MaxErrors, \* bound: failing triages and failing library lookups
    MaxDeaths  \* bound: ticks that raise or whose process dies

Loops == Daemons \cup Drains
Feeds == {Feed[i] : i \in Items}

ASSUME LoopsDisjoint == Daemons \cap Drains = {} /\ Nobody \notin Loops
ASSUME ItemsType     == IsFiniteSet(Items) /\ Guidless \subseteq Items
ASSUME AgeType       == /\ Age \in [Items -> Nat]
                        /\ \A i, j \in Items : Feed[i] = Feed[j] /\ Age[i] = Age[j] => i = j
ASSUME LimitsType    == BatchSize \in Nat \ {0} /\ MaxErrors \in Nat /\ MaxDeaths \in Nat

VARIABLES
    arrived, \* items fetched from their feeds so far
    read,    \* items with read_at set
    row,     \* per item: decision of its row in processed_feed_items
    lock,    \* holder of the exclusive transaction on the lock database
    loop,    \* per loop: where it is, and the buckets of its tick
    errors,  \* failed triages and lookups so far
    deaths   \* failed ticks so far

vars == <<arrived, read, row, lock, loop, errors, deaths>>

\* "rejected" stands for rejected_low_score and gate_rejected alike, and
\* "triaged" for triaged_pending.
Verdicts  == {"triaged", "rejected", "rejected_dedup_library",
              "rejected_dedup_processed", "skipped_error"}
Decisions == Verdicts \cup {"user_rejected"}

Undecided == {"none", "skipped_error"}

Nothing == [i \in Items |-> "none"]

\* raw, todo and stale are sets: the order in which the picker put the feeds
\* says which of two items of a batch comes first.
Tick == [pc: {"off", "idle", "pick", "prepare", "processed", "library", "triage",
              "record", "mark", "done"},
         order: [Feeds -> Nat],
         raw: SUBSET Items, todo: SUBSET Items, stale: SUBSET Items,
         verdict: [Items -> Verdicts \cup {"none"}]]

Orders == {o \in [Feeds -> 1..Cardinality(Feeds)] :
              \A f, g \in Feeds : o[f] = o[g] => f = g}

Idle == [pc |-> "idle", order |-> [f \in Feeds |-> 0],
         raw |-> {}, todo |-> {}, stale |-> {}, verdict |-> Nothing]

Off == [Idle EXCEPT !.pc = "off"]

TypeOK ==
    /\ arrived \subseteq Items
    /\ read \subseteq arrived
    /\ row \in [Items -> Decisions \cup {"none"}]
    /\ lock \in Loops \cup {Nobody}
    /\ loop \in [Loops -> Tick]
    /\ errors \in 0..MaxErrors
    /\ deaths \in 0..MaxDeaths

Init ==
    /\ arrived = {}
    /\ read = {}
    /\ row = Nothing
    /\ lock = Nobody
    /\ loop = [l \in Loops |-> Off]
    /\ errors = 0
    /\ deaths = 0

\* The feed brings an item (refresh_feeds at the start of a tick, or the
\* refresh route at any time).
Fetch(i) ==
    /\ i \notin arrived
    /\ arrived' = arrived \cup {i}
    /\ UNCHANGED <<read, row, lock, loop, errors, deaths>>

\* The user throws away a triaged paper from Today.
Reject(i) ==
    /\ row[i] = "triaged"
    /\ row' = [row EXCEPT ![i] = "user_rejected"]
    /\ UNCHANGED <<arrived, read, lock, loop, errors, deaths>>

-----------------------------------------------------------------------------
(* The loops.                                                              *)

\* run_daemon_loop is started, or start_drain claims its slot.
StartLoop(l) ==
    /\ loop[l].pc = "off"
    /\ loop' = [loop EXCEPT ![l] = Idle]
    /\ UNCHANGED <<arrived, read, row, lock, errors, deaths>>

\* A slip: the lock is not looked at.
AnyLock(l) == TRUE

LockFree(l) == lock = Nobody

\* timeout=0: a second tick raises at once, and both loops end with it.
StartTick(l) ==
    /\ loop[l].pc = "idle"
    /\ IF LockFree(l)
       THEN /\ lock' = l
            /\ loop' = [loop EXCEPT ![l].pc = "pick"]
       ELSE /\ loop' = [loop EXCEPT ![l] = Off]
            /\ UNCHANGED lock
    /\ UNCHANGED <<arrived, read, row, errors, deaths>>

\* The daemon stops after a tick with errors; the drain after a fatal one, or
\* when there was nothing left to fetch.
EndTick(l) ==
    LET t      == loop[l]
        failed == \E i \in Items : t.verdict[i] = "skipped_error"
    IN  /\ t.pc = "done"
        /\ lock' = Nobody
        /\ \/ /\ (l \in Daemons /\ failed) \/ (l \in Drains /\ t.raw = {})
              /\ loop' = [loop EXCEPT ![l] = Off]
           \/ /\ l \in Drains /\ failed
              /\ \E end \in {Off, Idle} : loop' = [loop EXCEPT ![l] = end]
           \/ /\ ~failed
              /\ l \in Drains => t.raw # {}
              /\ loop' = [loop EXCEPT ![l] = Idle]
        /\ UNCHANGED <<arrived, read, row, errors, deaths>>

\* A phase raises or the process dies; nothing is undone.
Die(l) ==
    /\ loop[l].pc # "off"
    /\ deaths < MaxDeaths
    /\ deaths' = deaths + 1
    /\ lock' = IF lock = l THEN Nobody ELSE lock
    /\ loop' = [loop EXCEPT ![l] = Off]
    /\ UNCHANGED <<arrived, read, row, errors>>

-----------------------------------------------------------------------------
(* The phases of a tick.                                                   *)

Older(i, j) == Feed[i] = Feed[j] /\ Age[i] < Age[j]

\* Position of an item in its feed's list of unread items, oldest first.
Rank(i, unread) == Cardinality({j \in unread : Older(j, i)})

\* i comes before j when the feeds' lists are dealt round robin.
Before(order, unread, i, j) ==
    \/ Rank(i, unread) < Rank(j, unread)
    \/ Rank(i, unread) = Rank(j, unread) /\ order[Feed[i]] < order[Feed[j]]

Batch(order, unread) ==
    {i \in unread : Cardinality({j \in unread : Before(order, unread, j, i)}) < BatchSize}

\* The feeds are shuffled.
Pick(l) ==
    /\ loop[l].pc = "pick"
    /\ \E order \in Orders :
          loop' = [loop EXCEPT ![l] =
              [@ EXCEPT !.pc = "prepare", !.order = order,
                        !.raw = Batch(order, arrived \ read)]]
    /\ UNCHANGED <<arrived, read, row, lock, errors, deaths>>

Decided(i) == row[i] \notin Undecided

\* The key computed from an item is the key of its row, but for an item
\* without a guid: get_feed_items puts the stored key in the guid's place, and
\* stable_feed_key_from_item then hashes that.
FoundByKey(i) == i \notin Guidless

\* filter_unprocessed and select_stale_unread_to_mark
Seen(i) == FoundByKey(i) /\ Decided(i)

\* A slip: the error rows stay.
NoneCleared(todo) == row

\* clear_error_rows
Cleared(todo) ==
    [i \in Items |->
        IF i \in todo /\ FoundByKey(i) /\ row[i] = "skipped_error" THEN "none" ELSE row[i]]

Prepare(l) ==
    LET t    == loop[l]
        todo == {i \in t.raw : ~Seen(i)}
    IN  /\ t.pc = "prepare"
        /\ row' = Cleared(todo)
        /\ loop' = [loop EXCEPT ![l] =
              [t EXCEPT !.pc = "processed", !.todo = todo, !.stale = t.raw \ todo]]
        /\ UNCHANGED <<arrived, read, lock, errors, deaths>>

\* The verdicts of the tick so far, with v for the items of S.
Give(verdict, S, v) == [i \in Items |-> IF i \in S THEN v ELSE verdict[i]]

\* A slip: of copies in one batch not even the first is kept.
NoneKept(t, items) ==
    {i \in items :
        /\ Content[i] # NoPaper
        /\ \/ \E j \in Items : Decided(j) /\ Content[j] = Content[i]
           \/ \E j \in items \ {i} : Content[j] = Content[i]}

\* _partition_by_content: a decided row has the same paper, or an earlier item
\* of the batch does.
ContentDuplicates(t, items) ==
    {i \in items :
        /\ Content[i] # NoPaper
        /\ \/ \E j \in Items : Decided(j) /\ Content[j] = Content[i]
           \/ \E j \in items : Content[j] = Content[i] /\ Before(t.order, t.raw, j, i)}

DedupProcessed(l) ==
    LET t       == loop[l]
        trashed == {i \in t.todo : row[i] = "user_rejected"}
        copies  == ContentDuplicates(t, t.todo \ trashed)
    IN  /\ t.pc = "processed"
        /\ loop' = [loop EXCEPT ![l] =
              [t EXCEPT !.pc = "library", !.todo = @ \ (trashed \cup copies),
                        !.verdict = Give(@, trashed \cup copies, "rejected_dedup_processed")]]
        /\ UNCHANGED <<arrived, read, row, lock, errors, deaths>>

\* An item whose lookup fails is left out of this tick.
DedupLibrary(l) ==
    LET t          == loop[l]
        identified == {i \in t.todo : Content[i] # NoPaper}
    IN  /\ t.pc = "library"
        /\ \E found \in SUBSET identified : \E failed \in SUBSET (identified \ found) :
              /\ errors + Cardinality(failed) <= MaxErrors
              /\ errors' = errors + Cardinality(failed)
              /\ loop' = [loop EXCEPT ![l] =
                    [t EXCEPT !.pc = "triage", !.todo = @ \ (found \cup failed),
                              !.verdict = Give(@, found, "rejected_dedup_library")]]
        /\ UNCHANGED <<arrived, read, row, lock, deaths>>

\* The survivors' verdicts; the rest keep theirs.
Triaged(t, failed, dropped) ==
    [i \in Items |-> IF i \in failed THEN "skipped_error"
                     ELSE IF i \in dropped THEN "rejected"
                     ELSE IF i \in t.todo THEN "triaged"
                     ELSE t.verdict[i]]

\* Gate, rescues and triage; an exception makes an error of its item only.
Triage(l) ==
    LET t == loop[l]
    IN  /\ t.pc = "triage"
        /\ \E failed \in SUBSET t.todo : \E dropped \in SUBSET (t.todo \ failed) :
              /\ errors + Cardinality(failed) <= MaxErrors
              /\ errors' = errors + Cardinality(failed)
              /\ loop' = [loop EXCEPT ![l] =
                    [t EXCEPT !.pc = "record", !.todo = {},
                              !.verdict = Triaged(t, failed, dropped)]]
        /\ UNCHANGED <<arrived, read, row, lock, deaths>>

\* INSERT OR IGNORE
Inserted(t) ==
    [i \in Items |-> IF row[i] = "none" THEN t.verdict[i] ELSE row[i]]

Record(l) ==
    /\ loop[l].pc = "record"
    /\ row' = Inserted(loop[l])
    /\ loop' = [loop EXCEPT ![l].pc = "mark"]
    /\ UNCHANGED <<arrived, read, lock, errors, deaths>>

\* A slip: items decided by an earlier tick are not marked.
FreshOnly(t) == {i \in Items : t.verdict[i] \notin Undecided}

\* What mark_processed_read marks: errors keep their chance.
Touched(t) == {i \in Items : t.verdict[i] \notin Undecided} \cup t.stale

MarkRead(l) ==
    /\ loop[l].pc = "mark"
    /\ read' = read \cup Touched(loop[l])
    /\ loop' = [loop EXCEPT ![l].pc = "done"]
    /\ UNCHANGED <<arrived, row, lock, errors, deaths>>

-----------------------------------------------------------------------------
TickStep(l) ==
    \/ StartTick(l) \/ Pick(l) \/ Prepare(l) \/ DedupProcessed(l) \/ DedupLibrary(l)
    \/ Triage(l) \/ Record(l) \/ MarkRead(l) \/ EndTick(l)

Next ==
    \/ \E i \in Items : Fetch(i) \/ Reject(i)
    \/ \E l \in Loops : StartLoop(l) \/ TickStep(l) \/ Die(l)

Spec == Init /\ [][Next]_vars

\* A running loop goes on, and somebody starts the daemon again when it
\* stopped; the drain is started when the user asks for it.
Fairness ==
    /\ \A l \in Loops : WF_vars(TickStep(l))
    /\ \A l \in Daemons : WF_vars(StartLoop(l))

FairSpec == Spec /\ Fairness

-----------------------------------------------------------------------------
(* Properties.                                                             *)

\* A copy that went through triage, the gate or the library lookup.
Judged(i) == row[i] \in {"triaged", "rejected", "rejected_dedup_library", "user_rejected"}

CopiesOf(i) == {j \in Items : j = i \/ (Content[j] = Content[i] /\ Content[i] # NoPaper)}

\* No paper is triaged twice, whatever copies of it arrive in one batch or in
\* several, however many loops run and wherever ticks die (_tick_lock,
\* _partition_by_content, skipped_error rows).
OneTriagePerPaper ==
    \A i, j \in Items :
        (j \in CopiesOf(i) /\ Judged(i) /\ Judged(j)) => i = j

\* An item is marked read only for a decision that is in the table, so that a
\* death in between loses nothing; the retry of an item without a guid is the
\* exception (clear_error_rows does not find its row).
ReadItemsWereDecided ==
    \A i \in read : Decided(i) \/ (i \in Guidless /\ row[i] = "skipped_error")

\* A decision is never revised by a later tick, least of all the user's
\* (record_decision, filter_unprocessed).
DecisionsStick ==
    [][\A i \in Items : Decided(i) => row'[i] \in {row[i], "user_rejected"}]_vars

\* The bounded picker gets past every item: whatever errors, deaths, lock
\* collisions and copies there are, each item is decided and marked read in
\* the end (select_stale_unread_to_mark, mark_processed_read).
EveryItemIsRead ==
    \A i \in Items : i \in arrived ~> i \in read

\* Dropping copies loses no paper: when all copies of it are read, one of them
\* was judged, whatever batches they came in and wherever ticks died
\* (dedup_against_processed) - as long as no triage or lookup failed: the copy
\* of an item that failed stays recorded as its duplicate.
NoPaperIsLost ==
    errors = 0 =>
        \A i \in read : CopiesOf(i) \subseteq read => \E j \in CopiesOf(i) : Judged(j)
=============================================================================
