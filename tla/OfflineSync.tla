---------------------------- MODULE OfflineSync ----------------------------
(***************************************************************************)
(* Offline edits of the PWA and their synchronisation with the server.     *)
(*                                                                         *)
(* Every device keeps an IndexedDB store (offlineStore.js) with its view   *)
(* of the papers, an outbox of mutations and the receipts of acknowledged  *)
(* mutations.  Every browser tab of a device runs its own sync             *)
(* (syncClient.js): push the pending mutations batch by batch, then pull a *)
(* full snapshot.  The server (services/sync, storage/_repo_sync.py)       *)
(* decides each mutation in one write transaction by comparing revisions   *)
(* and remembers the outcome under the mutation's UUID.                    *)
(*                                                                         *)
(* A key is one field (verdict or review note) of one paper.  The body of  *)
(* a mutation never changes once it is queued, so messages carry its UUID  *)
(* and "mut" holds the bodies.                                             *)
(***************************************************************************)
EXTENDS Naturals, Sequences, FiniteSets

CONSTANTS
    Devices,        \* installations of the PWA, one IndexedDB each
    Tabs,           \* browser tabs
    DeviceOf,       \* the device whose IndexedDB a tab uses
    Keys,           \* (item_key, field) pairs
    GatedKeys,      \* verdicts of feed papers: a set may need a review
    Values,         \* values of a field
    PositiveValues, \* values the review gate applies to
    Mutations,      \* mutation UUIDs
    NoValue,        \* a deleted or absent field
    None,           \* no mutation
    Server,         \* author of the writes made through the online routes
    BatchSize,      \* mutations per push (100 in the client)
    MaxServerWrites,\* bound: writes made online
    MaxFaults       \* bound: aborted syncs and lost requests

ASSUME DeviceOfType  == DeviceOf \in [Tabs -> Devices]
ASSUME GatedType     == GatedKeys \subseteq Keys /\ PositiveValues \subseteq Values
ASSUME NoValueFresh  == NoValue \notin Values
ASSUME NoneFresh     == /\ None \notin Mutations
                        /\ None \notin [by: Devices, key: Keys, val: Values \cup {NoValue}]
ASSUME ServerFresh   == Server \notin Devices
ASSUME OutboxFinite  == IsFiniteSet(Mutations)
ASSUME BatchSizeType == BatchSize \in Nat \ {0}
ASSUME BoundsType    == MaxServerWrites \in Nat /\ MaxFaults \in Nat

VARIABLES
    mut,       \* mutation bodies, by UUID (None: UUID not drawn yet)
    outbox,    \* status of the mutation's row in its device's outbox
    paper,     \* per device and key: the value shown and its revision
    ack,       \* per device and key: acknowledged mutation and revision
    seq,       \* per device: mutation_sequence
    choices,   \* conflict choices read but not yet written back
    tab,       \* per tab: the running sync
    req,       \* per tab: the push request the tab waits for
    orphans,   \* push requests whose client gave up
    canon,     \* server: value, revision and author of every key
    revision,  \* server: last revision handed out (AUTOINCREMENT)
    receipts,  \* server: outcome of every decided mutation
    shown,     \* history: newest revision the device's user was shown
    online,    \* number of online writes so far
    faults     \* number of faults so far

device  == <<mut, outbox, paper, ack, seq, choices>>
server  == <<canon, revision, receipts>>
vars    == <<device, tab, req, orphans, server, shown, online, faults>>

FieldValue == Values \cup {NoValue}

Mutation == [dev: Devices, key: Keys, val: FieldValue, base: Nat, seq: Nat,
             resolves: Mutations \cup {None}]

NoMutation == [dev |-> None]

\* Result rows of sync_mutations.  "rev" is applied_revision or
\* conflict_revision, "canon" the canonical value returned with it.
Receipt == [status: {"applied", "conflict"}, rev: Nat, canon: FieldValue]

Undecided == [status |-> "none"]

NoAck == [id |-> None, rev |-> 0]

\* A push request: mutations left to decide, all its mutations, the rejected
\* ones, and last_applied (0 stands for a key not in the dictionary).
Request == [left: Seq(Mutations), sent: Seq(Mutations),
            rejected: SUBSET Mutations, last: [Keys -> Nat]]

NoRequest == [left |-> <<>>, sent |-> <<>>, rejected |-> {},
              last |-> [k \in Keys |-> 0]]

Snapshot == [Keys -> [val: FieldValue, rev: Nat]]

NoSnapshot == [k \in Keys |-> [val |-> NoValue, rev |-> 0]]

Issued(m)   == mut[m] # NoMutation
Applied(m)  == receipts[m].status = "applied"
Conflict(m) == receipts[m].status = "conflict"

Larger(a, b) == IF a >= b THEN a ELSE b

TypeOK ==
    /\ mut \in [Mutations -> Mutation \cup {NoMutation}]
    /\ outbox \in [Mutations ->
                     {"unused", "pending", "conflict", "rejected", "retired"}]
    /\ paper \in [Devices -> Snapshot]
    /\ ack \in [Devices -> [Keys -> [id: Mutations \cup {None}, rev: Nat]]]
    /\ seq \in [Devices -> Nat]
    /\ choices \in SUBSET (Mutations \X BOOLEAN)
    /\ tab \in [Tabs -> [pc: {"idle", "push", "wait", "pulled"},
                         todo: Seq(Mutations), snap: Snapshot]]
    /\ req \in [Tabs -> Request]
    /\ orphans \in SUBSET Request
    /\ canon \in [Keys -> [val: FieldValue, rev: Nat, by: Devices \cup {Server}]]
    /\ revision \in Nat
    /\ receipts \in [Mutations -> Receipt \cup {Undecided}]
    /\ shown \in [Devices -> [Keys -> Nat]]
    /\ online \in Nat
    /\ faults \in Nat

Idle == [pc |-> "idle", todo |-> <<>>, snap |-> NoSnapshot]

Init ==
    /\ mut = [m \in Mutations |-> NoMutation]
    /\ outbox = [m \in Mutations |-> "unused"]
    /\ paper = [d \in Devices |-> NoSnapshot]
    /\ ack = [d \in Devices |-> [k \in Keys |-> NoAck]]
    /\ seq = [d \in Devices |-> 0]
    /\ choices = {}
    /\ tab = [t \in Tabs |-> Idle]
    /\ req = [t \in Tabs |-> NoRequest]
    /\ orphans = {}
    /\ canon = [k \in Keys |-> [val |-> NoValue, rev |-> 0, by |-> Server]]
    /\ revision = 0
    /\ receipts = [m \in Mutations |-> Undecided]
    /\ shown = [d \in Devices |-> [k \in Keys |-> 0]]
    /\ online = 0
    /\ faults = 0

-----------------------------------------------------------------------------
(* The device: queueing edits and resolving conflicts.                     *)

\* The revision an edit is based on: the one the device last pulled.
BaseRevision(d, k) == paper[d][k].rev

\* The user edits key k while the server cannot be reached: one IndexedDB
\* transaction records the mutation and shows its value at once.
QueueMutation(d, k, v) ==
    \E m \in Mutations :
        /\ ~Issued(m)
        /\ mut' = [mut EXCEPT ![m] =
              [dev |-> d, key |-> k, val |-> v, base |-> BaseRevision(d, k),
               seq |-> seq[d] + 1, resolves |-> None]]
        /\ outbox' = [outbox EXCEPT ![m] = "pending"]
        /\ seq' = [seq EXCEPT ![d] = @ + 1]
        /\ paper' = [paper EXCEPT ![d][k].val = v]
        /\ UNCHANGED <<ack, choices, tab, req, orphans, server, shown, online, faults>>

\* resolveConflict reads the conflicting row in one IndexedDB transaction ...
ChooseResolution(m, keepLocal) ==
    /\ outbox[m] = "conflict"
    /\ choices' = choices \cup {<<m, keepLocal>>}
    /\ UNCHANGED <<mut, outbox, paper, ack, seq, tab, req, orphans, server,
                   shown, online, faults>>

\* ... and replaces it in another.  The resolution keeps the sequence number
\* and is based on the revision the conflict named; "keep mine" repeats the
\* local value, "use server" writes the canonical one.
WriteResolution(m, keepLocal) ==
    /\ <<m, keepLocal>> \in choices
    /\ \E r \in Mutations :
        /\ ~Issued(r)
        /\ mut' = [mut EXCEPT ![r] =
              [mut[m] EXCEPT !.val = IF keepLocal THEN @ ELSE receipts[m].canon,
                             !.base = receipts[m].rev,
                             !.resolves = m]]
        /\ outbox' = [outbox EXCEPT ![m] = "retired", ![r] = "pending"]
    /\ choices' = choices \ {<<m, keepLocal>>}
    /\ UNCHANGED <<paper, ack, seq, tab, req, orphans, server, shown, online, faults>>

-----------------------------------------------------------------------------
(* The tab: one sync at a time, push batches then pull.                    *)

PendingOf(d) == {m \in Mutations : outbox[m] = "pending" /\ mut[m].dev = d}

\* A slip: the outbox is sent in storage order.
InStorageOrder(S) ==
    {s \in [1..Cardinality(S) -> S] : \A i, j \in 1..Cardinality(S) : i < j => s[i] # s[j]}

\* The orders pendingMutations may return: by sequence number, ties broken by
\* the random UUID.
InSequence(S) ==
    {s \in [1..Cardinality(S) -> S] :
        \A i, j \in 1..Cardinality(S) :
            i < j => s[i] # s[j] /\ mut[s[i]].seq <= mut[s[j]].seq}

StartSync(t) ==
    /\ tab[t].pc = "idle"
    /\ \E s \in InSequence(PendingOf(DeviceOf[t])) :
        tab' = [tab EXCEPT ![t].pc = "push", ![t].todo = s]
    /\ UNCHANGED <<device, req, orphans, server, shown, online, faults>>

\* pushPredecessors: the receipts the device holds for the batch's keys, and
\* the revisions sync_applied_revisions reads for them.
Batch(s) == SubSeq(s, 1, IF Len(s) < BatchSize THEN Len(s) ELSE BatchSize)

Rest(s) == SubSeq(s, BatchSize + 1, Len(s))

RangeOf(s) == {s[i] : i \in DOMAIN s}

Predecessors(d, s) == {ack[d][mut[m].key].id : m \in RangeOf(s)} \ {None}

\* The server refuses the whole request unless every predecessor was applied.
PredecessorsAccepted(P) == \A p \in P : Applied(p)

LastApplied(d, P) ==
    [k \in Keys |->
        LET known == {p \in P : mut[p].dev = d /\ mut[p].key = k}
            newest == {p \in known : \A q \in known : receipts[q].rev <= receipts[p].rev}
        IN  IF newest = {} THEN 0 ELSE receipts[CHOOSE p \in newest : TRUE].rev]

SendPush(t) ==
    LET d == DeviceOf[t]
        batch == Batch(tab[t].todo)
    IN  /\ tab[t].pc = "push"
        /\ tab[t].todo # <<>>
        /\ PredecessorsAccepted(Predecessors(d, batch))
        /\ tab' = [tab EXCEPT ![t].pc = "wait", ![t].todo = Rest(@)]
        /\ req' = [req EXCEPT ![t] =
              [left |-> batch, sent |-> batch, rejected |-> {},
               last |-> LastApplied(d, Predecessors(d, batch))]]
        /\ UNCHANGED <<device, orphans, server, shown, online, faults>>

\* A slip: any answer is taken for an acknowledgement.
AnyAnswer(t, m) == m \notin req[t].rejected

\* The outcome a push reported for m: what the server remembers, unless it
\* refused m in this request.
ReportedApplied(t, m) == m \notin req[t].rejected /\ Applied(m)

\* A slip: a conflict is not recorded, the row stays pending.
ConflictRetried(t, m) ==
    CASE ReportedApplied(t, m)   -> "retired"
      [] m \in req[t].rejected   -> "rejected"
      [] OTHER                   -> "pending"

\* The row of a mutation the push answered.
RowAfter(t, m) ==
    CASE ReportedApplied(t, m)   -> "retired"
      [] m \in req[t].rejected   -> "rejected"
      [] OTHER                   -> "conflict"

\* The receipt device d holds for key k once the mutations "done" of a push
\* are acknowledged in the order they were sent: each result is compared with
\* the receipt held before the push, and the last one that is as new stays.
AckAfter(d, k, sent, done) ==
    LET on == {i \in DOMAIN sent : /\ sent[i] \in done /\ mut[sent[i]].key = k
                                   /\ ack[d][k].rev <= receipts[sent[i]].rev}
        end == {i \in on : \A j \in on : j <= i}
    IN  IF end = {} THEN ack[d][k]
        ELSE LET i == CHOOSE i \in end : TRUE
             IN  [id |-> sent[i], rev |-> receipts[sent[i]].rev]

\* applyPushResults, one IndexedDB transaction: rows that are gone are
\* skipped, conflicts and rejections keep their row, an applied mutation's
\* row is deleted and its receipt kept.
ReceiveResults(t) ==
    LET d == DeviceOf[t]
        rows == {m \in RangeOf(req[t].sent) : outbox[m] # "retired"}
        done == {m \in rows : ReportedApplied(t, m)}
    IN  /\ tab[t].pc = "wait"
        /\ req[t].left = <<>>
        /\ outbox' = [m \in Mutations |-> IF m \in rows THEN RowAfter(t, m) ELSE outbox[m]]
        /\ ack' = [ack EXCEPT ![d] = [k \in Keys |-> AckAfter(d, k, req[t].sent, done)]]
        /\ tab' = [tab EXCEPT ![t].pc = "push"]
        /\ req' = [req EXCEPT ![t] = NoRequest]
        /\ UNCHANGED <<mut, paper, seq, choices, orphans, server, shown, online, faults>>

\* The pull request: the server answers with its current state.
PullSnapshot(t) ==
    /\ tab[t].pc = "push"
    /\ tab[t].todo = <<>>
    /\ tab' = [tab EXCEPT ![t].pc = "pulled",
          ![t].snap = [k \in Keys |-> [val |-> canon[k].val, rev |-> canon[k].rev]]]
    /\ UNCHANGED <<device, req, orphans, server, shown, online, faults>>

\* The value a key shows after a pull: the last pending edit, else the
\* snapshot's value.
PendingOn(d, k) == {m \in PendingOf(d) : mut[m].key = k}

LastPending(d, k) ==
    {m \in PendingOn(d, k) : \A n \in PendingOn(d, k) : mut[n].seq <= mut[m].seq}

\* A slip: a key the device has once written is taken to be current.
OwnWriteKept(d, k, snap, top) ==
    IF ack[d][k].id # None /\ top = None THEN paper[d][k]
    ELSE [val |-> IF top = None THEN snap[k].val ELSE mut[top].val, rev |-> snap[k].rev]

\* Key k after a pull, "top" being the device's last pending edit of it.
Merged(d, k, snap, top) ==
    [val |-> IF top = None THEN snap[k].val ELSE mut[top].val, rev |-> snap[k].rev]

\* applyPull: the snapshot replaces the device's papers, revisions included;
\* pending edits stay on display.
ApplyPull(t) ==
    LET d == DeviceOf[t]
    IN  /\ tab[t].pc = "pulled"
        /\ \E top \in [Keys -> Mutations \cup {None}] :
            /\ \A k \in Keys :
                  IF PendingOn(d, k) = {} THEN top[k] = None
                                          ELSE top[k] \in LastPending(d, k)
            /\ paper' = [paper EXCEPT ![d] = [k \in Keys |-> Merged(d, k, tab[t].snap, top[k])]]
        /\ shown' = [shown EXCEPT ![d] = [k \in Keys |->
              IF PendingOn(d, k) = {} THEN Larger(@[k], tab[t].snap[k].rev) ELSE @[k]]]
        /\ tab' = [tab EXCEPT ![t] = Idle]
        /\ UNCHANGED <<mut, outbox, ack, seq, choices, req, orphans, server, online, faults>>

\* The sync ends early (15 s deadline, closed tab).  A push already sent keeps
\* running on the server.
AbortSync(t) ==
    /\ tab[t].pc # "idle"
    /\ faults < MaxFaults
    /\ faults' = faults + 1
    /\ tab' = [tab EXCEPT ![t] = Idle]
    /\ req' = [req EXCEPT ![t] = NoRequest]
    /\ orphans' = IF tab[t].pc = "wait" THEN orphans \cup {req[t]} ELSE orphans
    /\ UNCHANGED <<device, server, shown, online>>

\* The request fails on the server (crash, a failing post-commit effect): the
\* mutations it decided stay decided, the rest are not decided.
LoseRequest(t) ==
    /\ tab[t].pc = "wait"
    /\ faults < MaxFaults
    /\ faults' = faults + 1
    /\ tab' = [tab EXCEPT ![t] = Idle]
    /\ req' = [req EXCEPT ![t] = NoRequest]
    /\ UNCHANGED <<device, orphans, server, shown, online>>

-----------------------------------------------------------------------------
(* The server.                                                             *)

\* A write through the triggers: only a changed value gets a revision.
Written(k, v, who) ==
    IF canon[k].val = v THEN canon[k]
    ELSE [val |-> v, rev |-> revision + 1, by |-> who]

WriteValue(k, v, who) ==
    /\ canon' = [canon EXCEPT ![k] = Written(k, v, who)]
    /\ revision' = IF canon[k].val = v THEN revision ELSE revision + 1

\* The base a mutation is compared with: its own, or the revision of the last
\* mutation applied for the same device and key if that is newer.
EffectiveBase(m, last) == Larger(mut[m].base, last[mut[m].key])

\* A slip: the comparison lets one revision through.
OvertakenTwice(m, last) == canon[mut[m].key].rev > EffectiveBase(m, last) + 1

\* The key moved on since the revision the mutation is based on.
Overtaken(m, last) == canon[mut[m].key].rev > EffectiveBase(m, last)

\* A slip: the value is written before the revisions are compared.
WriteThenCompare(m, last) ==
    LET k == mut[m].key
    IN  /\ WriteValue(k, mut[m].val, mut[m].dev)
        /\ receipts' = [receipts EXCEPT ![m] =
              [status |-> IF Overtaken(m, last) THEN "conflict" ELSE "applied",
               rev |-> canon'[k].rev, canon |-> canon[k].val]]

\* apply_sync_mutation of a UUID not seen before: compare and write.
Decide(m, last) ==
    LET k == mut[m].key
    IN  IF Overtaken(m, last)
        THEN /\ receipts' = [receipts EXCEPT ![m] =
                   [status |-> "conflict", rev |-> canon[k].rev, canon |-> canon[k].val]]
             /\ UNCHANGED <<canon, revision>>
        ELSE /\ WriteValue(k, mut[m].val, mut[m].dev)
             /\ receipts' = [receipts EXCEPT ![m] =
                   [status |-> "applied", rev |-> canon'[k].rev, canon |-> mut[m].val]]

\* A slip: replayed UUIDs are not recognised.
NeverKnown(m) == FALSE

\* The UUID has a row in sync_mutations.
Known(m) == receipts[m] # Undecided

\* The review gate looks at stored reviews, which come and go independently.
MayBeRejected(m) ==
    /\ mut[m].key \in GatedKeys
    /\ mut[m].val \in PositiveValues
    /\ ~Known(m)

\* resolves_mutation_id must name a conflict of the same key.
ResolutionAccepted(m) ==
    LET r == mut[m].resolves
    IN  r # None => Conflict(r) /\ mut[r].key = mut[m].key

\* One iteration of the loop in service.push: refuse the mutation, decide it,
\* or find it decided.
ServeMutation(q, refuse) ==
    LET m == Head(q.left)
    IN  /\ q.left # <<>>
        /\ \/ /\ refuse
              /\ ~Known(m)
              /\ MayBeRejected(m) \/ ~ResolutionAccepted(m)
              /\ UNCHANGED server
           \/ /\ ~refuse
              /\ ~Known(m)
              /\ ResolutionAccepted(m)
              /\ Decide(m, q.last)
           \/ /\ ~refuse
              /\ Known(m)
              /\ UNCHANGED server

\* The request after that iteration: an applied or already applied mutation
\* sets last_applied for its key.
Served(q, refuse) ==
    LET m == Head(q.left)
        k == mut[m].key
    IN  [q EXCEPT !.left = Tail(@),
                  !.rejected = IF refuse THEN @ \cup {m} ELSE @,
                  !.last = IF receipts'[m].status = "applied"
                           THEN [@ EXCEPT ![k] = receipts'[m].rev] ELSE @]

ServePush(t) ==
    /\ tab[t].pc = "wait"
    /\ \E refuse \in BOOLEAN :
        /\ ServeMutation(req[t], refuse)
        /\ req' = [req EXCEPT ![t] = Served(@, refuse)]
    /\ UNCHANGED <<device, tab, orphans, shown, online, faults>>

\* A request whose client gave up; its answer reaches nobody.
ServeOrphan(q) ==
    /\ \E refuse \in BOOLEAN :
        /\ ServeMutation(q, refuse)
        /\ orphans' = (orphans \ {q}) \cup
              (IF Len(q.left) = 1 THEN {} ELSE {Served(q, refuse)})
    /\ UNCHANGED <<device, tab, req, shown, online, faults>>

\* An edit made through the online routes (or by any other server code): the
\* triggers log it like a mutation.
OnlineWrite(k, v) ==
    /\ online < MaxServerWrites
    /\ online' = online + 1
    /\ canon[k].val # v
    /\ WriteValue(k, v, Server)
    /\ UNCHANGED <<device, tab, req, orphans, receipts, shown, faults>>

-----------------------------------------------------------------------------
TabStep(t) ==
    \/ StartSync(t)
    \/ SendPush(t)
    \/ ServePush(t)
    \/ ReceiveResults(t)
    \/ PullSnapshot(t)
    \/ ApplyPull(t)

UserStep ==
    \/ \E d \in Devices, k \in Keys, v \in FieldValue : QueueMutation(d, k, v)
    \/ \E m \in Mutations, keepLocal \in BOOLEAN :
          ChooseResolution(m, keepLocal) \/ WriteResolution(m, keepLocal)
    \/ \E k \in Keys, v \in FieldValue : OnlineWrite(k, v)

FaultStep ==
    \/ \E t \in Tabs : AbortSync(t) \/ LoseRequest(t)
    \/ \E q \in orphans : ServeOrphan(q)

Next == (\E t \in Tabs : TabStep(t)) \/ UserStep \/ FaultStep

Spec == Init /\ [][Next]_vars

-----------------------------------------------------------------------------
(* Properties.                                                             *)

\* A device only names receipts of its own applied mutations as predecessors
\* (ack rows of offlineStore.js), at the revision the server gave them: else
\* sync_applied_revisions refuses every later push of the device.
AcksNameAppliedReceipts ==
    \A d \in Devices, k \in Keys :
        LET m == ack[d][k].id
        IN  m # None => /\ Applied(m)
                        /\ mut[m].dev = d /\ mut[m].key = k
                        /\ receipts[m].rev = ack[d][k].rev

\* An edit leaves the outbox only when the server has applied it or the user
\* has replaced it by a resolution of its conflict (applyPushResults,
\* resolveConflict), whatever was lost, aborted or pushed twice.
NoEditForgotten ==
    \A m \in Mutations :
        outbox[m] = "retired" => Applied(m) \/ \E r \in Mutations : mut[r] # NoMutation /\ mut[r].resolves = m

\* Seen from outside, every mutation takes effect at most once and for good:
\* the server implements FieldRegister, where an edit is decided in one step,
\* a value changes only by an applied edit or an online write, and no
\* decision is ever taken back or taken twice (replays, retries and requests
\* that outlive their client included).
Register ==
    INSTANCE FieldRegister WITH
        Edits    <- Mutations,
        Editors  <- Devices,
        edit     <- [m \in Mutations |->
                       IF Issued(m) THEN [by |-> mut[m].dev, key |-> mut[m].key, val |-> mut[m].val]
                                    ELSE None],
        outcome  <- [m \in Mutations |-> receipts[m].status],
        value    <- [k \in Keys |-> canon[k].val],
        author   <- [k \in Keys |-> canon[k].by]

ImplementsRegister == Register!Spec

\* Only one tab uses the device's store.
Alone(d) == \A t, u \in Tabs : DeviceOf[t] = d /\ DeviceOf[u] = d => t = u

\* Applying m overwrites somebody else's edit of a key that no second tab of
\* the device edits and the review gate does not guard.  A second tab's pull
\* renews the revisions beneath an edit the first one is sending, and the gate
\* may refuse the edit that was to meet the conflict.
Overwrites(m) ==
    LET k == mut[m].key
    IN  /\ receipts[m] = Undecided /\ Applied(m)'
        /\ k \notin GatedKeys /\ Alone(mut[m].dev)
        /\ canon'[k] # canon[k] /\ canon[k].rev > 0 /\ canon[k].by # mut[m].dev

\* The user of m's device was shown the value that m meets on the server.
WasShown(m) == canon[mut[m].key].rev <= shown[mut[m].dev][mut[m].key]

\* c is a conflict of m's device and key that names this value or a later one.
Names(c, m) ==
    /\ Conflict(c)
    /\ mut[c].dev = mut[m].dev /\ mut[c].key = mut[m].key
    /\ canon[mut[m].key].rev <= receipts[c].rev

Resolved(c) == \E r \in Mutations : Issued(r) /\ mut[r].resolves = c

\* No edit of somebody else is overwritten without a trace: the user of the
\* overwriting device was shown it, or an earlier edit of the device met the
\* conflict and its row is still there to tell, unless the user has resolved
\* it.  Not before the overwrite: a pull may bring the edit in beneath a draft,
\* and the answer with the conflict of that draft may come after a later draft
\* is applied, in the same push even (applyPull, apply_sync_mutation,
\* applyPushResults).
ForeignEditsSurface ==
    [][\A m \in Mutations : Overwrites(m) =>
         \/ WasShown(m)
         \/ \E c \in Mutations : Names(c, m) /\ (outbox[c] \in {"pending", "conflict"} \/ Resolved(c))]_vars

Draft(m) == Issued(m) /\ mut[m].resolves = None

\* The drafts a device queued for one key take effect in the order the user
\* made them, across batches, retries and requests that outlive their client.
\* Drafts the review gate may refuse are left out: one that tab A saw refused
\* may be accepted from tab B, after its successor.
DraftsApplyInOrder ==
    [][\A m \in Mutations :
        (receipts[m] = Undecided /\ Applied(m)' /\ Draft(m) /\ mut[m].key \notin GatedKeys) =>
            \A n \in Mutations :
                (Draft(n) /\ Applied(n) /\ mut[n].dev = mut[m].dev /\ mut[n].key = mut[m].key)
                    => mut[n].seq < mut[m].seq]_vars

Fairness ==
    \A t \in Tabs : WF_vars(TabStep(t))

FairSpec == Spec /\ Fairness

\* Every queued edit is eventually answered.
EditsAreAnswered ==
    \A m \in Mutations : outbox[m] = "pending" ~> outbox[m] # "pending"

\* Once the edits stop, every key a device has no open edit for shows the
\* server's value.
DevicesConverge ==
    <>[](\A d \in Devices, k \in Keys :
            (\A m \in Mutations : outbox[m] \in {"pending", "conflict", "rejected"}
                 => ~(mut[m].dev = d /\ mut[m].key = k))
            => paper[d][k] = [val |-> canon[k].val, rev |-> canon[k].rev])

=============================================================================
