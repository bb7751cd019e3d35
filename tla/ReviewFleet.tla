---------------------------- MODULE ReviewFleet ----------------------------
(***************************************************************************)
(* Deep reviews (services/library/deep_review.py, _review_cache.py,        *)
(* _review_attempt.py) and the fleet that reviews a batch of papers and    *)
(* proposes verdicts (services/library/review_fleet/fleet.py).             *)
(*                                                                         *)
(* Reviews of different papers run side by side on one thread pool; the    *)
(* job table keeps them to one per paper.  They are started by the review  *)
(* button, by the prewarm and the feed tick, and by the fleet, which polls *)
(* until nothing runs any more, fetches the PDFs still missing, reviews    *)
(* again from those and turns the cached digests into proposals.           *)
(***************************************************************************)
EXTENDS Naturals, Sequences, FiniteSets, SequencesExt

CONSTANTS
    Keys,             \* library papers
    WithPdf,          \* papers with a PDF attached in Zotero
    PoolSize,         \* size of the shared pool: 1 for a local provider
    BatchWait,        \* polls in _PER_BATCH_WAIT_SECS
    MaxStarts,        \* bound: reviews started by somebody else than the fleet
    MaxRuns,          \* bound: fleet runs
    MaxEdits,         \* bound: edits of what a review depends on
    MaxSetupFailures  \* bound: failures of _build_ctx

ASSUME PapersType == IsFiniteSet(Keys) /\ WithPdf \subseteq Keys
ASSUME PoolType   == PoolSize \in Nat \ {0} /\ BatchWait \in Nat
ASSUME BoundsType == MaxStarts \in Nat /\ MaxRuns \in Nat /\ MaxEdits \in Nat
                     /\ MaxSetupFailures \in Nat

VARIABLES
    config,    \* version of the settings in the identity of a review
    cache,     \* deep_reviews.json
    running,   \* papers whose entry in _JOBS has status "running"
    work,      \* workers submitted to the pool and not done, oldest first
    fleet,     \* the fleet's job
    proposal,  \* papers with an entry in proposed_verdicts.json
    clobbered, \* papers whose running job was overwritten by a setup failure
    starts, runs, setupFailures  \* counters of the bounds

vars == <<config, cache, running, work, fleet, proposal, clobbered, starts, runs, setupFailures>>

\* A review without a digest is the placeholder "needs_pdf".
Entry == [kind: {"none", "needs_pdf", "digest"}, config: 0..MaxEdits]

NoEntry == [kind |-> "none", config |-> 0]

\* pdf: the caller gave the path of a fetched PDF.  acquire: a missing PDF is
\* fetched by the worker.  config: the settings when the context was built.
Worker == [key: Keys, pdf: BOOLEAN, acquire: BOOLEAN, config: 0..MaxEdits,
           pc: {"queued", "review", "check", "write", "settle"},
           kind: {"none", "needs_pdf", "digest"}]

Outcomes == {"proposed", "no_fetchable_source", "needs_library_login",
             "browser_extra_unavailable", "failed"}

\* left: papers the current pass has not come to.  fetched and login are what
\* _acquire_missing_pdfs returns, outcome is both the local dictionary of the
\* job and the tally.
Fleet == [pc: {"off", "first", "firstpoll", "acquire", "second", "secondpoll", "propose"},
          keys: SUBSET Keys, left: SUBSET Keys, waited: 0..BatchWait,
          fetched: SUBSET Keys, login: SUBSET Keys,
          outcome: [Keys -> Outcomes \cup {"none"}]]

NoFleet == [pc |-> "off", keys |-> {}, left |-> {}, waited |-> 0, fetched |-> {},
            login |-> {}, outcome |-> [k \in Keys |-> "none"]]

TypeOK ==
    /\ config \in 0..MaxEdits
    /\ cache \in [Keys -> Entry]
    /\ running \subseteq Keys
    /\ work \in Seq(Worker)
    /\ fleet \in Fleet
    /\ proposal \subseteq Keys
    /\ clobbered \subseteq Keys
    /\ starts \in 0..MaxStarts /\ runs \in 0..MaxRuns /\ setupFailures \in 0..MaxSetupFailures

Init ==
    /\ config = 0
    /\ cache = [k \in Keys |-> NoEntry]
    /\ running = {}
    /\ work = <<>>
    /\ fleet = NoFleet
    /\ proposal = {}
    /\ clobbered = {}
    /\ starts = 0 /\ runs = 0 /\ setupFailures = 0

\* The settings, the model or the prompt change: the identities of the
\* reviews made so far no longer match.
Edit ==
    /\ config < MaxEdits
    /\ config' = config + 1
    /\ UNCHANGED <<cache, running, work, fleet, proposal, clobbered, starts, runs, setupFailures>>

\* review_is_current
Current(k) == cache[k].kind # "none" /\ cache[k].config = config

HasDigest(k) == Current(k) /\ cache[k].kind = "digest"

-----------------------------------------------------------------------------
(* Starting reviews.                                                       *)

\* A slip: a paper already under review is submitted again.
Anyway(keys) == keys

\* _submit: one review per paper.
Free(keys) == keys \ running

NewWorker(k, given, acquire) ==
    [key |-> k, pdf |-> k \in given, acquire |-> acquire, config |-> config,
     pc |-> "queued", kind |-> "none"]

Submissions(keys, given, acquire) ==
    SetToSeq({NewWorker(k, given, acquire) : k \in Free(keys)})

\* deep_review.start; a failing setup marks all the papers as failed, those
\* under review as well.
Start(keys, given, acquire) ==
    \/ /\ running' = running \cup Free(keys)
       /\ work' = work \o Submissions(keys, given, acquire)
       /\ UNCHANGED <<clobbered, setupFailures>>
    \/ /\ setupFailures < MaxSetupFailures
       /\ setupFailures' = setupFailures + 1
       /\ running' = running \ keys
       /\ clobbered' = clobbered \cup (keys \cap running)
       /\ UNCHANGED work

\* The review button and the feed tick fetch a missing PDF, the prewarm does
\* not.
StartReview(k, acquire) ==
    /\ starts < MaxStarts
    /\ starts' = starts + 1
    /\ Start({k}, {}, acquire)
    /\ UNCHANGED <<config, cache, fleet, proposal, runs>>

-----------------------------------------------------------------------------
(* The workers of the pool.                                                *)

InPool(i) == work[i].pc # "queued"

Busy == {i \in DOMAIN work : InPool(i)}

WorkStep(i) ==
    UNCHANGED <<config, fleet, proposal, clobbered, starts, runs, setupFailures>>

\* A thread of the pool takes the oldest submission.
TakeUp(i) ==
    /\ work[i].pc = "queued"
    /\ \A j \in 1..(i - 1) : InPool(j)
    /\ Cardinality(Busy) < PoolSize
    /\ work' = [work EXCEPT ![i].pc = "review"]
    /\ UNCHANGED <<cache, running>>
    /\ WorkStep(i)

\* A source is the given PDF, the attachment or what the worker itself gets.
\* With one the review ends in a digest, without it in the placeholder.
Review(i) ==
    /\ work[i].pc = "review"
    /\ \E kind \in {"digest", "needs_pdf"} :
          /\ kind = "digest" => work[i].pdf \/ work[i].key \in WithPdf \/ work[i].acquire
          /\ kind = "needs_pdf" => ~work[i].pdf /\ work[i].key \notin WithPdf
          /\ work' = [work EXCEPT ![i].pc = "check", ![i].kind = kind]
    /\ UNCHANGED <<cache, running>>
    /\ WorkStep(i)

\* The review raises, or the item is gone: nothing is written.
Drop(i) ==
    /\ work[i].pc = "review"
    /\ work' = [work EXCEPT ![i].pc = "settle"]
    /\ UNCHANGED <<cache, running>>
    /\ WorkStep(i)

\* A slip: the placeholder replaces a digest.
AlwaysPublishable(i) == TRUE

\* publishable_entry
Publishable(i) == work[i].kind = "digest" \/ ~HasDigest(work[i].key)

Check(i) ==
    /\ work[i].pc = "check"
    /\ work' = [work EXCEPT ![i].pc = IF Publishable(i) THEN "write" ELSE "settle"]
    /\ UNCHANGED <<cache, running>>
    /\ WorkStep(i)

\* _write_one: the identity is the one of the context the review ran in.
Write(i) ==
    /\ work[i].pc = "write"
    /\ cache' = [cache EXCEPT ![work[i].key] = [kind |-> work[i].kind, config |-> work[i].config]]
    /\ work' = [work EXCEPT ![i].pc = "settle"]
    /\ UNCHANGED running
    /\ WorkStep(i)

\* _set_job(status = "ready" or "error")
Settle(i) ==
    /\ work[i].pc = "settle"
    /\ running' = running \ {work[i].key}
    /\ work' = RemoveAt(work, i)
    /\ UNCHANGED cache
    /\ WorkStep(i)

-----------------------------------------------------------------------------
(* The fleet.                                                              *)

FleetOnly == UNCHANGED <<config, cache, starts>>

\* fleet.start with explicit papers; try_start resets the tally.
StartFleet(keys) ==
    /\ fleet.pc = "off"
    /\ runs < MaxRuns
    /\ keys # {}
    /\ runs' = runs + 1
    /\ fleet' = [NoFleet EXCEPT !.pc = "first", !.keys = keys]
    /\ UNCHANGED <<running, work, proposal, clobbered, setupFailures>>
    /\ FleetOnly

\* _run_batched_review starts the papers of S that are not done ...
Batch(S, given, here, poll, next, left) ==
    /\ fleet.pc = here
    /\ IF S = {}
       THEN /\ fleet' = [fleet EXCEPT !.pc = next, !.left = left]
            /\ UNCHANGED <<running, work, clobbered, setupFailures>>
       ELSE /\ fleet' = [fleet EXCEPT !.pc = poll, !.waited = 0]
            /\ Start(S, given, FALSE)
    /\ UNCHANGED <<proposal, runs>>
    /\ FleetOnly

\* A slip: the fleet waits as long as it takes.
NeverSpent == FALSE

Spent == fleet.waited = BatchWait

\* ... and polls until no review runs at all, or its time is over.
Poll(here, next, left) ==
    /\ fleet.pc = here
    /\ fleet' = IF running = {} \/ Spent
                THEN [fleet EXCEPT !.pc = next, !.left = left]
                ELSE [fleet EXCEPT !.waited = IF @ < BatchWait THEN @ + 1 ELSE @]
    /\ UNCHANGED <<running, work, proposal, clobbered, runs, setupFailures>>
    /\ FleetOnly

FirstBatch  == Batch({k \in fleet.keys : ~Current(k)}, {}, "first", "firstpoll", "acquire", fleet.keys)
FirstPoll   == Poll("firstpoll", "acquire", fleet.keys)
SecondBatch == Batch({k \in fleet.fetched : ~HasDigest(k)}, fleet.fetched,
                     "second", "secondpoll", "propose", fleet.keys)
SecondPoll  == Poll("secondpoll", "propose", fleet.keys)

\* _acquire_missing_pdfs, one paper after the other.
Acquire(k) ==
    /\ fleet.pc = "acquire"
    /\ k \in fleet.left
    /\ LET next == [fleet EXCEPT !.left = @ \ {k}]
       IN  \/ /\ HasDigest(k) \/ k \in WithPdf
              /\ fleet' = next
           \/ /\ ~HasDigest(k) /\ k \notin WithPdf
              /\ \/ fleet' = [next EXCEPT !.fetched = @ \cup {k}]
                 \/ fleet' = [next EXCEPT !.login = @ \cup {k}]
                 \/ fleet' = next
                 \/ \E o \in {"failed", "browser_extra_unavailable"} :
                       fleet' = [next EXCEPT !.outcome[k] = o]
    /\ UNCHANGED <<running, work, proposal, clobbered, runs, setupFailures>>
    /\ FleetOnly

AcquireDone ==
    /\ fleet.pc = "acquire"
    /\ fleet.left = {}
    /\ fleet' = [fleet EXCEPT !.pc = "second"]
    /\ UNCHANGED <<running, work, proposal, clobbered, runs, setupFailures>>
    /\ FleetOnly

\* _propose_for_item: what the cache says of the paper.
OutcomeOf(k) ==
    IF fleet.outcome[k] # "none" THEN fleet.outcome[k]
    ELSE IF HasDigest(k) THEN "proposed"
    ELSE IF k \in fleet.login THEN "needs_library_login"
    ELSE IF Current(k) THEN "no_fetchable_source"
    ELSE "failed"

Propose(k) ==
    /\ fleet.pc = "propose"
    /\ k \in fleet.left
    /\ fleet' = [fleet EXCEPT !.left = @ \ {k}, !.outcome[k] = OutcomeOf(k)]
    /\ proposal' = IF OutcomeOf(k) = "proposed"
                   THEN proposal \cup {k} ELSE proposal
    /\ UNCHANGED <<running, work, clobbered, runs, setupFailures>>
    /\ FleetOnly

FinishFleet ==
    /\ fleet.pc = "propose"
    /\ fleet.left = {}
    /\ fleet' = [fleet EXCEPT !.pc = "off"]
    /\ UNCHANGED <<running, work, proposal, clobbered, runs, setupFailures>>
    /\ FleetOnly

-----------------------------------------------------------------------------
\* The server is restarted: the job table, the pool and the fleet's job are in
\* memory, the two caches are files written atomically.
Restart ==
    /\ running # {} \/ work # <<>> \/ fleet.pc # "off"
    /\ running' = {}
    /\ work' = <<>>
    /\ fleet' = NoFleet
    /\ clobbered' = {}
    /\ UNCHANGED <<config, cache, proposal, starts, runs, setupFailures>>

FleetStep ==
    \/ FirstBatch \/ FirstPoll \/ SecondBatch \/ SecondPoll
    \/ AcquireDone \/ FinishFleet
    \/ \E k \in Keys : Acquire(k) \/ Propose(k)

WorkerStep(i) ==
    TakeUp(i) \/ Review(i) \/ Drop(i) \/ Check(i) \/ Write(i) \/ Settle(i)

Next ==
    \/ Edit
    \/ \E k \in Keys, acquire \in BOOLEAN : StartReview(k, acquire)
    \/ \E keys \in SUBSET Keys : StartFleet(keys)
    \/ \E i \in DOMAIN work : WorkerStep(i)
    \/ FleetStep
    \/ Restart

Spec == Init /\ [][Next]_vars

\* The fleet's thread runs on; nothing is assumed of the reviews, whose
\* models and browsers may hang.
FairSpec == Spec /\ WF_vars(FleetStep)

-----------------------------------------------------------------------------
(* Properties.                                                             *)

\* A usable digest is never lost to a placeholder: publishable_entry looks at
\* the cache before the write, which is safe because no second review of the
\* paper runs - unless a failing setup overwrote its job.
DigestsAreKept ==
    [][\A k \in Keys \ clobbered : HasDigest(k) => cache'[k].kind = "digest"]_vars

\* At most one review of a paper is under way, however the button, the
\* prewarm, the tick and the fleet ask for it, and the job table says so -
\* until a failing setup overwrites the job of a running review (_submit).
OneReviewPerPaper ==
    \A i, j \in DOMAIN work :
        (work[i].key \notin clobbered) =>
            /\ work[i].key = work[j].key => i = j
            /\ work[i].key \in running

\* A fleet run ends, even when the reviews it waits for never do, its own or
\* somebody else's (_run_batched_review's budgets): else no other run starts.
FleetEnds == fleet.pc # "off" ~> fleet.pc = "off"
=============================================================================
