--------------------------- MODULE SearchSessions ---------------------------
(***************************************************************************)
(* A targeted-search session: its file (services/search/session.py), the   *)
(* background worker that refines and reviews the candidates (refine.py,   *)
(* pipeline.py, api/routes/search.py) and the clicks that add a candidate  *)
(* to Zotero (materialize.py).                                             *)
(*                                                                         *)
(* The worker keeps the session in memory for minutes and saves it whole,  *)
(* again and again; a click loads, writes to Zotero and saves in between.  *)
(* A lock per session serialises the saves, and a save of the worker takes *)
(* over the Zotero keys stamped since it loaded.  Sessions share nothing,  *)
(* so there is one here.  What searches and models answer is left open.    *)
(***************************************************************************)
EXTENDS Naturals, FiniteSets

CONSTANTS
    Candidates,  \* ids of candidates
    Screened,    \* the candidates the screening finds
    InLibrary,   \* those with an existing_zotero_key
    Twins,       \* pairs of candidates that a later find shows to be one work
    Workers,     \* threads of _review_worker
    Clicks,      \* requests for materialize_candidate
    Nobody,      \* the session's lock is free
    TopN,        \* LIGHT_REVIEW_N
    DeepSize,    \* DEEP_SET_K
    MaxRounds,   \* max_rounds of run_agentic_rounds, 0 when it is switched off
    MaxRestarts  \* bound: restarts of the server

ASSUME CandidatesType == IsFiniteSet(Candidates) /\ Screened \subseteq Candidates
                         /\ InLibrary \subseteq Candidates
                         /\ Twins \subseteq {t \in Candidates \X Candidates : t[1] # t[2]}
ASSUME ThreadsType    == Nobody \notin Clicks /\ IsFiniteSet(Clicks)
ASSUME LimitsType     == TopN \in Nat /\ DeepSize \in Nat /\ MaxRounds \in Nat /\ MaxRestarts \in Nat

VARIABLES
    file,     \* the session's JSON
    deleted,  \* the session is in _deleted
    lock,     \* holder of the session's lock over several steps
    worker,   \* per thread: where it is and its copy of the session
    click,    \* per request: where it is and its copy of the session
    items,    \* Zotero items created per candidate
    cut,      \* per candidate: restarts after the Zotero commit, before the stamp
    restarts  \* restarts so far

vars == <<file, deleted, lock, worker, click, items, cut, restarts>>

Reviews == {"none", "light", "error", "deep"}

\* stamped: the candidates with a materialized_zotero_key.
Session == [status: {"absent", "screened", "reviewing", "reviewed", "error"},
            cands: SUBSET Candidates, stamped: SUBSET Candidates,
            review: [Candidates -> Reviews]]

NoSession == [status |-> "absent", cands |-> {}, stamped |-> {},
              review |-> [c \in Candidates |-> "none"]]

\* left: candidates of the band, or of the deep set, that are still to come.
Worker == [pc: {"off", "round", "saveround", "load", "light", "saveband", "deep",
                "savedeep", "savefinal", "fail", "over"},
           mem: Session, left: SUBSET Candidates, rounds: 0..MaxRounds]

Click == [pc: {"ready", "write", "stamp", "over"}, cand: Candidates, mem: Session]

\* A thread that has not started, or is over, has no copy.
Thread(pc) == [pc |-> pc, mem |-> NoSession, left |-> {}, rounds |-> 0]

Over(k) == [click EXCEPT ![k].pc = "over", ![k].mem = NoSession]

TypeOK ==
    /\ file \in Session
    /\ deleted \in BOOLEAN
    /\ lock \in Clicks \cup {Nobody}
    /\ worker \in [Workers -> Worker]
    /\ click \in [Clicks -> Click]
    /\ items \in [Candidates -> Nat]
    /\ cut \in [Candidates -> Nat]
    /\ restarts \in 0..MaxRestarts

\* run_screen saves a session under a new id.
Init ==
    /\ file = [NoSession EXCEPT !.status = "screened", !.cands = Screened]
    /\ deleted = FALSE
    /\ lock = Nobody
    /\ worker = [w \in Workers |-> Thread("off")]
    /\ click \in [Clicks -> [pc: {"ready"}, cand: Candidates, mem: {NoSession}]]
    /\ items = [c \in Candidates |-> 0]
    /\ cut = [c \in Candidates |-> 0]
    /\ restarts = 0

-----------------------------------------------------------------------------
(* The session's file.                                                     *)

Absent == file.status = "absent"

\* A slip: the lock is not taken.
AnyLock == TRUE

LockFree == lock = Nobody

\* session.save
Save(s) == file' = IF deleted THEN file ELSE s

\* A slip: the worker's copy is saved as it is.
Unmerged(mem) == mem

\* save_merge: stamps found in the file are taken over.
Merged(mem) == [mem EXCEPT !.stamped = @ \cup (file.stamped \cap mem.cands)]

\* The user deletes the session.
Delete ==
    /\ ~Absent
    /\ LockFree
    /\ deleted' = TRUE
    /\ file' = NoSession
    /\ UNCHANGED <<lock, worker, click, items, cut, restarts>>

-----------------------------------------------------------------------------
(* The review worker.                                                      *)

Only(w) == UNCHANGED <<deleted, lock, click, items, cut, restarts>>

Goto(w, pc) == worker' = [worker EXCEPT ![w].pc = pc]

Quit(w) == worker' = [worker EXCEPT ![w] = Thread("over")]

\* _kickoff_review: after the screening or on a click.
Claim(w) ==
    /\ worker[w].pc = "off"
    /\ LockFree
    /\ file.status = "screened"
    /\ Save([file EXCEPT !.status = "reviewing"])
    /\ Goto(w, "round")
    /\ Only(w)

\* run_agentic_rounds loads the session and goes through its rounds.
StartRounds(w) ==
    /\ worker[w].pc = "round" /\ worker[w].rounds = 0
    /\ worker[w].mem.status = "absent"
    /\ IF Absent THEN Goto(w, "fail")
       ELSE worker' = [worker EXCEPT ![w].mem = file]
    /\ UNCHANGED file
    /\ Only(w)

\* to_version_families: new candidates come in, ...
Joined(mem, more) == [mem EXCEPT !.cands = @ \cup more]

\* ... and of two that a new one shows to be one work the later goes, with its
\* stamp handed over.
Folded(mem, kept, gone) ==
    [mem EXCEPT !.cands = @ \ {gone},
                !.stamped = IF gone \in @ THEN (@ \ {gone}) \cup {kept} ELSE @]

Unions(mem) ==
    {Joined(mem, more) : more \in SUBSET (Candidates \ mem.cands)}
        \cup
    {Folded(mem, t[1], t[2]) : t \in Twins \cap (mem.cands \X mem.cands)}

Round(w) ==
    /\ worker[w].pc = "round"
    /\ worker[w].mem.status # "absent"
    /\ worker[w].rounds < MaxRounds
    /\ \E s \in Unions(worker[w].mem) :
          worker' = [worker EXCEPT ![w].pc = "saveround", ![w].mem = s,
                                   ![w].rounds = @ + 1]
    /\ UNCHANGED file
    /\ Only(w)

\* The rounds converge, are used up or are switched off.
EndRounds(w) ==
    /\ worker[w].pc = "round"
    /\ MaxRounds > 0 => worker[w].mem.status # "absent"
    /\ Goto(w, "load")
    /\ UNCHANGED file
    /\ Only(w)

\* run_review starts from the file.
Load(w) ==
    /\ worker[w].pc = "load"
    /\ IF Absent THEN Goto(w, "fail")
       ELSE \E band \in SUBSET file.cands :
               /\ Cardinality(band) = IF Cardinality(file.cands) < TopN
                                      THEN Cardinality(file.cands) ELSE TopN
               /\ worker' = [worker EXCEPT ![w].pc = "light", ![w].mem = file,
                                           ![w].left = band]
    /\ UNCHANGED file
    /\ Only(w)

\* One paper of the band; its failure stays with it.
Light(w, c) ==
    /\ worker[w].pc = "light"
    /\ c \in worker[w].left
    /\ IF deleted THEN Quit(w)
       ELSE \E r \in {"light", "error"} :
               worker' = [worker EXCEPT ![w].left = @ \ {c}, ![w].mem.review[c] = r]
    /\ UNCHANGED file
    /\ Only(w)

LightDone(w) ==
    /\ worker[w].pc = "light"
    /\ worker[w].left = {}
    /\ IF deleted THEN Quit(w) ELSE Goto(w, "saveband")
    /\ UNCHANGED file
    /\ Only(w)

\* One paper of the deep set; after an error of the light review it is
\* skipped.
Deep(w, c) ==
    /\ worker[w].pc = "deep"
    /\ c \in worker[w].left
    /\ \/ /\ deleted
          /\ Quit(w)
       \/ /\ ~deleted
          /\ worker[w].mem.review[c] = "error"
          /\ worker' = [worker EXCEPT ![w].left = @ \ {c}]
       \/ /\ ~deleted
          /\ worker[w].mem.review[c] # "error"
          /\ \E r \in {"deep", "error"} :
                worker' = [worker EXCEPT ![w].pc = "savedeep", ![w].left = @ \ {c},
                                         ![w].mem.review[c] = r]
    /\ UNCHANGED file
    /\ Only(w)

DeepDone(w) ==
    /\ worker[w].pc = "deep"
    /\ worker[w].left = {}
    /\ IF deleted THEN Quit(w)
       ELSE worker' = [worker EXCEPT ![w].pc = "savefinal", ![w].mem.status = "reviewed"]
    /\ UNCHANGED file
    /\ Only(w)

\* Where a save_merge leads; after the band the deep set is chosen.
AfterSave(w, pc, left) ==
    worker' = [worker EXCEPT ![w].pc = pc, ![w].left = left,
                             ![w].mem = IF deleted THEN @ ELSE Merged(@)]

SaveMerge(w) ==
    /\ LockFree
    /\ Save(Merged(worker[w].mem))
    /\ \/ /\ worker[w].pc = "saveround"
          /\ \E pc \in {"round", "load"} : AfterSave(w, pc, {})
       \/ /\ worker[w].pc = "saveband"
          /\ \E deep \in SUBSET worker[w].mem.cands :
                /\ Cardinality(deep) <= DeepSize
                /\ AfterSave(w, "deep", deep)
       \/ /\ worker[w].pc = "savedeep"
          /\ AfterSave(w, "deep", worker[w].left)
       \/ /\ worker[w].pc = "savefinal"
          /\ Quit(w)
    /\ Only(w)

\* Anything else that raises.
Raise(w) ==
    /\ worker[w].pc \in {"round", "saveround", "load", "light", "saveband", "deep",
                         "savedeep", "savefinal"}
    /\ Goto(w, "fail")
    /\ UNCHANGED file
    /\ Only(w)

\* A slip: the failure is only logged.
Unrecorded == file

Failed == [file EXCEPT !.status = "error"]

\* The failure goes to the session, if there still is one.
SaveError(w) ==
    /\ worker[w].pc = "fail"
    /\ LockFree
    /\ IF Absent THEN UNCHANGED file ELSE Save(Failed)
    /\ Quit(w)
    /\ Only(w)

-----------------------------------------------------------------------------
(* Adding a candidate to Zotero.                                           *)

ClickStep(k) == UNCHANGED <<deleted, worker, restarts>>

\* materialize_once takes the lock and looks for the candidate and its stamp.
Add(k) ==
    /\ click[k].pc = "ready"
    /\ LockFree
    /\ IF Absent \/ click[k].cand \notin file.cands \/ click[k].cand \in file.stamped
       THEN /\ click' = Over(k)
            /\ UNCHANGED lock
       ELSE /\ click' = [click EXCEPT ![k].pc = "write", ![k].mem = file]
            /\ lock' = k
    /\ UNCHANGED <<file, items, cut>>
    /\ ClickStep(k)

\* _do_write: an item the library has already is used again.
WriteItem(k) ==
    /\ click[k].pc = "write"
    /\ items' = IF click[k].cand \in InLibrary THEN items
                ELSE [items EXCEPT ![click[k].cand] = @ + 1]
    /\ click' = [click EXCEPT ![k].pc = "stamp"]
    /\ UNCHANGED <<file, lock, cut>>
    /\ ClickStep(k)

\* Zotero is locked: nothing is written, and the user may click again.
WriteFails(k) ==
    /\ click[k].pc = "write"
    /\ click' = Over(k)
    /\ lock' = Nobody
    /\ UNCHANGED <<file, items, cut>>
    /\ ClickStep(k)

Stamp(k) ==
    /\ click[k].pc = "stamp"
    /\ Save([click[k].mem EXCEPT !.stamped = @ \cup {click[k].cand}])
    /\ click' = Over(k)
    /\ lock' = Nobody
    /\ UNCHANGED <<items, cut>>
    /\ ClickStep(k)

-----------------------------------------------------------------------------
\* The server is restarted: threads, locks and _deleted are gone.
Restart ==
    /\ restarts < MaxRestarts
    /\ restarts' = restarts + 1
    /\ deleted' = FALSE
    /\ lock' = Nobody
    /\ worker' = [w \in Workers |->
                    Thread(IF worker[w].pc = "off" THEN "off" ELSE "over")]
    /\ click' = [k \in Clicks |->
                    IF click[k].pc = "ready" THEN click[k] ELSE Over(k)[k]]
    /\ cut' = [c \in Candidates |->
                 cut[c] + Cardinality({k \in Clicks : click[k].pc = "stamp" /\ click[k].cand = c})]
    /\ UNCHANGED <<file, items>>

WorkerStep(w) ==
    \/ StartRounds(w) \/ Round(w) \/ EndRounds(w) \/ Load(w) \/ LightDone(w)
    \/ DeepDone(w) \/ SaveMerge(w) \/ Raise(w) \/ SaveError(w)
    \/ \E c \in Candidates : Light(w, c) \/ Deep(w, c)

Next ==
    \/ Delete \/ Restart
    \/ \E w \in Workers : Claim(w) \/ WorkerStep(w)
    \/ \E k \in Clicks : Add(k) \/ WriteItem(k) \/ WriteFails(k) \/ Stamp(k)

Spec == Init /\ [][Next]_vars

\* The worker runs on and a request ends; searches, models and Zotero answer
\* or fail.
Fairness ==
    /\ \A w \in Workers : WF_vars(WorkerStep(w))
    /\ \A k \in Clicks : WF_vars(WriteItem(k) \/ WriteFails(k) \/ Stamp(k))

FairSpec == Spec /\ Fairness

-----------------------------------------------------------------------------
(* Properties.                                                             *)

\* Candidates that a union may fold into another; such a one may be found
\* again later, and then without its stamp.
Foldable == {t[2] : t \in Twins}

\* A candidate is filed into Zotero once, however many clicks and whatever
\* the worker saves meanwhile (materialize_once, save_merge); only a restart
\* between the Zotero commit and the stamp makes room for another item.
OneItemPerCandidate ==
    \A c \in Candidates \ Foldable : items[c] <= 1 + cut[c]

\* What the session's file says is not lost to somebody's older copy: as long
\* as a candidate is listed its stamp stays (save_merge) and its deep review
\* stays (materialize_once), and a review that is over is not under way again
\* (claim).
NothingSavedIsLost ==
    [][/\ file'.status # "absent" =>
            \A c \in file.cands \cap file'.cands :
                /\ c \in file.stamped => c \in file'.stamped
                /\ file.review[c] = "deep" => file'.review[c] = "deep"
       /\ file.status \in {"reviewed", "error"} =>
            file'.status \in {file.status, "absent"}]_vars

\* A review that started ends, reviewed or with an error, unless a restart
\* kills its worker (_review_worker).
ReviewEnds ==
    file.status = "reviewing" ~> (file.status # "reviewing" \/ restarts > 0)
=============================================================================
