-------------------------------- MODULE Reviews --------------------------------
(***************************************************************************)
(* The recording tools of server.py over the two files of store.py:        *)
(* review_diff, attest_closure, request_approval and approve each read a   *)
(* review, save it into reviews.json under the reviews lock, and only then *)
(* append an event to the audit ledger.  Nothing makes the two writes one. *)
(*                                                                         *)
(* A worker is whatever runs these handlers one at a time: the server is   *)
(* one worker, since no handler awaits anything between its read and its   *)
(* append; threads, or a second process on the same volume, are more.      *)
(* attest_closure starts here where its scan and its KEV lookup are done.  *)
(*                                                                         *)
(* The ledger is the abstract one of AuditLog, which Ledger implements: an *)
(* append adds one event or, when the ledger is sealed, is refused.        *)
(*                                                                         *)
(* verify_ledger reconciles the two files, in a process of its own that    *)
(* takes neither lock: it loads reviews.json and then replays the ledger.  *)
(***************************************************************************)
EXTENDS ReviewData

CONSTANTS
    Workers,
    Nobody,         \* holder of a free lock
    Failures,       \* which of FailureKinds may happen
    MaxCalls,       \* bound on tool calls
    MaxFailures,    \* bound on failures
    MaxSeals        \* bound on the times the ledger is sealed or unsealed

\* "save": reviews.json cannot be written.  "append": the append raises, before
\* or after its line is on the disk.  "crash": the worker is killed.  "read":
\* _load_reviews hits an OSError or a file that does not parse, and returns {}.
\* "power": the power fails; a ledger line is synced, reviews.json is not.
FailureKinds == {"save", "append", "crash", "read", "power"}

ASSUME ReviewsAssumption ==
    /\ Nobody \notin Workers
    /\ Failures \subseteq FailureKinds
    /\ MaxCalls \in Nat /\ MaxFailures \in Nat /\ MaxSeals \in Nat

VARIABLES
    reviews,    \* reviews.json: the review of every id, or NoReview
    durable,    \* the reviews.json a power loss cannot take away any more
    rlock,      \* holder of the flock on reviews.lock
    log,        \* the events in the audit ledger
    sealed,     \* the ledger refuses appends
    pc,         \* where each worker is in its handler
    call,       \* the tool call each worker is serving
    mine,       \* the review each worker has read and changed
    loaded,     \* the map each worker has loaded inside upsert_review
    stored,     \* what a reconciliation has loaded, or NotLoaded
    busy,       \* history: ids called on, or saved, during that reconciliation
    alone,      \* history: each worker's call has overlapped no other on its id
    troubled,   \* history: ids of calls that were cut short or that overlapped
    settled,    \* history: each id's last call, if an undisturbed decision
    calls,      \* number of tool calls
    failures,   \* number of failures
    seals       \* number of times sealed changed

files == <<reviews, durable, rlock, log, sealed>>
verifier == <<stored, busy>>
history == <<alone, troubled, settled>>
counters == <<calls, failures, seals>>
vars == <<reviews, durable, rlock, log, sealed, pc, call, mine, loaded, stored,
          busy, alone, troubled, settled, calls, failures, seals>>

Nothing == [id \in Ids |-> NoReview]
NotLoaded == [id \in {} |-> NoReview]
Idle == [event |-> "idle"]
Calls == LedgerEvents \cup {Idle}

Init ==
    /\ reviews = Nothing
    /\ durable = Nothing
    /\ rlock = Nobody
    /\ log = <<>>
    /\ sealed = FALSE
    /\ pc = [w \in Workers |-> "idle"]
    /\ call = [w \in Workers |-> Idle]
    /\ mine = [w \in Workers |-> NoReview]
    /\ loaded = [w \in Workers |-> Nothing]
    /\ stored = NotLoaded
    /\ busy = {}
    /\ alone = [w \in Workers |-> TRUE]
    /\ troubled = {}
    /\ settled = [id \in Ids |-> Idle]
    /\ calls = 0
    /\ failures = 0
    /\ seals = 0

Step(w, from, to) == pc[w] = from /\ pc' = [pc EXCEPT ![w] = to]

\* The handler is over, with a reply or without one.
Finish(w, from) ==
    /\ Step(w, from, "idle")
    /\ call' = [call EXCEPT ![w] = Idle]
    /\ mine' = [mine EXCEPT ![w] = NoReview]
    /\ loaded' = [loaded EXCEPT ![w] = Nothing]

Serving(id) == {w \in Workers : pc[w] # "idle" /\ call[w].review_id = id}

Failure(kind) ==
    /\ kind \in Failures
    /\ failures < MaxFailures
    /\ failures' = failures + 1
    /\ UNCHANGED <<calls, seals>>

Trouble(ids) ==
    /\ troubled' = troubled \cup ids
    /\ UNCHANGED <<alone, settled>>

-----------------------------------------------------------------------------
(* The handlers *)

\* A call comes in.  review_diff draws an id nobody has used.  Input that is
\* refused outright (INVALID_INPUT) changes nothing and is left out.  Two calls
\* on one review at the same time overlap: neither is undisturbed any more.
Call(w, c) ==
    /\ calls < MaxCalls
    /\ calls' = calls + 1
    /\ Step(w, "idle", IF c.event = "reviewed" THEN "lock" ELSE "get")
    /\ c.event = "reviewed" =>
           /\ reviews[c.review_id] = NoReview
           /\ Serving(c.review_id) = {}
           /\ \A i \in DOMAIN log : log[i].review_id # c.review_id
    /\ call' = [call EXCEPT ![w] = c]
    /\ mine' = [mine EXCEPT ![w] =
                    IF c.event = "reviewed" THEN new_review(c) ELSE NoReview]
    /\ LET others == Serving(c.review_id) IN
       /\ alone' = [u \in Workers |->
                       IF u = w THEN others = {} ELSE alone[u] /\ u \notin others]
       /\ troubled' = troubled \cup (IF others = {} THEN {} ELSE {c.review_id})
    /\ settled' = [settled EXCEPT ![c.review_id] = Idle]
    /\ busy' = IF stored = NotLoaded THEN {} ELSE busy \cup {c.review_id}
    /\ UNCHANGED <<files, loaded, stored, failures, seals>>

\* get_review finds the review; the handler changes its own copy.
Get(w) ==
    LET review == reviews[call[w].review_id] IN
    /\ Step(w, "get", "lock")
    /\ review # NoReview
    /\ mine' = [mine EXCEPT ![w] = ApplyCall(review, call[w])]
    /\ UNCHANGED <<files, call, loaded, history, counters>>

\* get_review finds nothing: NOT_FOUND.
GetNotFound(w) ==
    /\ Finish(w, "get")
    /\ reviews[call[w].review_id] = NoReview
    /\ UNCHANGED <<files, history, counters>>

\* Mutant: upsert_review without the lock.
SharedLock == TRUE

\* flock(LOCK_EX) on reviews.lock is granted.
LockFree == rlock = Nobody

\* upsert_review takes the lock and loads the map ...
LockAndLoad(w) ==
    /\ Step(w, "lock", "save")
    /\ LockFree
    /\ rlock' = w
    /\ loaded' = [loaded EXCEPT ![w] = reviews]
    /\ UNCHANGED <<reviews, durable, log, sealed, call, mine, history, counters>>

\* Mutant: the map that was loaded is not saved back.
UpsertedAlone(w) == [Nothing EXCEPT ![call[w].review_id] = mine[w]]

Upserted(w) == [loaded[w] EXCEPT ![call[w].review_id] = mine[w]]

\* ... replaces the one review in it, saves it and unlocks.  Whether the file it
\* replaces is on the disk by then is up to the kernel: nothing is synced.
Save(w) ==
    /\ Step(w, "save", "append")
    /\ reviews' = Upserted(w)
    /\ durable' \in {durable} \cup (IF "power" \in Failures THEN {reviews} ELSE {})
    /\ rlock' = Nobody
    /\ UNCHANGED <<log, sealed, call, mine, loaded, history, counters>>

\* append_audit records the event and the tool answers.
AppendEvent(w) ==
    /\ Finish(w, "append")
    /\ ~sealed
    /\ log' = Append(log, call[w])
    /\ settled' = IF call[w].event = "decided" /\ alone[w]
                  THEN [settled EXCEPT ![call[w].review_id] = call[w]]
                  ELSE settled
    /\ UNCHANGED <<reviews, durable, rlock, sealed, alone, troubled, counters>>

-----------------------------------------------------------------------------
(* What may go wrong *)

\* append_audit refuses: the tool answers INTERNAL.
AppendRefused(w) ==
    /\ Finish(w, "append")
    /\ sealed
    /\ Trouble({call[w].review_id})
    /\ UNCHANGED <<files, counters>>

\* append_audit raises before its line is on the disk: INTERNAL.
AppendLost(w) ==
    /\ Failure("append")
    /\ Finish(w, "append")
    /\ ~sealed
    /\ Trouble({call[w].review_id})
    /\ UNCHANGED files

\* append_audit raises after its line is on the disk: INTERNAL as well, and if
\* a key is configured the ledger is sealed from then on.
AppendUnconfirmed(w) ==
    /\ Failure("append")
    /\ Finish(w, "append")
    /\ ~sealed
    /\ log' = Append(log, call[w])
    /\ sealed' \in BOOLEAN
    /\ UNCHANGED <<reviews, durable, rlock, history>>

\* Mutant: no finally, the lock stays taken.
KeepLock == UNCHANGED rlock

Unlock == rlock' = Nobody

\* Mutant: the error is swallowed and the handler goes on.
SaveFailsUnnoticed(w) ==
    /\ Failure("save")
    /\ Step(w, "save", "append")
    /\ Unlock
    /\ UNCHANGED <<reviews, durable, log, sealed, call, mine, loaded, history>>

\* _save_reviews raises; the lock is freed, the file is as it was.  INTERNAL.
SaveFails(w) ==
    /\ Failure("save")
    /\ Finish(w, "save")
    /\ Unlock
    /\ UNCHANGED <<reviews, durable, log, sealed, history>>

\* _load_reviews takes a file it cannot read for an empty one, once in
\* get_review, which then finds nothing, ...
GetUnreadable(w) ==
    /\ Failure("read")
    /\ Finish(w, "get")
    /\ UNCHANGED <<files, history>>

\* ... and once in upsert_review, which then saves a map of one review.
LoadUnreadable(w) ==
    /\ Failure("read")
    /\ Step(w, "lock", "save")
    /\ LockFree
    /\ rlock' = w
    /\ loaded' = [loaded EXCEPT ![w] = Nothing]
    /\ Trouble({id \in Ids : reviews[id] # NoReview})
    /\ UNCHANGED <<reviews, durable, log, sealed, call, mine>>

\* The worker is killed; the kernel drops its lock.
Crash(w) ==
    /\ Failure("crash")
    /\ pc[w] # "idle"
    /\ Finish(w, pc[w])
    /\ rlock' = IF rlock = w THEN Nobody ELSE rlock
    /\ IF pc[w] = "append" THEN Trouble({call[w].review_id})
       ELSE UNCHANGED history
    /\ UNCHANGED <<reviews, durable, log, sealed>>

\* The power fails: every process is gone, and reviews.json is the last one
\* saved, one that was synced, or a file that does not parse.  The ledger keeps
\* every line, but may be sealed from then on (its sidecar is not synced either).
PowerLoss ==
    /\ Failure("power")
    /\ reviews' \in {reviews} \cup
                      (IF durable = reviews THEN {} ELSE {durable, Nothing})
    /\ durable' = reviews'
    /\ sealed' \in {sealed, TRUE}
    /\ rlock' = Nobody
    /\ pc' = [w \in Workers |-> "idle"]
    /\ call' = [w \in Workers |-> Idle]
    /\ mine' = [w \in Workers |-> NoReview]
    /\ loaded' = [w \in Workers |-> Nothing]
    /\ stored' = NotLoaded
    /\ busy' = {}
    /\ Trouble({id \in Ids :
                   \/ reviews'[id] # reviews[id]
                   \/ \E w \in Serving(id) : pc[w] = "append"})
    /\ UNCHANGED log

\* The operator configures a key over an unsigned ledger, or adopts it.
SealOrUnseal ==
    /\ seals < MaxSeals
    /\ seals' = seals + 1
    /\ sealed' = ~sealed
    /\ UNCHANGED <<reviews, durable, rlock, log, pc, call, mine, loaded, verifier,
                   history, calls, failures>>

-----------------------------------------------------------------------------
(* reconcile_reviews *)

Load(reviews_json, ids) ==
    /\ stored = NotLoaded
    /\ stored' = reviews_json
    /\ busy' = ids
    /\ UNCHANGED <<files, pc, call, mine, loaded, history>>

VerifyLoad ==
    /\ Load(reviews, {id \in Ids : Serving(id) # {}})
    /\ UNCHANGED counters

\* The file cannot be read: every review in the ledger counts as missing.
VerifyLoadUnreadable ==
    /\ Failure("read")
    /\ Load(Nothing, Ids)

VerifyReplay ==
    /\ stored # NotLoaded
    /\ stored' = NotLoaded
    /\ busy' = {}
    /\ UNCHANGED <<files, pc, call, mine, loaded, history, counters>>

-----------------------------------------------------------------------------

HandlerStep(w) ==
    /\ \/ Get(w) \/ GetNotFound(w) \/ LockAndLoad(w) \/ Save(w)
       \/ AppendEvent(w) \/ AppendRefused(w)
    /\ UNCHANGED stored
    /\ busy' = IF stored = NotLoaded THEN {}
               ELSE busy \cup {id \in Ids : reviews'[id] # reviews[id]}

HandlerFails(w) ==
    /\ \/ AppendLost(w) \/ AppendUnconfirmed(w) \/ SaveFails(w)
       \/ GetUnreadable(w) \/ LoadUnreadable(w) \/ Crash(w)
    /\ UNCHANGED verifier

Next ==
    \/ \E w \in Workers :
           \/ \E c \in LedgerEvents : Call(w, c)
           \/ HandlerStep(w)
           \/ HandlerFails(w)
    \/ SealOrUnseal \/ PowerLoss
    \/ VerifyLoad \/ VerifyLoadUnreadable \/ VerifyReplay

Spec == Init /\ [][Next]_vars

\* A handler that was started keeps running; flock serves every waiter.
FairSpec ==
    /\ Spec
    /\ \A w \in Workers :
           /\ WF_vars(HandlerStep(w))
           /\ SF_vars(LockAndLoad(w) /\ UNCHANGED verifier)

-----------------------------------------------------------------------------
(* Properties *)

PCs == {"idle", "get", "lock", "save", "append"}

\* Every variable stays in its type.
TypeOK ==
    /\ reviews \in [Ids -> Reviews \cup {NoReview}]
    /\ durable \in [Ids -> Reviews \cup {NoReview}]
    /\ rlock \in Workers \cup {Nobody}
    /\ log \in Seq(LedgerEvents)
    /\ sealed \in BOOLEAN
    /\ pc \in [Workers -> PCs]
    /\ call \in [Workers -> Calls]
    /\ mine \in [Workers -> Reviews \cup {NoReview}]
    /\ loaded \in [Workers -> [Ids -> Reviews \cup {NoReview}]]
    /\ stored \in [Ids -> Reviews \cup {NoReview}] \cup {NotLoaded}
    /\ busy \subseteq Ids
    /\ alone \in [Workers -> BOOLEAN]
    /\ troubled \subseteq Ids
    /\ settled \in [Ids -> Calls]
    /\ calls \in Nat /\ failures \in Nat /\ seals \in Nat

\* reviews.json is, review by review, what replaying the ledger rebuilds
\* (reconcile_reviews finds no mismatch), except for reviews a call is working
\* on and those of calls that overlapped or were cut between the two writes.
AgreesUnlessTroubled ==
    \A id \in Ids : id \notin troubled /\ Serving(id) = {} =>
        reviews[id] = replay_reviews(log)[id]

\* The ledger never speaks of a review that reviews.json does not hold, whatever
\* fails and whoever is killed: the save comes before the append.
LedgerNeverAhead == \A i \in DOMAIN log : reviews[log[i].review_id] # NoReview

Shows(review, decided) ==
    /\ review.decision = decided.decision
    /\ review.approver = decided.approver
    /\ review.status = StatusOf(decided.decision)

\* A decision whose call returned and overlapped no other is in both files, with
\* its approver and the status that goes with it, whatever befell the review
\* before, until the next call on that review.
SettledDecision ==
    \A id \in Ids : settled[id].event = "decided" =>
        Shows(reviews[id], settled[id]) /\ Shows(replay_reviews(log)[id], settled[id])

\* In the ledger it outlives whatever becomes of reviews.json (it cannot be read,
\* is overwritten, is undone by a power loss) and whatever happened to the review
\* before, calls that were cut short included, as long as the ledger keeps what it
\* has: an unkeyed ledger with a torn line does not (Ledger, AckedInLedger).
SettledInLedger ==
    \A id \in Ids : settled[id].event = "decided" =>
        Shows(replay_reviews(log)[id], settled[id])

\* A reconciliation tells, for every review nothing was done to meanwhile, whether
\* the two files disagree about it; and they do only if a call on it was cut short
\* or overlapped, or reviews.json could not be read or was undone by a power loss.
ReconcileTells ==
    [][VerifyReplay => \A id \in Ids \ busy :
           LET reported == id \in mismatches(stored, replay_reviews(log)) IN
           /\ reported <=> reviews[id] # replay_reviews(log)[id]
           /\ reported => id \in troubled]_vars

\* upsert_review inserts or replaces one review: two writers at once never erase
\* or roll back each other's reviews (its docstring, store.py:149-154).
SavesOneReview ==
    [][\E id \in Ids : \A other \in Ids \ {id} :
           reviews'[other] = reviews[other]]_vars

\* An attestation "only ever escalates the grade; it never lowers one"
\* (store.py:457-458).
AttestNeverLowers ==
    [][\A w \in Workers : Save(w) /\ call[w].event = "attested" =>
           LET id == call[w].review_id IN
           ~grade_outranks(reviews[id].overall_grade,
                           reviews'[id].overall_grade)]_vars

\* The handlers read a review without the lock and write it back whole.  A call
\* that overlapped no other on its review still saves what its tool makes of the
\* review as the file holds it by then, whatever others write between the read and
\* the save; and it neither replaces a review by a new one nor revives one.
AloneSavesCurrent ==
    [][\A w \in Workers : Save(w) /\ alone[w] =>
           LET id == call[w].review_id IN
           /\ reviews[id] = NoReview <=> call[w].event = "reviewed"
           /\ reviews'[id] = ApplyCall(reviews[id], call[w])]_vars

\* When the ledger refuses the event, the tool "returns an INTERNAL error
\* instead of writing" (README.md:127): the review is what it was before.
RefusedCallWritesNothing ==
    [][\A w \in Workers : AppendRefused(w) =>
           LET id == call[w].review_id IN reviews[id] = loaded[w][id]]_vars

\* Every call is answered: no handler waits for the lock or hangs for ever.
CallsReturn == \A w \in Workers : pc[w] # "idle" ~> pc[w] = "idle"

\* With one worker and no failure the two writes are one step of the gate, taken
\* when the event is appended: until then the view shows the review as it was.
View ==
    [id \in Ids |->
        IF \E w \in Workers : pc[w] = "append" /\ call[w].review_id = id
        THEN loaded[CHOOSE w \in Workers :
                        pc[w] = "append" /\ call[w].review_id = id][id]
        ELSE reviews[id]]
Gate == INSTANCE ReviewGate WITH view <- View
ImplementsGate == Gate!Spec

\* At every moment the view is exactly what replaying the ledger rebuilds, so a
\* reconciliation run between two calls reports nothing (store.py:472-530).
GateReconciled == Gate!Reconciled
=============================================================================
