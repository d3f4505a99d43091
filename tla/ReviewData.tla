------------------------------ MODULE ReviewData ------------------------------
(***************************************************************************)
(* What the review tools keep and record: the fields of a review that the  *)
(* ledger can speak to (store.py, REPLAYABLE_FIELDS), the ledger events of *)
(* the four recording tools, what each tool does to a review, and the      *)
(* replay that rebuilds the reviews from the events alone.                 *)
(***************************************************************************)
EXTENDS Grades, Sequences, SequencesExt

CONSTANTS
    Ids,            \* review ids
    Approvers,      \* who may decide ("unspecified" included)
    NoOne,          \* no approver recorded
    ReviewGrades,   \* overall grades review_diff computes
    ClosureGrades   \* grades attest_closure computes

ASSUME ReviewDataAssumption ==
    /\ NoOne \notin Approvers
    /\ ReviewGrades \subseteq Grades
    /\ ClosureGrades \subseteq Grades

Statuses == {"no status", "reviewed", "pending_approval", "approved", "rejected"}
Decisions == {"approve", "reject"}
NoDecision == "no decision"

Reviews == [status : Statuses, overall_grade : Grades \cup {NoGrade},
            decision : Decisions \cup {NoDecision},
            approver : Approvers \cup {NoOne}]

\* A review id that is not in the file, or not in the replayed state.
NoReview == [status |-> "missing"]

\* What replay_reviews starts an id from when it first meets it.
BlankReview == [status |-> "no status", overall_grade |-> NoGrade,
                decision |-> NoDecision, approver |-> NoOne]

-----------------------------------------------------------------------------
(* The ledger events.  A tool call is identified with the event it writes. *)

Event(kind, id, grade, decision, approver) ==
    [event |-> kind, review_id |-> id, grade |-> grade,
     decision |-> decision, approver |-> approver]

ReviewedEvents(id) ==
    {Event("reviewed", id, g, NoDecision, NoOne) : g \in ReviewGrades}
AttestedEvents(id) ==
    {Event("attested", id, g, NoDecision, NoOne) : g \in ClosureGrades}
RequestedEvents(id) ==
    {Event("approval_requested", id, NoGrade, NoDecision, NoOne)}
DecidedEvents(id) ==
    {Event("decided", id, NoGrade, d, a) : d \in Decisions, a \in Approvers}

EventsOf(id) ==
    ReviewedEvents(id) \cup AttestedEvents(id) \cup RequestedEvents(id)
        \cup DecidedEvents(id)
LedgerEvents == UNION {EventsOf(id) : id \in Ids}

StatusOf(decision) == IF decision = "approve" THEN "approved" ELSE "rejected"

-----------------------------------------------------------------------------
(* What the tools make of the review they read *)

new_review(call) ==
    [status |-> "reviewed", overall_grade |-> call.grade,
     decision |-> NoDecision, approver |-> NoOne]

\* Mutant: the closure grade replaces the review's.
attest_closure_overwrites(review, call) ==
    [review EXCEPT !.overall_grade = call.grade]

attest_closure(review, call) ==
    IF grade_rank(call.grade) > grade_rank(review.overall_grade)
    THEN [review EXCEPT !.overall_grade = call.grade]
    ELSE review

request_approval(review, call) == [review EXCEPT !.status = "pending_approval"]

\* Mutant: decision and approver are passed in the wrong order.
approve_swapped(review, call) ==
    [review EXCEPT !.decision = call.approver, !.approver = call.decision,
                   !.status = StatusOf(call.decision)]

\* Mutant: a second decision changes the status, but not the record of the first.
approve_once(review, call) ==
    [review EXCEPT !.decision = IF @ = NoDecision THEN call.decision ELSE @,
                   !.approver = IF @ = NoOne THEN call.approver ELSE @,
                   !.status = StatusOf(call.decision)]

approve(review, call) ==
    [review EXCEPT !.decision = call.decision, !.approver = call.approver,
                   !.status = StatusOf(call.decision)]

ApplyCall(review, call) ==
    CASE call.event = "reviewed" -> new_review(call)
      [] call.event = "attested" -> attest_closure(review, call)
      [] call.event = "approval_requested" -> request_approval(review, call)
      [] call.event = "decided" -> approve(review, call)

-----------------------------------------------------------------------------
(* replay_reviews: the same state, rebuilt from the ledger *)

\* Mutant: a decision that is replayed leaves the status as it was.
ReplayEntryKeepsStatus(entry, rec) ==
    CASE rec.event = "reviewed" ->
            [entry EXCEPT !.status = "reviewed", !.overall_grade = rec.grade]
      [] rec.event = "attested" ->
            IF grade_outranks(rec.grade, entry.overall_grade)
            THEN [entry EXCEPT !.overall_grade = rec.grade]
            ELSE entry
      [] rec.event = "approval_requested" ->
            [entry EXCEPT !.status = "pending_approval"]
      [] rec.event = "decided" ->
            [entry EXCEPT !.decision = rec.decision, !.approver = rec.approver]

ReplayEntry(entry, rec) ==
    CASE rec.event = "reviewed" ->
            [entry EXCEPT !.status = "reviewed", !.overall_grade = rec.grade]
      [] rec.event = "attested" ->
            IF grade_outranks(rec.grade, entry.overall_grade)
            THEN [entry EXCEPT !.overall_grade = rec.grade]
            ELSE entry
      [] rec.event = "approval_requested" ->
            [entry EXCEPT !.status = "pending_approval"]
      [] rec.event = "decided" ->
            [entry EXCEPT !.decision = rec.decision, !.approver = rec.approver,
                          !.status = StatusOf(rec.decision)]

ReplayStep(state, rec) ==
    LET id == rec.review_id
        entry == IF state[id] = NoReview THEN BlankReview ELSE state[id]
    IN  [state EXCEPT ![id] = ReplayEntry(entry, rec)]

replay_reviews(events) ==
    FoldLeft(ReplayStep, [id \in Ids |-> NoReview], events)

-----------------------------------------------------------------------------
(* reconcile_reviews: the ids with a disagreement.  A field is compared     *)
(* unless neither side ever set it.                                        *)

\* Mutant: an id that only one of the files knows is skipped.
mismatches_of_known(stored, replayed) ==
    {id \in Ids : /\ stored[id] # NoReview /\ replayed[id] # NoReview
                  /\ stored[id] # replayed[id]}

mismatches(stored, replayed) ==
    {id \in Ids :
        \/ (stored[id] = NoReview) # (replayed[id] = NoReview)
        \/ /\ stored[id] # NoReview /\ replayed[id] # NoReview
           /\ \E field \in {"status", "overall_grade", "decision", "approver"} :
                  stored[id][field] # replayed[id][field]}
=============================================================================
