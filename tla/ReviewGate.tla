------------------------------ MODULE ReviewGate ------------------------------
(***************************************************************************)
(* What the gate promises: every recorded tool call changes its review and *)
(* enters the ledger in one step, so the reviews are at all times what the *)
(* ledger says they are.                                                   *)
(***************************************************************************)
EXTENDS ReviewData

VARIABLES
    view,       \* the reviews, as the tools answer about them
    log         \* the events of the ledger

vars == <<view, log>>

Init ==
    /\ view = [id \in Ids |-> NoReview]
    /\ log = <<>>

\* Only a new review may be recorded for an id that is not known, and only
\* for such an id.
Commit(call) ==
    /\ (view[call.review_id] = NoReview) <=> (call.event = "reviewed")
    /\ view' = [view EXCEPT ![call.review_id] = ApplyCall(@, call)]
    /\ log' = Append(log, call)

Next == \E call \in LedgerEvents : Commit(call)

Spec == Init /\ [][Next]_vars

\* verify_ledger's reconciliation finds nothing.
Reconciled == view = replay_reviews(log)
=============================================================================
