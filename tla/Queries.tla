------------------------------- MODULE Queries -------------------------------
(***************************************************************************)
(* The two tools that only read: get_audit_log over read_audit, the last   *)
(* entries of the ledger, and list_reviews, the most recent reviews.       *)
(*                                                                         *)
(* A review carries the time it was created as now_iso writes it: as local *)
(* time with its offset from UTC.  list_reviews compares these as strings. *)
(***************************************************************************)
EXTENDS Lists

CONSTANTS
    ReviewIds,
    Torn            \* a ledger line that does not parse

ASSUME QueriesAssumption == Torn \notin ReviewIds

-----------------------------------------------------------------------------
(* get_audit_log *)

AnyReview == "any review"

\* A slice entries[start:]; a negative start counts from the end.
From(entries, start) ==
    LET first == IF start >= 0 THEN start
                 ELSE IF Len(entries) + start < 0 THEN 0 ELSE Len(entries) + start
    IN  SubSeq(entries, first + 1, Len(entries))

\* The lines that parse and are about the review, or all that parse.
Wanted(ledger, review_id) ==
    {i \in DOMAIN ledger : /\ ledger[i] # Torn
                           /\ review_id \in {AnyReview, ledger[i].review_id}}

\* Mutant: without the test of the limit.
read_audit_unguarded(ledger, review_id, limit) ==
    From(Picked(ledger, Wanted(ledger, review_id)), -limit)

read_audit(ledger, review_id, limit) ==
    LET entries == Picked(ledger, Wanted(ledger, review_id))
    IN  IF limit <= 0 THEN <<>> ELSE From(entries, -limit)

get_audit_log(ledger, review_id, limit) ==
    LET entries == read_audit(ledger, review_id, limit)
    IN  [count |-> Len(entries), entries |-> entries]

-----------------------------------------------------------------------------
(* list_reviews *)

AnyStatus == ""

\* The zone is a setting: how far local time is ahead of UTC before the clock is
\* changed, and after, and when, in UTC, that is.
TimeZones == [before : Int, after : Int, change : Int]

now_iso(zone, utc) ==
    LET offset == IF utc < zone.change THEN zone.before ELSE zone.after
    IN  [local |-> utc + offset, offset |-> offset]

\* The offset is the end of the string, and "+" is less than "-": an offset behind
\* UTC is greater than one that is not, and the further from UTC the greater.
GreaterOffset(offset, other) ==
    IF other < 0 THEN offset < other ELSE offset < 0 \/ offset > other

\* One time stamp is the greater string.
Greater(stamp, other) ==
    \/ stamp.local > other.local
    \/ stamp.local = other.local /\ GreaterOffset(stamp.offset, other.offset)

UpTo(reviews, limit) ==
    SubSeq(reviews, 1, IF limit < 0 THEN 0
                       ELSE IF limit < Len(reviews) THEN limit ELSE Len(reviews))

\* The sort keeps the order of the file among equals, also in reverse.
NewestFirst(zone, shelf, chosen) ==
    LET stamp(i) == now_iso(zone, shelf[i].created)
    IN  InOrder(chosen, LAMBDA i, j :
            \/ Greater(stamp(i), stamp(j))
            \/ stamp(i) = stamp(j) /\ i < j)

Chosen(shelf, status) == {i \in DOMAIN shelf : status \in {AnyStatus, shelf[i].status}}

\* Mutant: the list is cut off before it is sorted.
list_reviews_cut_first(zone, shelf, status, limit) ==
    NewestFirst(zone, shelf, {i \in Chosen(shelf, status) : i <= limit})

\* Which of the reviews in the file are listed, in which order.
list_reviews(zone, shelf, status, limit) ==
    UpTo(NewestFirst(zone, shelf, Chosen(shelf, status)), limit)
=============================================================================
