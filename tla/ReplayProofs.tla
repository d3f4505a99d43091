----------------------------- MODULE ReplayProofs -----------------------------
(***************************************************************************)
(* Lemmas about replay_reviews, for ledgers of every length: replaying one *)
(* event more is one ReplayStep more, what a tool does to a review is what *)
(* the replay of its event does, and mismatches finds every difference.    *)
(*                                                                         *)
(* replay_reviews is a fold.  That it has the value the fold is meant to   *)
(* have takes an induction over the length of the ledger; it is done on    *)
(* sets of numbers, by the least number for which a fact would fail.       *)
(***************************************************************************)
EXTENDS ReviewData, ListProofs

-----------------------------------------------------------------------------
(* The fold *)

NoneReplayed == [id \in Ids |-> NoReview]

\* The function the fold is computed by: f[s] replays the events at s.
Folds(f, events, n) ==
    f = [s \in SUBSET (1..n) |->
            IF s = {} THEN NoneReplayed
            ELSE ReplayStep(f[s \ {Max(s)}], events[Max(s)])]

FoldOf(events, n) == CHOOSE f : Folds(f, events, n)

\* replay_reviews is the value of such a function.
LEMMA ReplayIsFold ==
    ASSUME NEW events, NEW n, DOMAIN events = 1..n
    PROVE  replay_reviews(events) = FoldOf(events, n)[1..n]
  BY DEF replay_reviews, FoldLeft, MapThenFoldSet, FoldOf, Folds, NoneReplayed

\* There is one, for ledgers of every length.
LEMMA FoldExists ==
    ASSUME NEW events, NEW n \in Nat
    PROVE  Folds(FoldOf(events, n), events, n)
<1> DEFINE Without == {k \in Nat : ~ \E f : Folds(f, events, k)}
<1>1. SUFFICES Without = {}
  BY DEF FoldOf
<1>2. SUFFICES ASSUME Without # {} PROVE FALSE
  OBVIOUS
<1>3. PICK k \in Without : \A j \in Without : k <= j
  BY <1>2, LeastNumber
<1>4. CASE k = 0
  <2> DEFINE f == [s \in SUBSET (1..0) |-> NoneReplayed]
  <2>1. \A s \in SUBSET (1..0) : s = {}
    OBVIOUS
  <2>2. Folds(f, events, 0)
    BY <2>1 DEF Folds
  <2>3. QED
    BY <1>3, <1>4, <2>2
<1>5. CASE k # 0
  <2>1. k \in Nat /\ k - 1 \in Nat /\ k - 1 \notin Without
    BY <1>3, <1>5
  <2>2. PICK f : Folds(f, events, k - 1)
    BY <2>1
  <2> DEFINE g == [s \in SUBSET (1..k) |->
                      IF k \in s THEN ReplayStep(f[s \ {k}], events[k]) ELSE f[s]]
  <2>3. ASSUME NEW s \in SUBSET (1..k)
        PROVE  g[s] = IF s = {} THEN NoneReplayed
                      ELSE ReplayStep(g[s \ {Max(s)}], events[Max(s)])
    <3>1. CASE k \in s
      <4>1. Max(s) = k
        BY <2>1, <3>1, MaxIsBound
      <4>2. s \ {k} \in SUBSET (1..k) /\ k \notin s \ {k} /\ s # {}
        BY <3>1
      <4>3. g[s \ {k}] = f[s \ {k}]
        BY <4>2
      <4>4. g[s] = ReplayStep(f[s \ {k}], events[k])
        BY <3>1
      <4>5. QED
        BY <4>1, <4>2, <4>3, <4>4
    <3>2. CASE k \notin s
      <4>1. s \in SUBSET (1..(k - 1))
        BY <2>1, <3>2
      <4>2. f[s] = IF s = {} THEN NoneReplayed
                   ELSE ReplayStep(f[s \ {Max(s)}], events[Max(s)])
        BY <2>2, <4>1 DEF Folds
      <4>3. g[s] = f[s] /\ g[s \ {Max(s)}] = f[s \ {Max(s)}]
        BY <3>2
      <4>4. QED
        BY <4>2, <4>3
    <3>3. QED
      BY <3>1, <3>2
  <2>4. Folds(g, events, k)
    BY <2>3 DEF Folds
  <2>5. QED
    BY <1>3, <2>4
<1>6. QED
  BY <1>4, <1>5

\* What it is on the first events does not depend on those that follow.
LEMMA FoldLocal ==
    ASSUME NEW e, NEW f, NEW m \in Nat, NEW events, NEW g, NEW n \in Nat,
           Folds(f, e, m), Folds(g, events, n), m <= n,
           \A i \in 1..m : e[i] = events[i]
    PROVE  \A s \in SUBSET (1..m) : f[s] = g[s]
<1> DEFINE Differs == {k \in 0..m : \E s \in SUBSET (1..k) : f[s] # g[s]}
<1>1. SUFFICES Differs = {}
  <2>1. m \in 0..m
    OBVIOUS
  <2>2. QED
    BY <1>1, <2>1
<1>2. SUFFICES ASSUME Differs # {} PROVE FALSE
  OBVIOUS
<1>3. Differs \in SUBSET Nat
  OBVIOUS
<1>4. PICK k \in Differs : \A j \in Differs : k <= j
  BY <1>2, <1>3, LeastNumber
<1>5. PICK s \in SUBSET (1..k) : f[s] # g[s]
  BY <1>4
<1>6. k \in Nat /\ k <= m /\ s \in SUBSET (1..m) /\ s \in SUBSET (1..n)
  BY <1>4
<1>7. CASE s = {}
  BY <1>5, <1>6, <1>7 DEF Folds
<1>8. CASE s # {}
  <2>1. Max(s) \in 1..k /\ s \ {Max(s)} \in SUBSET (1..(Max(s) - 1))
    BY <1>6, <1>8, BelowMax
  <2>2. Max(s) - 1 \in 0..m /\ Max(s) - 1 < k /\ Max(s) \in 1..m
    BY <1>6, <2>1
  <2>3. \A t \in SUBSET (1..(Max(s) - 1)) : f[t] = g[t]
    <3> DEFINE j == Max(s) - 1
    <3>1. j \in 0..m /\ j < k
      BY <2>2
    <3> HIDE DEF j
    <3>2. j \notin Differs
      BY <1>4, <1>6, <3>1
    <3>3. \A t \in SUBSET (1..j) : f[t] = g[t]
      BY <3>1, <3>2
    <3>4. QED
      BY <3>3 DEF j
  <2>4. f[s \ {Max(s)}] = g[s \ {Max(s)}]
    BY <2>1, <2>3
  <2>5. e[Max(s)] = events[Max(s)]
    BY <2>2
  <2>6. f[s] = ReplayStep(f[s \ {Max(s)}], e[Max(s)])
    BY <1>6, <1>8 DEF Folds
  <2>7. g[s] = ReplayStep(g[s \ {Max(s)}], events[Max(s)])
    BY <1>6, <1>8 DEF Folds
  <2>8. QED
    BY <1>5, <2>4, <2>5, <2>6, <2>7
<1>9. QED
  BY <1>7, <1>8

-----------------------------------------------------------------------------
(* replay_reviews *)

\* An empty ledger replays to no review at all.
LEMMA ReplayEmpty == replay_reviews(<<>>) = NoneReplayed
<1>1. DOMAIN <<>> = 1..0
  BY EmptySeq, LenProperties
<1>2. Folds(FoldOf(<<>>, 0), <<>>, 0)
  BY FoldExists
<1>3. 1..0 \in SUBSET (1..0) /\ 1..0 = {}
  OBVIOUS
<1>4. FoldOf(<<>>, 0)[1..0] = NoneReplayed
  BY <1>2, <1>3 DEF Folds
<1>5. QED
  BY <1>1, <1>4, ReplayIsFold

\* An event more is one step more.
LEMMA ReplayAppend ==
    ASSUME NEW S, NEW events \in Seq(S), NEW c \in S
    PROVE  replay_reviews(Append(events, c)) =
               ReplayStep(replay_reviews(events), c)
<1> DEFINE n == Len(events)
           more == Append(events, c)
           f == FoldOf(events, n)
           g == FoldOf(more, n + 1)
<1>1. /\ n \in Nat /\ DOMAIN events = 1..n
      /\ more \in Seq(S) /\ Len(more) = n + 1 /\ more[n + 1] = c
      /\ \A i \in 1..n : more[i] = events[i]
  BY LenProperties, AppendProperties
<1>2. DOMAIN more = 1..(n + 1) /\ n + 1 \in Nat
  BY <1>1, LenProperties
<1> HIDE DEF n, more
<1>3. Folds(f, events, n) /\ Folds(g, more, n + 1)
  BY <1>1, <1>2, FoldExists
<1> HIDE DEF f, g
<1>4. f[1..n] = g[1..n]
  <2>1. n <= n + 1 /\ \A i \in 1..n : events[i] = more[i]
    BY <1>1
  <2>2. \A s \in SUBSET (1..n) : f[s] = g[s]
    BY <1>1, <1>2, <1>3, <2>1, FoldLocal
  <2>3. QED
    BY <2>2
<1>5. Max(1..(n + 1)) = n + 1
  <2>1. n + 1 \in 1..(n + 1)
    BY <1>1
  <2>2. QED
    BY <1>2, <2>1, MaxIsBound
<1>6. 1..(n + 1) # {} /\ 1..(n + 1) \ {n + 1} = 1..n
  <2>1. n \in Nat /\ n + 1 \in 1..(n + 1)
    BY <1>1
  <2>2. \A i \in Int : i \in 1..(n + 1) /\ i # n + 1 <=> i \in 1..n
    BY <2>1
  <2>3. QED
    BY <2>1, <2>2
<1>7. g[1..(n + 1)] = ReplayStep(g[1..n], c)
  <2>1. 1..(n + 1) \in SUBSET (1..(n + 1))
    OBVIOUS
  <2>2. g[1..(n + 1)] = ReplayStep(g[1..(n + 1) \ {n + 1}], more[n + 1])
    BY <1>3, <1>5, <1>6, <2>1 DEF Folds
  <2>3. QED
    BY <1>1, <1>6, <2>2
<1>8. replay_reviews(events) = f[1..n]
  BY <1>1, ReplayIsFold DEF f
<1>9. replay_reviews(more) = g[1..(n + 1)]
  BY <1>2, ReplayIsFold DEF g
<1>10. QED
  BY <1>4, <1>7, <1>8, <1>9 DEF more

-----------------------------------------------------------------------------
(* Types *)

Stored == [Ids -> Reviews \cup {NoReview}]

\* No review is the missing one.
LEMMA NoReviewIsNone == NoReview \notin Reviews
<1>1. \A r \in Reviews : "approver" \in DOMAIN r
  BY DEF Reviews
<1>2. "approver" \notin DOMAIN NoReview
  BY DEF NoReview
<1>3. QED
  BY <1>1, <1>2

\* What an event may carry.
LEMMA EventTypes ==
    ASSUME NEW c \in LedgerEvents
    PROVE  /\ c.review_id \in Ids
           /\ c.event \in {"reviewed", "attested", "approval_requested", "decided"}
           /\ c.event \in {"reviewed", "attested"} => c.grade \in Grades
           /\ c.event = "decided" =>
                  c.decision \in Decisions /\ c.approver \in Approvers
<1>1. PICK id \in Ids : c \in EventsOf(id)
  BY DEF LedgerEvents
<1>2. CASE c \in ReviewedEvents(id)
  BY <1>2, ReviewDataAssumption DEF ReviewedEvents, Event
<1>3. CASE c \in AttestedEvents(id)
  BY <1>3, ReviewDataAssumption DEF AttestedEvents, Event
<1>4. CASE c \in RequestedEvents(id)
  BY <1>4 DEF RequestedEvents, Event
<1>5. CASE c \in DecidedEvents(id)
  BY <1>5 DEF DecidedEvents, Event
<1>6. QED
  BY <1>1, <1>2, <1>3, <1>4, <1>5 DEF EventsOf

\* A tool makes a review of a review, and the replay of its event does.
LEMMA EntryType ==
    ASSUME NEW entry \in Reviews, NEW c \in LedgerEvents
    PROVE  ReplayEntry(entry, c) \in Reviews
<1>1. StatusOf(c.decision) \in Statuses
  BY DEF StatusOf, Statuses
<1>2. "reviewed" \in Statuses /\ "pending_approval" \in Statuses
  BY DEF Statuses
<1>3. CASE c.event = "reviewed"
  BY <1>2, <1>3, EventTypes DEF ReplayEntry, Reviews
<1>4. CASE c.event = "attested"
  BY <1>4, EventTypes DEF ReplayEntry, Reviews
<1>5. CASE c.event = "approval_requested"
  BY <1>2, <1>5 DEF ReplayEntry, Reviews
<1>6. CASE c.event = "decided"
  BY <1>1, <1>6, EventTypes DEF ReplayEntry, Reviews
<1>7. QED
  BY <1>3, <1>4, <1>5, <1>6, EventTypes

\* An entry is what the replay makes of an id it meets: blank the first time.
Entry(review) == IF review = NoReview THEN BlankReview ELSE review

\* Which is a review.
LEMMA EntryIsReview ==
    ASSUME NEW review \in Reviews \cup {NoReview}
    PROVE  Entry(review) \in Reviews
  BY DEF Entry, BlankReview, Reviews, Statuses

\* The writer and the replay agree: what a tool makes of the review it has read
\* is what the replay makes of its event (server.py and store.py:453-469 are two
\* programs for one function).
LEMMA ToolsAgreeWithReplay ==
    ASSUME NEW review \in Reviews \cup {NoReview}, NEW c \in LedgerEvents,
           c.event = "reviewed" <=> review = NoReview
    PROVE  ApplyCall(review, c) = ReplayEntry(Entry(review), c)
<1>1. CASE c.event = "reviewed"
  BY <1>1 DEF ApplyCall, ReplayEntry, Entry, BlankReview, new_review
<1>2. CASE c.event = "attested"
  BY <1>2 DEF ApplyCall, ReplayEntry, Entry, attest_closure, grade_outranks
<1>3. CASE c.event = "approval_requested"
  BY <1>3 DEF ApplyCall, ReplayEntry, Entry, request_approval
<1>4. CASE c.event = "decided"
  <2>1. review \in Reviews /\ Entry(review) = review
    BY <1>4 DEF Entry
  <2>2. QED
    BY <1>4, <2>1 DEF ApplyCall, ReplayEntry, approve, Reviews
<1>5. QED
  BY <1>1, <1>2, <1>3, <1>4, EventTypes

\* A step of the replay sets one review, and leaves the others.
LEMMA ReplayStepIs ==
    ASSUME NEW state \in Stored, NEW c \in LedgerEvents
    PROVE  /\ ReplayStep(state, c) \in Stored
           /\ ReplayStep(state, c)[c.review_id] =
                  ReplayEntry(Entry(state[c.review_id]), c)
           /\ ReplayEntry(Entry(state[c.review_id]), c) \in Reviews
           /\ \A id \in Ids \ {c.review_id} :
                  ReplayStep(state, c)[id] = state[id]
<1> DEFINE new == ReplayEntry(Entry(state[c.review_id]), c)
<1>1. c.review_id \in Ids
  BY EventTypes
<1>2. new \in Reviews
  BY <1>1, EntryIsReview, EntryType DEF Stored
<1>3. ReplayStep(state, c) = [state EXCEPT ![c.review_id] = new]
  BY DEF ReplayStep, Entry
<1> HIDE DEF new
<1>4. QED
  BY <1>1, <1>2, <1>3 DEF Stored, new

\* The replay of any ledger is a map of reviews.
LEMMA ReplayType ==
    ASSUME NEW events \in Seq(LedgerEvents)
    PROVE  replay_reviews(events) \in Stored
<1> DEFINE Bad == {n \in Nat : \E e \in Seq(LedgerEvents) :
                      Len(e) = n /\ replay_reviews(e) \notin Stored}
<1>1. SUFFICES Bad = {}
  BY LenProperties
<1>2. SUFFICES ASSUME Bad # {} PROVE FALSE
  OBVIOUS
<1>3. PICK k \in Bad : \A j \in Bad : k <= j
  BY <1>2, LeastNumber
<1>4. PICK e \in Seq(LedgerEvents) : Len(e) = k /\ replay_reviews(e) \notin Stored
  BY <1>3
<1>5. CASE k = 0
  <2>1. e = <<>>
    BY <1>4, <1>5, EmptySeq
  <2>2. NoneReplayed \in Stored
    BY DEF NoneReplayed, Stored
  <2>3. QED
    BY <1>4, <2>1, <2>2, ReplayEmpty
<1>6. CASE k # 0
  <2> DEFINE front == SubSeq(e, 1, k - 1)
             last == e[k]
  <2>1. k \in Nat /\ k - 1 \in Nat /\ k \in 1..Len(e)
    BY <1>3, <1>4, <1>6
  <2>2. last \in LedgerEvents
    BY <2>1, ElementOfSeq
  <2>3. \A i \in 1..(k - 1) : e[i] \in LedgerEvents
    BY <1>4, <2>1, ElementOfSeq
  <2>4. /\ front \in Seq(LedgerEvents) /\ Len(front) = k - 1
        /\ \A i \in 1..(k - 1) : front[i] = e[i]
    BY <2>1, <2>3, SubSeqProperties
  <2> HIDE DEF front, last
  <2>5. e = Append(front, last)
    <3>1. /\ Append(front, last) \in Seq(LedgerEvents)
          /\ Len(Append(front, last)) = k
          /\ \A i \in 1..(k - 1) : Append(front, last)[i] = e[i]
          /\ Append(front, last)[k] = e[k]
      BY <2>1, <2>2, <2>4, AppendProperties DEF last
    <3>2. \A i \in 1..k : Append(front, last)[i] = e[i]
      BY <2>1, <3>1
    <3>3. QED
      BY <1>4, <3>1, <3>2, SeqEqual
  <2>6. replay_reviews(front) \in Stored
    <3>1. k - 1 \notin Bad
      BY <1>3, <2>1
    <3>2. QED
      BY <2>1, <2>4, <3>1
  <2>7. replay_reviews(e) = ReplayStep(replay_reviews(front), last)
    BY <2>2, <2>4, <2>5, ReplayAppend
  <2>8. QED
    BY <1>4, <2>2, <2>6, <2>7, ReplayStepIs
<1>7. QED
  BY <1>5, <1>6

\* A ledger with one event more: its replay differs in the review of that event.
LEMMA ReplayGrows ==
    ASSUME NEW events \in Seq(LedgerEvents), NEW c \in LedgerEvents
    PROVE  LET old == replay_reviews(events)
               new == replay_reviews(Append(events, c))
           IN  /\ old \in Stored /\ new \in Stored
               /\ new[c.review_id] = ReplayEntry(Entry(old[c.review_id]), c)
               /\ new[c.review_id] \in Reviews
               /\ \A id \in Ids \ {c.review_id} : new[id] = old[id]
  BY ReplayType, ReplayAppend, ReplayStepIs

-----------------------------------------------------------------------------
(* mismatches *)

\* The comparison of reconcile_reviews, field by field, finds exactly the ids at
\* which the two maps differ.
LEMMA MismatchesAreDifferences ==
    ASSUME NEW stored \in Stored, NEW replayed \in Stored
    PROVE  mismatches(stored, replayed) =
               {id \in Ids : stored[id] # replayed[id]}
<1>1. ASSUME NEW r \in Reviews, NEW s \in Reviews
      PROVE  r # s <=> \E field \in {"status", "overall_grade", "decision",
                                      "approver"} : r[field] # s[field]
  BY <1>1 DEF Reviews
<1>2. \A id \in Ids : /\ stored[id] \in Reviews \cup {NoReview}
                     /\ replayed[id] \in Reviews \cup {NoReview}
  BY DEF Stored
<1>3. QED
  BY <1>1, <1>2, NoReviewIsNone DEF mismatches
=============================================================================
