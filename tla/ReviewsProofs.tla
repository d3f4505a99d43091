----------------------------- MODULE ReviewsProofs -----------------------------
(***************************************************************************)
(* Theorems about Reviews for every set of workers, ids, approvers and     *)
(* grades, and for any number of calls, failures and seals.                *)
(***************************************************************************)
EXTENDS Reviews, ReplayProofs

-----------------------------------------------------------------------------
(* Types *)

\* What a worker holds where it is: a tool call, and once it has read its review
\* the review it will save.  Only review_diff makes a review it has not read.
Holds(w) ==
    /\ pc[w] # "idle" => call[w] \in LedgerEvents
    /\ pc[w] = "get" => call[w].event # "reviewed"
    /\ pc[w] \in {"lock", "save", "append"} => mine[w] \in Reviews

TypeInv == TypeOK /\ \A w \in Workers : Holds(w)

\* What a call makes of a review it has found, and review_diff of none.
LEMMA ApplyCallType ==
    ASSUME NEW review \in Reviews \cup {NoReview}, NEW c \in LedgerEvents,
           c.event = "reviewed" <=> review = NoReview
    PROVE  ApplyCall(review, c) \in Reviews
  BY ToolsAgreeWithReplay, EntryIsReview, EntryType

\* new_review makes a review.
LEMMA NewReviewType ==
    ASSUME NEW c \in LedgerEvents, c.event = "reviewed"
    PROVE  /\ new_review(c) \in Reviews
           /\ new_review(c) = ReplayEntry(BlankReview, c)
<1>1. new_review(c) \in Reviews
  BY EventTypes DEF new_review, Reviews, Statuses
<1>2. new_review(c) = ReplayEntry(BlankReview, c)
  BY DEF new_review, ReplayEntry, BlankReview
<1>3. QED
  BY <1>1, <1>2

\* The map with no review in it is a map of reviews.
LEMMA NothingType == Nothing \in [Ids -> Reviews \cup {NoReview}]
  BY DEF Nothing

\* Before the first call every variable has its type.
LEMMA InitTypes == Init => TypeInv
<1> SUFFICES ASSUME Init PROVE TypeInv
  OBVIOUS
<1>1. <<>> \in Seq(LedgerEvents)
  BY EmptySeq
<1>2. Idle \in Calls
  BY DEF Calls
<1>3. TypeOK
  BY <1>1, <1>2, NothingType DEF Init, TypeOK, PCs
<1>4. \A w \in Workers : Holds(w)
  BY DEF Init, Holds
<1>5. QED
  BY <1>3, <1>4 DEF TypeInv

\* The end of a handler, whichever way it ends, leaves its worker idle.
LEMMA FinishTypes ==
    ASSUME TypeInv, NEW w \in Workers, NEW from, Finish(w, from)
    PROVE  /\ pc' \in [Workers -> PCs] /\ pc'[w] = "idle"
           /\ call' \in [Workers -> Calls]
           /\ mine' \in [Workers -> Reviews \cup {NoReview}]
           /\ loaded' \in [Workers -> [Ids -> Reviews \cup {NoReview}]]
           /\ \A u \in Workers : Holds(u)'
           /\ \A u \in Workers \ {w} : /\ pc'[u] = pc[u] /\ call'[u] = call[u]
                                       /\ mine'[u] = mine[u]
                                       /\ loaded'[u] = loaded[u]
<1>1. /\ pc' = [pc EXCEPT ![w] = "idle"]
      /\ call' = [call EXCEPT ![w] = Idle]
      /\ mine' = [mine EXCEPT ![w] = NoReview]
      /\ loaded' = [loaded EXCEPT ![w] = Nothing]
  BY DEF Finish, Step
<1>2. /\ pc \in [Workers -> PCs] /\ call \in [Workers -> Calls]
      /\ mine \in [Workers -> Reviews \cup {NoReview}]
      /\ loaded \in [Workers -> [Ids -> Reviews \cup {NoReview}]]
  BY DEF TypeInv, TypeOK
<1>3. Idle \in Calls /\ "idle" \in PCs
  BY DEF Calls, PCs
<1>4. /\ pc' \in [Workers -> PCs] /\ pc'[w] = "idle"
      /\ call' \in [Workers -> Calls]
      /\ mine' \in [Workers -> Reviews \cup {NoReview}]
      /\ loaded' \in [Workers -> [Ids -> Reviews \cup {NoReview}]]
  BY <1>1, <1>2, <1>3, NothingType
<1>5. \A u \in Workers \ {w} : /\ pc'[u] = pc[u] /\ call'[u] = call[u]
                               /\ mine'[u] = mine[u] /\ loaded'[u] = loaded[u]
  BY <1>1, <1>2
<1>6. \A u \in Workers : Holds(u)'
  BY <1>4, <1>5 DEF TypeInv, Holds
<1>7. QED
  BY <1>4, <1>5, <1>6

\* A call that comes in keeps the types: its worker holds it from here on.
LEMMA CallTypes ==
    ASSUME TypeInv, NEW w \in Workers, NEW c \in LedgerEvents, Call(w, c)
    PROVE  TypeInv'
<1>1. c.review_id \in Ids
  BY EventTypes
<1>2. c \in Calls /\ Idle \in Calls
  BY DEF Calls
<1>3. c.event = "reviewed" => new_review(c) \in Reviews
  BY NewReviewType
<1>4. pc' \in [Workers -> PCs]
  BY DEF TypeInv, TypeOK, Call, Step, PCs
<1>5. mine' \in [Workers -> Reviews \cup {NoReview}]
  BY <1>3 DEF TypeInv, TypeOK, Call
<1>6. call' \in [Workers -> Calls] /\ settled' \in [Ids -> Calls]
  BY <1>1, <1>2 DEF TypeInv, TypeOK, Call
<1>7. busy' \subseteq Ids /\ troubled' \subseteq Ids /\ alone' \in [Workers -> BOOLEAN]
  <2>1. \A x : x \in busy' => x \in Ids
    BY <1>1 DEF TypeInv, TypeOK, Call
  <2>2. \A x : x \in troubled' => x \in Ids
    BY <1>1 DEF TypeInv, TypeOK, Call
  <2> DEFINE others == Serving(c.review_id)
  <2>3. alone' = [u \in Workers |->
                     IF u = w THEN others = {} ELSE alone[u] /\ u \notin others]
    BY DEF Call
  <2>4. \A u \in Workers : (IF u = w THEN others = {} ELSE alone[u] /\ u \notin others)
                               \in BOOLEAN
    OBVIOUS
  <2>5. alone' \in [Workers -> BOOLEAN]
    BY <2>3, <2>4
  <2>6. QED
    BY <2>1, <2>2, <2>5
<1>8. calls' \in Nat
  BY DEF TypeInv, TypeOK, Call
<1>9. TypeOK'
  BY <1>4, <1>5, <1>6, <1>7, <1>8 DEF TypeInv, TypeOK, Call, files
<1>10. \A u \in Workers : Holds(u)'
  BY <1>3 DEF TypeInv, TypeOK, Holds, Call, Step, PCs
<1>11. QED
  BY <1>9, <1>10 DEF TypeInv

\* So do the steps of a handler ...
LEMMA HandlerTypes ==
    ASSUME TypeInv, NEW w \in Workers, HandlerStep(w)
    PROVE  TypeInv'
<1> DEFINE id == call[w].review_id
<1>1. Idle \in Calls /\ PCs = {"idle", "get", "lock", "save", "append"}
  BY DEF Calls, PCs
<1>2. busy' \subseteq Ids /\ stored' = stored
  BY DEF TypeInv, TypeOK, HandlerStep
<1>3. ASSUME pc[w] # "idle" PROVE call[w] \in LedgerEvents /\ id \in Ids
  BY <1>3, EventTypes DEF TypeInv, Holds
<1>4. CASE Get(w)
  <2>1. pc[w] = "get" /\ reviews[id] # NoReview
    BY <1>4 DEF Get, Step
  <2>2. reviews[id] \in Reviews /\ call[w].event # "reviewed"
    BY <1>3, <2>1 DEF TypeInv, TypeOK, Holds
  <2>3. ApplyCall(reviews[id], call[w]) \in Reviews
    BY <1>3, <2>1, <2>2, ApplyCallType
  <2>4. mine' \in [Workers -> Reviews \cup {NoReview}] /\ mine'[w] \in Reviews
    BY <1>4, <2>3 DEF TypeInv, TypeOK, Get
  <2>5. pc' \in [Workers -> PCs]
    BY <1>1, <1>4 DEF TypeInv, TypeOK, Get, Step
  <2>6. TypeOK'
    BY <1>2, <1>4, <2>4, <2>5 DEF TypeInv, TypeOK, Get, files, history, counters
  <2>7. \A u \in Workers : Holds(u)'
    BY <1>4, <2>1, <2>4 DEF TypeInv, TypeOK, Holds, Get, Step
  <2>8. QED
    BY <2>6, <2>7 DEF TypeInv
<1>5. CASE GetNotFound(w)
  <2>1. Finish(w, "get")
    BY <1>5 DEF GetNotFound
  <2>2. TypeOK'
    BY <1>2, <1>5, <2>1, FinishTypes
    DEF TypeInv, TypeOK, GetNotFound, files, history, counters
  <2>3. QED
    BY <2>1, <2>2, FinishTypes DEF TypeInv
<1>6. CASE LockAndLoad(w)
  <2>1. pc' \in [Workers -> PCs]
    BY <1>1, <1>6 DEF TypeInv, TypeOK, LockAndLoad, Step
  <2>2. TypeOK'
    BY <1>2, <1>6, <2>1 DEF TypeInv, TypeOK, LockAndLoad, history, counters
  <2>3. \A u \in Workers : Holds(u)'
    BY <1>6 DEF TypeInv, TypeOK, Holds, LockAndLoad, Step
  <2>4. QED
    BY <2>2, <2>3 DEF TypeInv
<1>7. CASE Save(w)
  <2>1. pc' \in [Workers -> PCs] /\ pc[w] = "save"
    BY <1>1, <1>7 DEF TypeInv, TypeOK, Save, Step
  <2>2. reviews' \in [Ids -> Reviews \cup {NoReview}]
    BY <1>3, <1>7, <2>1 DEF TypeInv, TypeOK, Holds, Save, Upserted
  <2>3. durable' \in {durable, reviews}
    BY <1>7 DEF Save
  <2>4. TypeOK'
    BY <1>2, <1>7, <2>1, <2>2, <2>3 DEF TypeInv, TypeOK, Save, history, counters
  <2>5. \A u \in Workers : Holds(u)'
    BY <1>7 DEF TypeInv, TypeOK, Holds, Save, Step
  <2>6. QED
    BY <2>4, <2>5 DEF TypeInv
<1>8. CASE AppendEvent(w)
  <2>1. Finish(w, "append") /\ pc[w] = "append"
    BY <1>8 DEF AppendEvent, Finish, Step
  <2>2. log' \in Seq(LedgerEvents)
    BY <1>3, <1>8, <2>1, AppendProperties DEF TypeInv, TypeOK, AppendEvent
  <2>3. call[w] \in Calls
    BY <1>3, <2>1 DEF Calls
  <2>4. settled' \in [Ids -> Calls]
    BY <1>3, <1>8, <2>1, <2>3 DEF TypeInv, TypeOK, AppendEvent
  <2>5. TypeOK'
    BY <1>2, <1>8, <2>1, <2>2, <2>4, FinishTypes
    DEF TypeInv, TypeOK, AppendEvent, counters
  <2>6. QED
    BY <2>1, <2>5, FinishTypes DEF TypeInv
<1>9. CASE AppendRefused(w)
  <2>1. Finish(w, "append") /\ pc[w] = "append"
    BY <1>9 DEF AppendRefused, Finish, Step
  <2>2. troubled' \subseteq Ids
    BY <1>3, <1>9, <2>1 DEF TypeInv, TypeOK, AppendRefused, Trouble
  <2>3. TypeOK'
    BY <1>2, <1>9, <2>1, <2>2, FinishTypes
    DEF TypeInv, TypeOK, AppendRefused, Trouble, files, counters
  <2>4. QED
    BY <2>1, <2>3, FinishTypes DEF TypeInv
<1>10. QED
  BY <1>4, <1>5, <1>6, <1>7, <1>8, <1>9 DEF HandlerStep

\* ... and all the ways in which it may fail.
LEMMA FailureTypes ==
    ASSUME TypeInv, NEW w \in Workers, HandlerFails(w)
    PROVE  TypeInv'
<1> DEFINE id == call[w].review_id
<1>1. PCs = {"idle", "get", "lock", "save", "append"}
  BY DEF PCs
<1>2. busy' = busy /\ stored' = stored
  BY DEF HandlerFails, verifier
<1>3. ASSUME pc[w] # "idle" PROVE call[w] \in LedgerEvents /\ id \in Ids
  BY <1>3, EventTypes DEF TypeInv, Holds
<1>4. CASE AppendLost(w)
  <2>1. Finish(w, "append") /\ pc[w] = "append"
    BY <1>4 DEF AppendLost, Finish, Step
  <2>2. TypeOK'
    BY <1>2, <1>3, <1>4, <2>1, FinishTypes
    DEF TypeInv, TypeOK, AppendLost, Trouble, Failure, files
  <2>3. QED
    BY <2>1, <2>2, FinishTypes DEF TypeInv
<1>5. CASE AppendUnconfirmed(w)
  <2>1. Finish(w, "append") /\ pc[w] = "append"
    BY <1>5 DEF AppendUnconfirmed, Finish, Step
  <2>2. log' \in Seq(LedgerEvents)
    BY <1>3, <1>5, <2>1, AppendProperties DEF TypeInv, TypeOK, AppendUnconfirmed
  <2>3. TypeOK'
    BY <1>2, <1>5, <2>1, <2>2, FinishTypes
    DEF TypeInv, TypeOK, AppendUnconfirmed, Failure, history
  <2>4. QED
    BY <2>1, <2>3, FinishTypes DEF TypeInv
<1>6. CASE SaveFails(w)
  <2>1. Finish(w, "save")
    BY <1>6 DEF SaveFails
  <2>2. TypeOK'
    BY <1>2, <1>6, <2>1, FinishTypes
    DEF TypeInv, TypeOK, SaveFails, Unlock, Failure, history
  <2>3. QED
    BY <2>1, <2>2, FinishTypes DEF TypeInv
<1>7. CASE GetUnreadable(w)
  <2>1. Finish(w, "get")
    BY <1>7 DEF GetUnreadable
  <2>2. TypeOK'
    BY <1>2, <1>7, <2>1, FinishTypes
    DEF TypeInv, TypeOK, GetUnreadable, Failure, files, history
  <2>3. QED
    BY <2>1, <2>2, FinishTypes DEF TypeInv
<1>8. CASE LoadUnreadable(w)
  <2>1. pc' \in [Workers -> PCs]
    BY <1>1, <1>8 DEF TypeInv, TypeOK, LoadUnreadable, Step
  <2>2. loaded' \in [Workers -> [Ids -> Reviews \cup {NoReview}]]
    BY <1>8, NothingType DEF TypeInv, TypeOK, LoadUnreadable
  <2>3. troubled' \subseteq Ids /\ alone' = alone /\ settled' = settled
    BY <1>8 DEF TypeInv, TypeOK, LoadUnreadable, Trouble
  <2>4. /\ UNCHANGED <<reviews, durable, log, sealed, call, mine, calls, seals>>
        /\ rlock' = w /\ failures' = failures + 1
    BY <1>8 DEF LoadUnreadable, Failure
  <2>5. TypeOK'
    BY <1>2, <2>1, <2>2, <2>3, <2>4 DEF TypeInv, TypeOK
  <2>6. \A u \in Workers : Holds(u)'
    BY <1>8 DEF TypeInv, TypeOK, Holds, LoadUnreadable, Step
  <2>7. QED
    BY <2>5, <2>6 DEF TypeInv
<1>9. CASE Crash(w)
  <2>1. Finish(w, pc[w]) /\ pc[w] # "idle"
    BY <1>9 DEF Crash
  <2>2. troubled' \subseteq Ids /\ alone' = alone /\ settled' = settled
    BY <1>3, <1>9, <2>1 DEF TypeInv, TypeOK, Crash, Trouble, history
  <2>3. TypeOK'
    BY <1>2, <1>9, <2>1, <2>2, FinishTypes DEF TypeInv, TypeOK, Crash, Failure
  <2>4. QED
    BY <2>1, <2>3, FinishTypes DEF TypeInv
<1>10. QED
  BY <1>4, <1>5, <1>6, <1>7, <1>8, <1>9 DEF HandlerFails

\* And so does whatever else happens to the files.
LEMMA NextTypes == TypeInv /\ [Next]_vars => TypeInv'
<1> SUFFICES ASSUME TypeInv, [Next]_vars PROVE TypeInv'
  OBVIOUS
<1>1. ASSUME NEW w \in Workers, NEW c \in LedgerEvents, Call(w, c)
      PROVE  TypeInv'
  BY <1>1, CallTypes
<1>2. ASSUME NEW w \in Workers, HandlerStep(w) PROVE TypeInv'
  BY <1>2, HandlerTypes
<1>3. ASSUME NEW w \in Workers, HandlerFails(w) PROVE TypeInv'
  BY <1>3, FailureTypes
<1>4. CASE SealOrUnseal
  <2>1. TypeOK'
    BY <1>4 DEF TypeInv, TypeOK, SealOrUnseal, verifier, history
  <2>2. \A w \in Workers : Holds(w)'
    BY <1>4 DEF TypeInv, Holds, SealOrUnseal
  <2>3. QED
    BY <2>1, <2>2 DEF TypeInv
<1>5. CASE PowerLoss
  <2>1. Idle \in Calls /\ "idle" \in PCs
    BY DEF Calls, PCs
  <2>2. reviews' \in {reviews, durable, Nothing} /\ durable' = reviews'
    BY <1>5 DEF PowerLoss
  <2>3. troubled' \subseteq Ids /\ alone' = alone /\ settled' = settled
    <3>1. PICK ids \in SUBSET Ids : Trouble(ids)
      BY <1>5 DEF PowerLoss
    <3>2. QED
      BY <3>1 DEF TypeInv, TypeOK, Trouble
  <2>4. /\ pc' = [w \in Workers |-> "idle"] /\ call' = [w \in Workers |-> Idle]
        /\ mine' = [w \in Workers |-> NoReview]
        /\ loaded' = [w \in Workers |-> Nothing]
        /\ stored' = NotLoaded /\ busy' = {} /\ rlock' = Nobody /\ log' = log
        /\ failures' = failures + 1 /\ calls' = calls /\ seals' = seals
    BY <1>5 DEF PowerLoss, Failure
  <2>5. TypeOK'
    <3>1. /\ pc' \in [Workers -> PCs] /\ call' \in [Workers -> Calls]
          /\ mine' \in [Workers -> Reviews \cup {NoReview}]
          /\ loaded' \in [Workers -> [Ids -> Reviews \cup {NoReview}]]
      BY <2>1, <2>4, NothingType
    <3>2. reviews' \in [Ids -> Reviews \cup {NoReview}] /\ durable' = reviews'
      BY <2>2, NothingType DEF TypeInv, TypeOK
    <3>3. sealed' \in BOOLEAN
      BY <1>5 DEF TypeInv, TypeOK, PowerLoss
    <3>4. QED
      BY <2>3, <2>4, <3>1, <3>2, <3>3 DEF TypeInv, TypeOK
  <2>6. \A w \in Workers : Holds(w)'
    BY <2>4 DEF Holds
  <2>7. QED
    BY <2>5, <2>6 DEF TypeInv
<1>6. CASE VerifyLoad \/ VerifyLoadUnreadable \/ VerifyReplay
  <2>1. /\ UNCHANGED <<files, pc, call, mine, loaded, history>>
        /\ stored' \in {reviews, Nothing, NotLoaded} /\ busy' \subseteq Ids
    BY <1>6 DEF VerifyLoad, VerifyLoadUnreadable, VerifyReplay, Load
  <2>2. calls' = calls /\ failures' \in {failures, failures + 1} /\ seals' = seals
    BY <1>6 DEF VerifyLoad, VerifyLoadUnreadable, VerifyReplay, Failure, counters
  <2>3. TypeOK'
    BY <2>1, <2>2, NothingType DEF TypeInv, TypeOK, files, history
  <2>4. \A w \in Workers : Holds(w)'
    BY <2>1 DEF TypeInv, Holds
  <2>5. QED
    BY <2>3, <2>4 DEF TypeInv
<1>7. CASE UNCHANGED vars
  <2>1. TypeOK'
    BY <1>7 DEF TypeInv, TypeOK, vars
  <2>2. \A w \in Workers : Holds(w)'
    BY <1>7 DEF TypeInv, Holds, vars
  <2>3. QED
    BY <2>1, <2>2 DEF TypeInv
<1>8. QED
  BY <1>1, <1>2, <1>3, <1>4, <1>5, <1>6, <1>7 DEF Next

\* The reviews, the events and what the workers hold keep their types.
THEOREM ReviewsTypeCorrect == Spec => []TypeOK
<1>1. Spec => []TypeInv
  BY InitTypes, NextTypes, PTL DEF Spec
<1>2. TypeInv => TypeOK
  BY DEF TypeInv
<1>3. QED
  BY <1>1, <1>2, PTL

-----------------------------------------------------------------------------
(* Overlaps *)

\* Of two calls on one review at the same time neither is alone, and the review
\* is troubled.
OverlapsTell ==
    \A u, w \in Workers :
        /\ u # w /\ pc[u] # "idle" /\ pc[w] # "idle"
        /\ call[u].review_id = call[w].review_id
        => ~alone[u] /\ call[u].review_id \in troubled

\* Only a call that comes in starts a handler; every other step leaves each
\* worker the call it has or ends it, and troubles no review less.
LEMMA OnlyCallsStart ==
    ASSUME TypeInv, [Next]_vars,
           \A w \in Workers, c \in LedgerEvents : ~Call(w, c)
    PROVE  /\ \A u \in Workers :
                  pc'[u] # "idle" => pc[u] # "idle" /\ call'[u] = call[u]
           /\ alone' = alone
           /\ troubled \subseteq troubled'
<1> DEFINE Goes ==
        \A u \in Workers : pc'[u] # "idle" => pc[u] # "idle" /\ call'[u] = call[u]
<1>1. ASSUME NEW w \in Workers, HandlerStep(w)
      PROVE  Goes /\ alone' = alone /\ troubled \subseteq troubled'
  <2>1. CASE Get(w) \/ LockAndLoad(w) \/ Save(w)
    BY <2>1 DEF TypeInv, TypeOK, Get, LockAndLoad, Save, Step, history
  <2>2. CASE GetNotFound(w) \/ AppendEvent(w) \/ AppendRefused(w)
    <3>1. PICK from : Finish(w, from)
      BY <2>2 DEF GetNotFound, AppendEvent, AppendRefused
    <3>2. Goes
      BY <3>1, FinishTypes
    <3>3. alone' = alone /\ troubled \subseteq troubled'
      BY <2>2 DEF GetNotFound, AppendEvent, AppendRefused, Trouble, history
    <3>4. QED
      BY <3>2, <3>3
  <2>3. QED
    BY <1>1, <2>1, <2>2 DEF HandlerStep
<1>2. ASSUME NEW w \in Workers, HandlerFails(w)
      PROVE  Goes /\ alone' = alone /\ troubled \subseteq troubled'
  <2>1. CASE LoadUnreadable(w)
    BY <2>1 DEF TypeInv, TypeOK, LoadUnreadable, Step, Trouble
  <2>2. CASE \/ AppendLost(w) \/ AppendUnconfirmed(w) \/ SaveFails(w)
             \/ GetUnreadable(w) \/ Crash(w)
    <3>1. PICK from : Finish(w, from)
      BY <2>2 DEF AppendLost, AppendUnconfirmed, SaveFails, GetUnreadable, Crash
    <3>2. Goes
      BY <3>1, FinishTypes
    <3>3. alone' = alone /\ troubled \subseteq troubled'
      BY <2>2 DEF AppendLost, AppendUnconfirmed, SaveFails, GetUnreadable, Crash,
                  Trouble, history
    <3>4. QED
      BY <3>2, <3>3
  <2>3. QED
    BY <1>2, <2>1, <2>2 DEF HandlerFails
<1>3. CASE SealOrUnseal
  BY <1>3 DEF SealOrUnseal, history
<1>4. CASE PowerLoss
  BY <1>4 DEF PowerLoss, Trouble
<1>5. CASE VerifyLoad \/ VerifyLoadUnreadable \/ VerifyReplay
  BY <1>5 DEF VerifyLoad, VerifyLoadUnreadable, VerifyReplay, Load, history
<1>6. CASE UNCHANGED vars
  BY <1>6 DEF vars
<1>7. QED
  BY <1>1, <1>2, <1>3, <1>4, <1>5, <1>6 DEF Next

\* A call comes in: what it changes for the others.
LEMMA CallStarts ==
    ASSUME TypeInv, NEW w \in Workers, NEW c \in LedgerEvents, Call(w, c)
    PROVE  /\ pc[w] = "idle" /\ call'[w] = c
           /\ pc'[w] = IF c.event = "reviewed" THEN "lock" ELSE "get"
           /\ \A u \in Workers \ {w} : /\ pc'[u] = pc[u] /\ call'[u] = call[u]
                                       /\ mine'[u] = mine[u]
           /\ \A u \in Workers : alone'[u] =>
                  /\ u # w => alone[u] /\ u \notin Serving(c.review_id)
                  /\ u = w => Serving(c.review_id) = {}
           /\ troubled \subseteq troubled'
           /\ Serving(c.review_id) # {} => c.review_id \in troubled'
<1>1. /\ pc[w] = "idle" /\ call'[w] = c
      /\ pc'[w] = IF c.event = "reviewed" THEN "lock" ELSE "get"
      /\ \A u \in Workers \ {w} : /\ pc'[u] = pc[u] /\ call'[u] = call[u]
                                  /\ mine'[u] = mine[u]
  BY DEF TypeInv, TypeOK, Call, Step
<1>2. alone' = [u \in Workers |->
                   IF u = w THEN Serving(c.review_id) = {}
                   ELSE alone[u] /\ u \notin Serving(c.review_id)]
  BY DEF Call
<1>3. \A u \in Workers : alone'[u] =>
          /\ u # w => alone[u] /\ u \notin Serving(c.review_id)
          /\ u = w => Serving(c.review_id) = {}
  BY <1>2, Zenon
<1>4. /\ troubled \subseteq troubled'
      /\ Serving(c.review_id) # {} => c.review_id \in troubled'
  BY DEF Call
<1>5. QED
  BY <1>1, <1>3, <1>4

\* A call that comes in upon another one makes them both overlap, and they do not
\* cease to until they end.
LEMMA OverlapsStep == TypeInv /\ OverlapsTell /\ [Next]_vars => OverlapsTell'
<1> SUFFICES ASSUME TypeInv, OverlapsTell, [Next]_vars,
                    NEW u \in Workers, NEW v \in Workers,
                    u # v, pc'[u] # "idle", pc'[v] # "idle",
                    call'[u].review_id = call'[v].review_id
             PROVE  ~alone'[u] /\ call'[u].review_id \in troubled'
  BY DEF OverlapsTell
<1>1. ASSUME NEW w \in Workers, NEW c \in LedgerEvents, Call(w, c)
      PROVE  ~alone'[u] /\ call'[u].review_id \in troubled'
  <2>1. CASE u = w
    <3>1. v \in Serving(c.review_id)
      BY <1>1, <2>1, CallStarts DEF Serving
    <3>2. QED
      BY <1>1, <2>1, <3>1, CallStarts
  <2>2. CASE v = w
    <3>1. u \in Serving(c.review_id)
      BY <1>1, <2>2, CallStarts DEF Serving
    <3>2. QED
      BY <1>1, <2>2, <3>1, CallStarts DEF Serving
  <2>3. CASE u # w /\ v # w
    BY <1>1, <2>3, CallStarts DEF OverlapsTell
  <2>4. QED
    BY <2>1, <2>2, <2>3
<1>2. CASE \A w \in Workers, c \in LedgerEvents : ~Call(w, c)
  BY <1>2, OnlyCallsStart DEF OverlapsTell
<1>3. QED
  BY <1>1, <1>2

-----------------------------------------------------------------------------
(* Decisions in the ledger *)

\* A worker that finishes serves no review any more; nobody else changes.
LEMMA ServingShrinks ==
    ASSUME TypeInv, [Next]_vars,
           \A w \in Workers, c \in LedgerEvents : ~Call(w, c),
           NEW id
    PROVE  /\ Serving(id)' \subseteq Serving(id)
           /\ \A w \in Serving(id)' : call'[w] = call[w]
  BY OnlyCallsStart DEF Serving

\* A call that comes in serves its own review, and no other one.
LEMMA CallServes ==
    ASSUME TypeInv, NEW w \in Workers, NEW c \in LedgerEvents, Call(w, c)
    PROVE  /\ \A id : id # c.review_id => Serving(id)' = Serving(id)
           /\ Serving(c.review_id)' = Serving(c.review_id) \cup {w}
<1>1. ASSUME NEW id, NEW u, u # w PROVE u \in Serving(id)' <=> u \in Serving(id)
  BY <1>1, CallStarts DEF Serving
<1>2. \A id : w \notin Serving(id)
  BY CallStarts DEF Serving
<1>3. \A id : w \in Serving(id)' <=> id = c.review_id
  BY CallStarts DEF Serving
<1>4. QED
  BY <1>1, <1>2, <1>3

\* The ledger only grows, and by the event of a worker that then is done.
LEMMA LogSteps ==
    ASSUME TypeInv, [Next]_vars, log' # log
    PROVE  \E w \in Workers :
               /\ AppendEvent(w) \/ AppendUnconfirmed(w)
               /\ ~sealed
               /\ pc[w] = "append" /\ pc'[w] = "idle"
               /\ call[w] \in LedgerEvents
               /\ log' = Append(log, call[w])
<1>1. PICK w \in Workers : AppendEvent(w) \/ AppendUnconfirmed(w)
  BY DEF Next, vars, Call, HandlerStep, HandlerFails, SealOrUnseal, PowerLoss,
         VerifyLoad, VerifyLoadUnreadable, VerifyReplay, Load, Get, GetNotFound,
         LockAndLoad, Save, AppendRefused, AppendLost, SaveFails, GetUnreadable,
         LoadUnreadable, Crash, files
<1>2. Finish(w, "append") /\ ~sealed /\ log' = Append(log, call[w])
  BY <1>1 DEF AppendEvent, AppendUnconfirmed
<1>3. pc[w] = "append" /\ pc'[w] = "idle"
  BY <1>2, FinishTypes DEF Finish, Step
<1>4. call[w] \in LedgerEvents
  BY <1>3 DEF TypeInv, Holds
<1>5. QED
  BY <1>1, <1>2, <1>3, <1>4

\* Only a call that comes in and an append that returns change what is settled.
LEMMA SettledSteps ==
    ASSUME [Next]_vars, settled' # settled
    PROVE  \E w \in Workers :
               (\E c \in LedgerEvents : Call(w, c)) \/ AppendEvent(w)
  BY DEF Next, vars, Call, HandlerStep, HandlerFails, SealOrUnseal, PowerLoss,
         VerifyLoad, VerifyLoadUnreadable, VerifyReplay, Load, Get, GetNotFound,
         LockAndLoad, Save, AppendRefused, AppendLost, AppendUnconfirmed,
         SaveFails, GetUnreadable, LoadUnreadable, Crash, Trouble, history

\* A decision that is replayed shows in the review.
LEMMA DecisionShows ==
    ASSUME NEW entry \in Reviews, NEW c \in LedgerEvents, c.event = "decided"
    PROVE  Shows(ReplayEntry(entry, c), c)
<1>1. ReplayEntry(entry, c) =
          [entry EXCEPT !.decision = c.decision, !.approver = c.approver,
                        !.status = StatusOf(c.decision)]
  BY DEF ReplayEntry
<1>2. QED
  BY <1>1 DEF Shows, Reviews

\* While a decision is settled no call on its review is under way, and the ledger
\* shows it.
SettledRests ==
    \A id \in Ids : settled[id].event = "decided" =>
        Serving(id) = {} /\ Shows(replay_reviews(log)[id], settled[id])

\* Whoever is served settles nothing, and what is settled is replayed.
LEMMA SettledStep ==
    TypeInv /\ OverlapsTell /\ SettledRests /\ [Next]_vars => SettledRests'
<1> SUFFICES ASSUME TypeInv, OverlapsTell, SettledRests, [Next]_vars,
                    NEW id \in Ids, settled'[id].event = "decided"
             PROVE  /\ Serving(id)' = {}
                    /\ Shows(replay_reviews(log')[id], settled'[id])
  BY DEF SettledRests, Shows
<1>1. ASSUME NEW w \in Workers, NEW c \in LedgerEvents, Call(w, c)
      PROVE  /\ Serving(id)' = {}
             /\ Shows(replay_reviews(log')[id], settled'[id])
  <2>1. log' = log /\ settled' = [settled EXCEPT ![c.review_id] = Idle]
    BY <1>1 DEF Call, files
  <2>2. c.review_id # id
    BY <2>1 DEF TypeInv, TypeOK, Idle
  <2>3. settled'[id] = settled[id]
    BY <2>1, <2>2 DEF TypeInv, TypeOK
  <2>4. Serving(id)' = {}
    BY <1>1, <2>2, <2>3, CallServes DEF SettledRests
  <2>5. QED
    BY <2>1, <2>3, <2>4 DEF SettledRests
<1>2. ASSUME NEW w \in Workers, AppendEvent(w) \/ AppendUnconfirmed(w)
      PROVE  /\ Serving(id)' = {}
             /\ Shows(replay_reviews(log')[id], settled'[id])
  <2> DEFINE mine_id == call[w].review_id
  <2>1. Finish(w, "append") /\ log' = Append(log, call[w])
    BY <1>2 DEF AppendEvent, AppendUnconfirmed
  <2>2. pc[w] = "append" /\ call[w] \in LedgerEvents /\ mine_id \in Ids
    BY <2>1, EventTypes DEF Finish, Step, TypeInv, Holds
  <2>3. w \in Serving(mine_id)
    BY <2>2 DEF Serving
  <2>4. \A u \in Workers : pc'[u] # "idle" =>
            u # w /\ pc[u] # "idle" /\ call'[u] = call[u]
    BY <2>1, FinishTypes
  <2>5. Serving(id)' \subseteq Serving(id)
    BY <2>4 DEF Serving
  <2>6. CASE id = mine_id
    <3>1. settled[id].event # "decided"
      BY <2>3, <2>6 DEF SettledRests
    <3>2. /\ AppendEvent(w) /\ call[w].event = "decided" /\ alone[w]
          /\ settled' = [settled EXCEPT ![mine_id] = call[w]]
      BY <1>2, <3>1 DEF AppendEvent, AppendUnconfirmed, history
    <3>3. settled'[id] = call[w]
      BY <2>6, <3>2 DEF TypeInv, TypeOK
    <3>4. \A u \in Serving(id) : u = w
      BY <2>2, <2>6, <3>2 DEF OverlapsTell, Serving
    <3>5. Serving(id)' = {}
      BY <2>4, <2>5, <3>4 DEF Serving
    <3>6. replay_reviews(log')[id] =
              ReplayEntry(Entry(replay_reviews(log)[id]), call[w])
      BY <2>1, <2>2, <2>6, ReplayGrows DEF TypeInv, TypeOK
    <3>7. Entry(replay_reviews(log)[id]) \in Reviews
      BY ReplayType, EntryIsReview DEF TypeInv, TypeOK, Stored
    <3>8. Shows(replay_reviews(log')[id], call[w])
      BY <2>2, <3>2, <3>6, <3>7, DecisionShows
    <3>9. QED
      BY <3>3, <3>5, <3>8
  <2>7. CASE id # mine_id
    <3>1. settled'[id] = settled[id]
      BY <1>2, <2>7 DEF AppendEvent, AppendUnconfirmed, history, TypeInv, TypeOK
    <3>2. replay_reviews(log')[id] = replay_reviews(log)[id]
      BY <2>1, <2>2, <2>7, ReplayGrows DEF TypeInv, TypeOK
    <3>3. QED
      BY <2>5, <3>1, <3>2 DEF SettledRests
  <2>8. QED
    BY <2>6, <2>7
<1>3. CASE /\ \A w \in Workers, c \in LedgerEvents : ~Call(w, c)
           /\ \A w \in Workers : ~AppendEvent(w) /\ ~AppendUnconfirmed(w)
  <2>1. log' = log /\ settled' = settled
    BY <1>3, LogSteps, SettledSteps
  <2>2. Serving(id)' \subseteq Serving(id)
    BY <1>3, ServingShrinks
  <2>3. QED
    BY <2>1, <2>2 DEF SettledRests
<1>4. QED
  BY <1>1, <1>2, <1>3

\* A decision that settled is in the ledger until the next call on its review,
\* whatever fails, is killed, cannot be read or is undone by a power loss, as long as
\* the ledger keeps what it has.
THEOREM DecisionsStayInLedger == Spec => []SettledInLedger
<1> DEFINE Inv == TypeInv /\ OverlapsTell /\ SettledRests
<1>1. Init => Inv
  <2>1. Init => OverlapsTell /\ SettledRests
    BY DEF Init, OverlapsTell, SettledRests, Idle
  <2>2. QED
    BY <2>1, InitTypes
<1>2. Inv /\ [Next]_vars => Inv'
  BY NextTypes, OverlapsStep, SettledStep
<1>3. Inv => SettledInLedger
  BY DEF SettledRests, SettledInLedger
<1>4. QED
  BY <1>1, <1>2, <1>3, PTL DEF Spec

-----------------------------------------------------------------------------
(* The two files agree *)

\* A worker that is about to save holds the lock, and what it loaded is still
\* what the file holds, wherever the file is not known to be behind.
LoadsCurrent ==
    \A w \in Workers : pc[w] = "save" =>
        /\ rlock = w
        /\ \A id \in Ids \ troubled : loaded[w][id] = reviews[id]

\* A worker that has read its review holds what the ledger will say of it once
\* its event is there.
Prepared(w, replayed) ==
    pc[w] \in {"lock", "save", "append"} =>
        /\ call[w].event = "reviewed" <=> replayed = NoReview
        /\ mine[w] = ReplayEntry(Entry(replayed), call[w])

\* The file agrees with the ledger about a review, but for what a worker between
\* its save and its append has saved.
Agrees(id) ==
    LET replayed == replay_reviews(log)[id] IN
    /\ (\A w \in Serving(id) : pc[w] # "append") => reviews[id] = replayed
    /\ \A w \in Serving(id) :
           /\ Prepared(w, replayed)
           /\ pc[w] = "append" => reviews[id] = mine[w] /\ loaded[w][id] = replayed

FilesAgree == \A id \in Ids \ troubled : Agrees(id)

FilesInv == TypeInv /\ OverlapsTell /\ LoadsCurrent /\ FilesAgree

\* Nobody saves while another holds the lock, and a load that could not read the file
\* troubles every review in it.
LEMMA LoadsStep == TypeInv /\ LoadsCurrent /\ [Next]_vars => LoadsCurrent'
<1> SUFFICES ASSUME TypeInv, LoadsCurrent, [Next]_vars,
                    NEW u \in Workers, pc'[u] = "save"
             PROVE  /\ rlock' = u
                    /\ \A id \in Ids \ troubled' : loaded'[u][id] = reviews'[id]
  BY DEF LoadsCurrent
<1> DEFINE Goal == /\ rlock' = u
                   /\ \A id \in Ids \ troubled' : loaded'[u][id] = reviews'[id]
<1>1. ASSUME NEW w \in Workers, NEW c \in LedgerEvents, Call(w, c) PROVE Goal
  <2>1. /\ UNCHANGED <<rlock, reviews, loaded>> /\ troubled \subseteq troubled'
        /\ pc[u] = "save"
    BY <1>1 DEF Call, files, Step, TypeInv, TypeOK
  <2>2. QED
    BY <2>1 DEF LoadsCurrent
<1>2. ASSUME NEW w \in Workers, LockAndLoad(w) \/ LoadUnreadable(w) PROVE Goal
  <2>1. /\ rlock = Nobody /\ rlock' = w /\ UNCHANGED reviews
        /\ pc' = [pc EXCEPT ![w] = "save"]
    BY <1>2 DEF LockAndLoad, LoadUnreadable, LockFree, Step
  <2>2. u = w
    BY <2>1, ReviewsAssumption DEF LoadsCurrent, TypeInv, TypeOK
  <2>3. CASE LockAndLoad(w)
    BY <2>1, <2>2, <2>3 DEF LockAndLoad, TypeInv, TypeOK
  <2>4. CASE LoadUnreadable(w)
    <3>1. loaded'[u] = Nothing
      BY <2>2, <2>4 DEF LoadUnreadable, TypeInv, TypeOK
    <3>2. \A id \in Ids \ troubled' : reviews[id] = NoReview
      BY <2>4 DEF LoadUnreadable, Trouble
    <3>3. QED
      BY <2>1, <2>2, <3>1, <3>2 DEF Nothing
  <2>5. QED
    BY <1>2, <2>3, <2>4
<1>3. ASSUME NEW w \in Workers, Save(w) \/ SaveFails(w) PROVE Goal
  <2>1. pc[w] = "save" /\ pc'[w] # "save" /\ \A v \in Workers \ {w} : pc'[v] = pc[v]
    BY <1>3 DEF Save, SaveFails, Finish, Step, TypeInv, TypeOK
  <2>2. rlock = w /\ rlock = u /\ u # w
    BY <2>1 DEF LoadsCurrent
  <2>3. QED
    BY <2>2
<1>4. ASSUME NEW w \in Workers, Get(w) PROVE Goal
  <2>1. UNCHANGED <<rlock, reviews, loaded, troubled>> /\ pc[u] = "save"
    BY <1>4 DEF Get, files, history, Step, TypeInv, TypeOK
  <2>2. QED
    BY <2>1 DEF LoadsCurrent
<1>5. ASSUME NEW w \in Workers,
             \/ GetNotFound(w) \/ AppendEvent(w) \/ AppendRefused(w)
             \/ AppendLost(w) \/ AppendUnconfirmed(w) \/ GetUnreadable(w)
             \/ Crash(w)
      PROVE  Goal
  <2>1. PICK from : Finish(w, from)
    BY <1>5 DEF GetNotFound, AppendEvent, AppendRefused, AppendLost,
                AppendUnconfirmed, GetUnreadable, Crash
  <2>2. u # w /\ pc[u] = "save" /\ loaded'[u] = loaded[u]
    BY <2>1, FinishTypes
  <2>3. rlock = u
    BY <2>2 DEF LoadsCurrent
  <2>4. UNCHANGED reviews /\ troubled \subseteq troubled'
    BY <1>5 DEF GetNotFound, AppendEvent, AppendRefused, AppendLost,
                AppendUnconfirmed, GetUnreadable, Crash, files, history, Trouble
  <2>5. rlock' = rlock
    BY <1>5, <2>2, <2>3 DEF GetNotFound, AppendEvent, AppendRefused, AppendLost,
                            AppendUnconfirmed, GetUnreadable, Crash, files
  <2>6. QED
    BY <2>2, <2>3, <2>4, <2>5 DEF LoadsCurrent
<1>6. CASE PowerLoss
  BY <1>6 DEF PowerLoss
<1>7. CASE \/ SealOrUnseal \/ VerifyLoad \/ VerifyLoadUnreadable \/ VerifyReplay
           \/ UNCHANGED vars
  <2>1. UNCHANGED <<rlock, reviews, loaded, troubled, pc>>
    BY <1>7 DEF SealOrUnseal, VerifyLoad, VerifyLoadUnreadable, VerifyReplay, Load,
                files, history, vars
  <2>2. QED
    BY <2>1 DEF LoadsCurrent
<1>8. QED
  BY <1>1, <1>2, <1>3, <1>4, <1>5, <1>6, <1>7 DEF Next, HandlerStep, HandlerFails

\* A handler that ends with both files as they are leaves them agreeing, unless
\* it had saved the review.
LEMMA FinishAgrees ==
    ASSUME FilesInv, NEW w \in Workers, NEW from, Finish(w, from),
           NEW id \in Ids \ troubled,
           reviews'[id] = reviews[id], log' = log,
           call[w].review_id = id => pc[w] # "append"
    PROVE  Agrees(id)'
<1>1. \A u \in Serving(id)' : /\ u # w /\ u \in Serving(id)
                              /\ pc'[u] = pc[u] /\ call'[u] = call[u]
                              /\ mine'[u] = mine[u] /\ loaded'[u] = loaded[u]
  BY FinishTypes DEF Serving, FilesInv
<1>2. \A u \in Serving(id) : u # w => u \in Serving(id)'
  BY FinishTypes DEF Serving, FilesInv
<1>3. Agrees(id)
  BY DEF FilesInv, FilesAgree
<1>4. (\A u \in Serving(id)' : pc'[u] # "append") =>
          \A u \in Serving(id) : pc[u] # "append"
  BY <1>1, <1>2 DEF Serving
<1>5. QED
  BY <1>1, <1>3, <1>4 DEF Agrees, Prepared

\* Nobody else serves a review that is not troubled.
LEMMA OnlyOneServes ==
    ASSUME OverlapsTell, NEW id \in Ids \ troubled,
           NEW w \in Serving(id), NEW u \in Serving(id)
    PROVE  u = w
  BY DEF OverlapsTell, Serving

\* A call that comes in finds the files agreeing, and leaves them so.
LEMMA CallAgrees ==
    ASSUME FilesInv, NEW w \in Workers, NEW c \in LedgerEvents, Call(w, c),
           NEW id \in Ids \ troubled'
    PROVE  Agrees(id)'
<1> DEFINE replayed == replay_reviews(log)[id]
<1>1. id \in Ids \ troubled /\ Agrees(id)
  BY CallStarts DEF FilesInv, FilesAgree
<1>2. UNCHANGED <<reviews, log, loaded>>
  BY DEF Call, files
<1>3. CASE id = c.review_id
  <2>1. Serving(id) = {} /\ Serving(id)' = {w}
    BY <1>3, CallStarts, CallServes DEF FilesInv
  <2>2. reviews[id] = replayed
    BY <1>1, <2>1 DEF Agrees
  <2>3. /\ call'[w] = c /\ pc'[w] \in {"lock", "get"}
        /\ pc'[w] = "lock" <=> c.event = "reviewed"
    BY CallStarts DEF FilesInv
  <2>4. CASE c.event = "reviewed"
    <3>1. mine'[w] = new_review(c) /\ reviews[id] = NoReview
      BY <1>3, <2>4 DEF Call, FilesInv, TypeInv, TypeOK
    <3>2. Entry(replayed) = BlankReview
      BY <2>2, <3>1 DEF Entry
    <3>3. Prepared(w, replayed)'
      BY <1>2, <2>2, <2>3, <2>4, <3>1, <3>2, NewReviewType DEF Prepared
    <3>4. QED
      BY <1>2, <2>1, <2>2, <2>3, <3>3 DEF Agrees
  <2>5. CASE c.event # "reviewed"
    BY <1>2, <2>1, <2>2, <2>3, <2>5 DEF Agrees, Prepared
  <2>6. QED
    BY <2>4, <2>5
<1>4. CASE id # c.review_id
  <2>1. Serving(id)' = Serving(id) /\ w \notin Serving(id)
    BY <1>4, CallServes, CallStarts DEF FilesInv, Serving
  <2>2. \A u \in Serving(id) : /\ pc'[u] = pc[u] /\ call'[u] = call[u]
                               /\ mine'[u] = mine[u] /\ loaded'[u] = loaded[u]
    BY <1>2, <2>1, CallStarts DEF FilesInv, Serving
  <2>3. QED
    BY <1>1, <1>2, <2>1, <2>2 DEF Agrees, Prepared
<1>5. QED
  BY <1>3, <1>4

\* Reading the review, loading the map and saving keep the files in agreement:
\* what is saved is what the replay of the event will give.
LEMMA AdvanceAgrees ==
    ASSUME FilesInv, NEW w \in Workers,
           Get(w) \/ LockAndLoad(w) \/ LoadUnreadable(w) \/ Save(w),
           NEW id \in Ids \ troubled'
    PROVE  Agrees(id)'
<1> DEFINE replayed == replay_reviews(log)[id]
<1>1. troubled \subseteq troubled' /\ log' = log /\ call' = call
  BY DEF Get, LockAndLoad, LoadUnreadable, Save, history, files, Trouble
<1>2. id \in Ids \ troubled /\ Agrees(id)
  BY <1>1 DEF FilesInv, FilesAgree
<1>3. /\ pc[w] # "idle" /\ pc[w] # "append" /\ pc'[w] # "idle"
      /\ pc \in [Workers -> PCs]
      /\ \A u \in Workers \ {w} : pc'[u] = pc[u]
  BY DEF Get, LockAndLoad, LoadUnreadable, Save, Step, FilesInv, TypeInv, TypeOK
<1>4. \A u \in Workers \ {w} : mine'[u] = mine[u] /\ loaded'[u] = loaded[u]
  BY DEF Get, LockAndLoad, LoadUnreadable, Save, files, FilesInv, TypeInv, TypeOK
<1>5. Serving(id)' = Serving(id)
  BY <1>1, <1>3 DEF Serving
<1>6. CASE w \in Serving(id)
  <2>1. \A u \in Serving(id) : u = w
    BY <1>2, <1>6, OnlyOneServes DEF FilesInv
  <2>2. reviews[id] = replayed /\ Prepared(w, replayed) /\ call[w].review_id = id
    BY <1>2, <1>3, <1>6, <2>1 DEF Agrees, Serving
  <2>3. CASE Get(w)
    <3>1. /\ reviews' = reviews /\ pc'[w] = "lock" /\ reviews[id] # NoReview
          /\ mine'[w] = ApplyCall(reviews[id], call[w])
      BY <2>2, <2>3 DEF Get, Step, files, FilesInv, TypeInv, TypeOK
    <3>2. call[w] \in LedgerEvents /\ call[w].event # "reviewed"
      BY <2>3 DEF Get, Step, FilesInv, TypeInv, Holds
    <3>3. replayed \in Reviews \cup {NoReview}
      BY ReplayType DEF FilesInv, TypeInv, TypeOK, Stored
    <3>4. mine'[w] = ReplayEntry(Entry(replayed), call[w])
      BY <2>2, <3>1, <3>2, <3>3, ToolsAgreeWithReplay
    <3>5. QED
      BY <1>1, <1>5, <2>1, <2>2, <3>1, <3>2, <3>4 DEF Agrees, Prepared
  <2>4. CASE LockAndLoad(w) \/ LoadUnreadable(w)
    <3>1. reviews' = reviews /\ pc[w] = "lock" /\ pc'[w] = "save" /\ mine' = mine
      BY <2>4 DEF LockAndLoad, LoadUnreadable, Step, FilesInv, TypeInv, TypeOK
    <3>2. QED
      BY <1>1, <1>5, <2>1, <2>2, <3>1 DEF Agrees, Prepared
  <2>5. CASE Save(w)
    <3>1. /\ reviews' = Upserted(w) /\ pc[w] = "save" /\ pc'[w] = "append"
          /\ mine' = mine /\ loaded' = loaded
      BY <2>5 DEF Save, Step, FilesInv, TypeInv, TypeOK
    <3>2. loaded[w][id] = reviews[id]
      BY <1>2, <3>1 DEF FilesInv, LoadsCurrent
    <3>3. loaded[w] \in [Ids -> Reviews \cup {NoReview}]
      BY DEF FilesInv, TypeInv, TypeOK
    <3>4. reviews'[id] = mine[w]
      <4>1. reviews' = [loaded[w] EXCEPT ![id] = mine[w]]
        BY <2>2, <3>1 DEF Upserted
      <4>2. QED
        BY <3>3, <4>1
    <3>5. /\ call'[w].event = "reviewed" <=> replayed = NoReview
          /\ mine'[w] = ReplayEntry(Entry(replayed), call'[w])
      BY <1>1, <2>2, <3>1 DEF Prepared
    <3>6. loaded'[w][id] = replayed /\ mine'[w] = mine[w]
      BY <2>2, <3>1, <3>2
    <3>7. Serving(id)' = {w}
      BY <1>5, <1>6, <2>1
    <3>8. QED
      BY <1>1, <3>1, <3>4, <3>5, <3>6, <3>7 DEF Agrees, Prepared
  <2>6. QED
    BY <2>3, <2>4, <2>5
<1>7. CASE w \notin Serving(id)
  <2>1. reviews'[id] = reviews[id]
    <3>1. CASE Save(w)
      <4>1. call[w].review_id # id
        BY <1>3, <1>7 DEF Serving
      <4>2. reviews'[id] = loaded[w][id] /\ pc[w] = "save"
        BY <1>2, <3>1, <4>1 DEF Save, Step, Upserted, FilesInv, TypeInv, TypeOK
      <4>3. QED
        BY <1>2, <4>2 DEF FilesInv, LoadsCurrent
    <3>2. CASE ~Save(w)
      BY <3>2 DEF Get, LockAndLoad, LoadUnreadable, files
    <3>3. QED
      BY <3>1, <3>2
  <2>2. \A u \in Serving(id) : /\ u # w /\ pc'[u] = pc[u]
                               /\ mine'[u] = mine[u] /\ loaded'[u] = loaded[u]
    BY <1>3, <1>4, <1>7 DEF Serving
  <2>3. QED
    BY <1>1, <1>2, <1>5, <2>1, <2>2 DEF Agrees, Prepared
<1>8. QED
  BY <1>6, <1>7

\* The event that reaches the ledger brings its replay up to what was saved.
LEMMA AppendAgrees ==
    ASSUME FilesInv, NEW w \in Workers, AppendEvent(w) \/ AppendUnconfirmed(w),
           NEW id \in Ids \ troubled'
    PROVE  Agrees(id)'
<1> DEFINE replayed == replay_reviews(log)[id]
<1>1. /\ Finish(w, "append") /\ log' = Append(log, call[w])
      /\ reviews' = reviews /\ troubled' = troubled
  BY DEF AppendEvent, AppendUnconfirmed, history
<1>2. pc[w] = "append" /\ call[w] \in LedgerEvents /\ call[w].review_id \in Ids
  BY <1>1, EventTypes DEF Finish, Step, FilesInv, TypeInv, Holds
<1>3. Agrees(id)
  BY <1>1 DEF FilesInv, FilesAgree
<1>4. \A u \in Serving(id)' : /\ u # w /\ u \in Serving(id)
                              /\ pc'[u] = pc[u] /\ call'[u] = call[u]
                              /\ mine'[u] = mine[u] /\ loaded'[u] = loaded[u]
  BY <1>1, FinishTypes DEF Serving, FilesInv
<1>5. CASE call[w].review_id = id
  <2>1. w \in Serving(id)
    BY <1>2, <1>5 DEF Serving
  <2>2. Serving(id)' = {}
    BY <1>1, <1>4, <2>1, OnlyOneServes DEF FilesInv
  <2>3. reviews[id] = mine[w] /\ mine[w] = ReplayEntry(Entry(replayed), call[w])
    BY <1>2, <1>3, <2>1 DEF Agrees, Prepared
  <2>4. replay_reviews(log')[id] = ReplayEntry(Entry(replayed), call[w])
    BY <1>1, <1>2, <1>5, ReplayGrows DEF FilesInv, TypeInv, TypeOK
  <2>5. QED
    BY <1>1, <2>2, <2>3, <2>4 DEF Agrees
<1>6. CASE call[w].review_id # id
  <2>1. replay_reviews(log')[id] = replayed
    BY <1>1, <1>2, <1>6, ReplayGrows DEF FilesInv, TypeInv, TypeOK
  <2>2. \A u \in Serving(id) : u \in Serving(id)'
    BY <1>1, <1>6, FinishTypes DEF Serving, FilesInv
  <2>3. QED
    BY <1>1, <1>3, <1>4, <2>1, <2>2 DEF Agrees, Prepared
<1>7. QED
  BY <1>5, <1>6

\* A handler that is cut short, or that finds nothing, leaves the files in agreement
\* or its review troubled.
LEMMA EndAgrees ==
    ASSUME FilesInv, NEW w \in Workers,
           \/ GetNotFound(w) \/ AppendRefused(w) \/ AppendLost(w) \/ SaveFails(w)
           \/ GetUnreadable(w) \/ Crash(w),
           NEW id \in Ids \ troubled'
    PROVE  Agrees(id)'
<1>1. PICK from : Finish(w, from)
  BY DEF GetNotFound, AppendRefused, AppendLost, SaveFails, GetUnreadable, Crash
<1>2. /\ reviews' = reviews /\ log' = log /\ troubled \subseteq troubled'
  BY DEF GetNotFound, AppendRefused, AppendLost, SaveFails, GetUnreadable, Crash,
         files, history, Trouble
<1>3. ASSUME call[w].review_id = id PROVE pc[w] # "append"
  <2>1. CASE AppendRefused(w) \/ AppendLost(w)
    <3>1. call[w].review_id \in troubled'
      BY <2>1 DEF AppendRefused, AppendLost, Trouble
    <3>2. QED
      BY <1>3, <3>1
  <2>2. CASE Crash(w)
    <3>1. pc[w] = "append" => call[w].review_id \in troubled'
      BY <2>2 DEF Crash, Trouble
    <3>2. QED
      BY <1>3, <3>1
  <2>3. CASE GetNotFound(w) \/ SaveFails(w) \/ GetUnreadable(w)
    BY <2>3 DEF GetNotFound, SaveFails, GetUnreadable, Finish, Step
  <2>4. QED
    BY <2>1, <2>2, <2>3
<1>4. QED
  BY <1>1, <1>2, <1>3, FinishAgrees

\* Every step leaves the two files in agreement about the reviews it does not trouble.
LEMMA FilesStep == FilesInv /\ [Next]_vars => FilesAgree'
<1> SUFFICES ASSUME FilesInv, [Next]_vars, NEW id \in Ids \ troubled'
             PROVE  Agrees(id)'
  BY DEF FilesAgree
<1>1. ASSUME NEW w \in Workers, NEW c \in LedgerEvents, Call(w, c)
      PROVE  Agrees(id)'
  BY <1>1, CallAgrees
<1>2. ASSUME NEW w \in Workers, HandlerStep(w) \/ HandlerFails(w)
      PROVE  Agrees(id)'
  <2>1. CASE Get(w) \/ LockAndLoad(w) \/ LoadUnreadable(w) \/ Save(w)
    BY <2>1, AdvanceAgrees
  <2>2. CASE AppendEvent(w) \/ AppendUnconfirmed(w)
    BY <2>2, AppendAgrees
  <2>3. CASE \/ GetNotFound(w) \/ AppendRefused(w) \/ AppendLost(w)
             \/ SaveFails(w) \/ GetUnreadable(w) \/ Crash(w)
    BY <2>3, EndAgrees
  <2>4. QED
    BY <1>2, <2>1, <2>2, <2>3 DEF HandlerStep, HandlerFails
<1>3. CASE PowerLoss
  <2>1. Serving(id)' = {}
    BY <1>3 DEF PowerLoss, Serving
  <2>2. /\ id \in Ids \ troubled
        /\ reviews'[id] = reviews[id] /\ log' = log
        /\ \A w \in Serving(id) : pc[w] # "append"
    BY <1>3 DEF PowerLoss, Trouble
  <2>3. QED
    BY <2>1, <2>2 DEF FilesInv, FilesAgree, Agrees
<1>4. CASE \/ SealOrUnseal \/ VerifyLoad \/ VerifyLoadUnreadable \/ VerifyReplay
           \/ UNCHANGED vars
  <2>1. UNCHANGED <<reviews, log, pc, call, mine, loaded, troubled>>
    BY <1>4 DEF SealOrUnseal, VerifyLoad, VerifyLoadUnreadable, VerifyReplay, Load,
                files, history, vars
  <2>2. Serving(id)' = Serving(id)
    BY <2>1 DEF Serving
  <2>3. QED
    BY <2>1, <2>2 DEF FilesInv, FilesAgree, Agrees, Prepared
<1>5. QED
  BY <1>1, <1>2, <1>3, <1>4 DEF Next

\* What the theorems about the two files rest on, whatever fails.
LEMMA FilesInvariant == Spec => []FilesInv
<1>1. Init => FilesInv
  <2>1. ASSUME Init PROVE OverlapsTell /\ LoadsCurrent
    BY <2>1 DEF Init, OverlapsTell, LoadsCurrent
  <2>2. ASSUME Init, NEW id \in Ids PROVE Agrees(id)
    BY <2>2, ReplayEmpty
    DEF Init, Agrees, Prepared, Serving, Nothing, NoneReplayed
  <2>3. QED
    BY <2>1, <2>2, InitTypes DEF FilesInv, FilesAgree
<1>2. FilesInv /\ [Next]_vars => FilesInv'
  BY NextTypes, OverlapsStep, LoadsStep, FilesStep DEF FilesInv
<1>3. QED
  BY <1>1, <1>2, PTL DEF Spec

\* reviews.json and the ledger agree about every review but those a call is working
\* on and those that were troubled, whatever fails.
THEOREM FilesAgreeUnlessTroubled == Spec => []AgreesUnlessTroubled
<1>1. FilesInv => AgreesUnlessTroubled
  BY DEF FilesInv, FilesAgree, Agrees, AgreesUnlessTroubled
<1>2. QED
  BY <1>1, FilesInvariant, PTL

-----------------------------------------------------------------------------
(* Reconciliation *)

\* What a reconciliation has loaded is still current for every review that nothing
\* was done to meanwhile, and no call is working on one of these.
VerifierHolds ==
    stored # NotLoaded => \A id \in Ids \ busy :
        stored[id] = reviews[id] /\ Serving(id) = {}

\* Whatever is done to a review marks it busy, as long as a reconciliation goes on.
LEMMA VerifierStep == FilesInv /\ VerifierHolds /\ [Next]_vars => VerifierHolds'
<1> SUFFICES ASSUME FilesInv, VerifierHolds, [Next]_vars, stored' # NotLoaded,
                    NEW id \in Ids \ busy'
             PROVE  stored'[id] = reviews'[id] /\ Serving(id)' = {}
  BY DEF VerifierHolds
<1> DEFINE Goal == stored'[id] = reviews'[id] /\ Serving(id)' = {}
<1>1. TypeInv
  BY DEF FilesInv
<1>2. ASSUME NEW w \in Workers, NEW c \in LedgerEvents, Call(w, c) PROVE Goal
  <2>1. /\ stored' = stored /\ reviews' = reviews
        /\ busy' = busy \cup {c.review_id}
    BY <1>2 DEF Call, files
  <2>2. Serving(id)' = Serving(id)
    BY <1>1, <1>2, <2>1, CallServes
  <2>3. QED
    BY <2>1, <2>2 DEF VerifierHolds
<1>3. CASE \A w \in Workers, c \in LedgerEvents : ~Call(w, c)
  <2>1. Serving(id)' \subseteq Serving(id)
    BY <1>1, <1>3, ServingShrinks
  <2>2. ASSUME NEW w \in Workers, HandlerStep(w) PROVE Goal
    <3>1. stored' = stored /\ id \notin busy /\ reviews'[id] = reviews[id]
      BY <2>2 DEF HandlerStep
    <3>2. QED
      BY <2>1, <3>1 DEF VerifierHolds
  <2>3. ASSUME NEW w \in Workers, HandlerFails(w) PROVE Goal
    <3>1. stored' = stored /\ busy' = busy /\ reviews' = reviews
      BY <2>3 DEF HandlerFails, verifier, AppendLost, AppendUnconfirmed, SaveFails,
                  GetUnreadable, LoadUnreadable, Crash, files
    <3>2. QED
      BY <2>1, <3>1 DEF VerifierHolds
  <2>4. CASE PowerLoss \/ VerifyReplay
    BY <2>4 DEF PowerLoss, VerifyReplay
  <2>5. CASE VerifyLoad
    <3>1. stored' = reviews /\ reviews' = reviews /\ Serving(id) = {}
      BY <2>5 DEF VerifyLoad, Load, files
    <3>2. QED
      BY <2>1, <3>1
  <2>6. CASE VerifyLoadUnreadable
    BY <2>6 DEF VerifyLoadUnreadable, Load
  <2>7. CASE SealOrUnseal \/ UNCHANGED vars
    <3>1. stored' = stored /\ busy' = busy /\ reviews' = reviews
      BY <2>7 DEF SealOrUnseal, verifier, vars
    <3>2. QED
      BY <2>1, <3>1 DEF VerifierHolds
  <2>8. QED
    BY <1>3, <2>2, <2>3, <2>4, <2>5, <2>6, <2>7 DEF Next
<1>4. QED
  BY <1>2, <1>3

\* A reconciliation reports exactly the reviews about which the files disagree, of
\* those nothing was done to meanwhile, and each of these was troubled.
THEOREM ReconciliationTells == Spec => ReconcileTells
<1> DEFINE Inv == FilesInv /\ VerifierHolds
           Replayed == replay_reviews(log)
           Reported(id) == id \in mismatches(stored, Replayed)
           Told == VerifyReplay => \A id \in Ids \ busy :
                       /\ Reported(id) <=> reviews[id] # Replayed[id]
                       /\ Reported(id) => id \in troubled
<1>1. Init => VerifierHolds
  BY DEF Init, VerifierHolds
<1>2. Spec => []Inv
  BY <1>1, VerifierStep, FilesInvariant, PTL DEF Spec
<1>3. ASSUME Inv, VerifyReplay, NEW id \in Ids \ busy
      PROVE  /\ Reported(id) <=> reviews[id] # Replayed[id]
             /\ Reported(id) => id \in troubled
  <2>1. stored # NotLoaded
    BY <1>3 DEF VerifyReplay
  <2>2. stored \in Stored /\ Replayed \in Stored
    BY <1>3, <2>1, ReplayType DEF FilesInv, TypeInv, TypeOK, Stored
  <2>3. stored[id] = reviews[id] /\ Serving(id) = {}
    BY <1>3, <2>1 DEF VerifierHolds
  <2>4. Reported(id) <=> reviews[id] # Replayed[id]
    BY <2>2, <2>3, MismatchesAreDifferences
  <2>5. id \notin troubled => reviews[id] = Replayed[id]
    BY <1>3, <2>3 DEF FilesInv, FilesAgree, Agrees
  <2>6. QED
    BY <2>4, <2>5
<1>4. Inv => Told
  BY <1>3
<1>5. Inv => [Told]_vars
  BY <1>4
<1>6. Spec => [][Told]_vars
  BY <1>2, <1>5, PTL
<1>7. QED
  BY <1>6 DEF ReconcileTells

-----------------------------------------------------------------------------
(* Where reviews.json can be read and is not undone *)

\* Every file that is read parses, and the power stays on.
FileKept == "read" \notin Failures /\ "power" \notin Failures

\* Then a worker about to save has loaded all of what the file holds.
LoadsAll == \A w \in Workers : pc[w] = "save" => loaded[w] = reviews

\* What a step does to reviews.json: nothing, what one worker saves, or what a power
\* loss undoes ...
LEMMA OnlySavesOrPowerWrite ==
    ASSUME [Next]_vars, reviews' # reviews
    PROVE  PowerLoss \/ \E w \in Workers : Save(w)
  BY DEF Next, vars, Call, HandlerStep, HandlerFails, SealOrUnseal, VerifyLoad,
         VerifyLoadUnreadable, VerifyReplay, Load, Get, GetNotFound, LockAndLoad,
         AppendEvent, AppendRefused, AppendLost, AppendUnconfirmed, SaveFails,
         GetUnreadable, LoadUnreadable, Crash, files

\* ... and while the power stays on only the first two.
LEMMA OnlySavesWrite ==
    ASSUME FileKept, [Next]_vars, reviews' # reviews
    PROVE  \E w \in Workers : Save(w)
  BY OnlySavesOrPowerWrite DEF FileKept, PowerLoss, Failure

\* What a worker has loaded changes when it loads, or when it finishes.
LEMMA LoadedSteps ==
    ASSUME FileKept, TypeInv, [Next]_vars, NEW w \in Workers, pc'[w] = "save"
    PROVE  LockAndLoad(w) \/ (pc[w] = "save" /\ loaded'[w] = loaded[w])
<1> DEFINE Goal == LockAndLoad(w) \/ (pc[w] = "save" /\ loaded'[w] = loaded[w])
<1>1. ASSUME NEW u \in Workers, NEW c \in LedgerEvents, Call(u, c) PROVE Goal
  BY <1>1 DEF Call, Step, TypeInv, TypeOK
<1>2. ASSUME NEW u \in Workers, HandlerStep(u) \/ HandlerFails(u) PROVE Goal
  <2>1. CASE Get(u) \/ LockAndLoad(u) \/ Save(u)
    BY <2>1 DEF Get, LockAndLoad, Save, Step, TypeInv, TypeOK
  <2>2. CASE LoadUnreadable(u)
    BY <2>2 DEF LoadUnreadable, Failure, FileKept
  <2>3. CASE \/ GetNotFound(u) \/ AppendEvent(u) \/ AppendRefused(u)
             \/ AppendLost(u) \/ AppendUnconfirmed(u) \/ SaveFails(u)
             \/ GetUnreadable(u) \/ Crash(u)
    <3>1. PICK from : Finish(u, from)
      BY <2>3 DEF GetNotFound, AppendEvent, AppendRefused, AppendLost,
                  AppendUnconfirmed, SaveFails, GetUnreadable, Crash
    <3>2. QED
      BY <3>1, FinishTypes
  <2>4. QED
    BY <1>2, <2>1, <2>2, <2>3 DEF HandlerStep, HandlerFails
<1>3. CASE PowerLoss
  BY <1>3 DEF PowerLoss
<1>4. CASE \/ SealOrUnseal \/ VerifyLoad \/ VerifyLoadUnreadable \/ VerifyReplay
           \/ UNCHANGED vars
  BY <1>4 DEF SealOrUnseal, VerifyLoad, VerifyLoadUnreadable, VerifyReplay, Load,
              vars
<1>5. QED
  BY <1>1, <1>2, <1>3, <1>4 DEF Next

\* The lock keeps the others from saving in between.
LEMMA LoadsAllStep ==
    ASSUME FileKept
    PROVE  TypeInv /\ LoadsCurrent /\ LoadsAll /\ [Next]_vars => LoadsAll'
<1> SUFFICES ASSUME TypeInv, LoadsCurrent, LoadsAll, [Next]_vars,
                    NEW w \in Workers, pc'[w] = "save"
             PROVE  loaded'[w] = reviews'
  BY DEF LoadsAll
<1>1. CASE LockAndLoad(w)
  BY <1>1 DEF LockAndLoad, TypeInv, TypeOK
<1>2. CASE pc[w] = "save" /\ loaded'[w] = loaded[w]
  <2>1. reviews' = reviews
    <3>1. SUFFICES ASSUME NEW u \in Workers, Save(u) PROVE FALSE
      BY OnlySavesWrite
    <3>2. pc[u] = "save" /\ pc'[u] = "append"
      BY <3>1 DEF Save, Step, TypeInv, TypeOK
    <3>3. u = w
      BY <1>2, <3>2 DEF LoadsCurrent
    <3>4. QED
      BY <3>2, <3>3
  <2>2. QED
    BY <1>2, <2>1 DEF LoadsAll
<1>3. QED
  BY <1>1, <1>2, LoadedSteps

\* What the theorems about a kept reviews.json rest on.
LEMMA LoadsAllInvariant ==
    ASSUME FileKept
    PROVE  Spec => [](FilesInv /\ LoadsAll)
<1>1. Init => LoadsAll
  BY DEF Init, LoadsAll
<1>2. FilesInv => TypeInv /\ LoadsCurrent
  BY DEF FilesInv
<1>3. FilesInv /\ LoadsAll /\ [Next]_vars => LoadsAll'
  BY <1>2, LoadsAllStep
<1>4. QED
  BY <1>1, <1>3, FilesInvariant, PTL DEF Spec

\* So a save changes one review: the one of the call.
LEMMA SaveWrites ==
    ASSUME TypeInv, LoadsAll, NEW w \in Workers, Save(w)
    PROVE  LET id == call[w].review_id IN
           /\ pc[w] = "save" /\ id \in Ids /\ mine[w] \in Reviews
           /\ reviews'[id] = mine[w]
           /\ \A other \in Ids \ {id} : reviews'[other] = reviews[other]
<1>1. pc[w] = "save" /\ call[w] \in LedgerEvents /\ mine[w] \in Reviews
  BY DEF Save, Step, TypeInv, Holds
<1>2. call[w].review_id \in Ids
  BY <1>1, EventTypes
<1>3. reviews' = [reviews EXCEPT ![call[w].review_id] = mine[w]]
  BY <1>1 DEF Save, Upserted, LoadsAll
<1>4. reviews \in [Ids -> Reviews \cup {NoReview}]
  BY DEF TypeInv, TypeOK
<1>5. QED
  BY <1>1, <1>2, <1>3, <1>4

\* No two writers ever erase or roll back each other's reviews, as long as
\* reviews.json can be read and is not undone by a power loss.
THEOREM OneReviewPerSave ==
    ASSUME FileKept, Ids # {}
    PROVE  Spec => SavesOneReview
<1> DEFINE One == \E id \in Ids : \A other \in Ids \ {id} :
                      reviews'[other] = reviews[other]
<1>1. ASSUME TypeInv, LoadsAll, [Next]_vars PROVE One
  <2>1. CASE reviews' = reviews
    BY <2>1
  <2>2. ASSUME NEW w \in Workers, Save(w) PROVE One
    BY <1>1, <2>2, SaveWrites
  <2>3. QED
    BY <1>1, <2>1, <2>2, OnlySavesWrite
<1>2. FilesInv /\ LoadsAll /\ [Next]_vars => [One]_vars
  BY <1>1 DEF FilesInv
<1>3. Spec => [][One]_vars
  BY <1>2, LoadsAllInvariant, PTL DEF Spec
<1>4. QED
  BY <1>3 DEF SavesOneReview

\* Under way, a worker goes from step to step or waits with what it holds.
LEMMA WorkerSteps ==
    ASSUME TypeInv, [Next]_vars, NEW w \in Workers, pc'[w] # "idle"
    PROVE  \/ \E c \in LedgerEvents : Call(w, c)
           \/ Get(w) \/ LockAndLoad(w) \/ LoadUnreadable(w) \/ Save(w)
           \/ /\ pc'[w] = pc[w] /\ call'[w] = call[w]
              /\ mine'[w] = mine[w] /\ loaded'[w] = loaded[w]
<1> DEFINE Waits == /\ pc'[w] = pc[w] /\ call'[w] = call[w]
                    /\ mine'[w] = mine[w] /\ loaded'[w] = loaded[w]
<1>1. ASSUME NEW u \in Workers \ {w}, NEW c \in LedgerEvents, Call(u, c) PROVE Waits
  BY <1>1 DEF Call, Step, TypeInv, TypeOK
<1>2. ASSUME NEW u \in Workers \ {w}, HandlerStep(u) \/ HandlerFails(u) PROVE Waits
  <2>1. CASE Get(u) \/ LockAndLoad(u) \/ LoadUnreadable(u) \/ Save(u)
    BY <2>1 DEF Get, LockAndLoad, LoadUnreadable, Save, Step, TypeInv, TypeOK
  <2>2. CASE \/ GetNotFound(u) \/ AppendEvent(u) \/ AppendRefused(u)
             \/ AppendLost(u) \/ AppendUnconfirmed(u) \/ SaveFails(u)
             \/ GetUnreadable(u) \/ Crash(u)
    <3>1. PICK from : Finish(u, from)
      BY <2>2 DEF GetNotFound, AppendEvent, AppendRefused, AppendLost,
                  AppendUnconfirmed, SaveFails, GetUnreadable, Crash
    <3>2. QED
      BY <3>1, FinishTypes
  <2>3. QED
    BY <1>2, <2>1, <2>2 DEF HandlerStep, HandlerFails
<1>3. CASE HandlerStep(w) \/ HandlerFails(w)
  <2>1. CASE \/ GetNotFound(w) \/ AppendEvent(w) \/ AppendRefused(w)
             \/ AppendLost(w) \/ AppendUnconfirmed(w) \/ SaveFails(w)
             \/ GetUnreadable(w) \/ Crash(w)
    <3>1. PICK from : Finish(w, from)
      BY <2>1 DEF GetNotFound, AppendEvent, AppendRefused, AppendLost,
                  AppendUnconfirmed, SaveFails, GetUnreadable, Crash
    <3>2. QED
      BY <3>1, FinishTypes
  <2>2. QED
    BY <1>3, <2>1 DEF HandlerStep, HandlerFails
<1>4. CASE PowerLoss
  BY <1>4 DEF PowerLoss
<1>5. CASE \/ SealOrUnseal \/ VerifyLoad \/ VerifyLoadUnreadable \/ VerifyReplay
           \/ UNCHANGED vars
  BY <1>5 DEF SealOrUnseal, VerifyLoad, VerifyLoadUnreadable, VerifyReplay, Load,
              vars
<1>6. QED
  BY <1>1, <1>2, <1>3, <1>4, <1>5 DEF Next

\* A review that is in reviews.json stays there.
LEMMA ReviewsStay ==
    ASSUME FileKept, TypeInv, LoadsAll, [Next]_vars,
           NEW id \in Ids, reviews[id] # NoReview
    PROVE  reviews'[id] # NoReview
<1>1. CASE reviews' = reviews
  BY <1>1
<1>2. ASSUME NEW w \in Workers, Save(w) PROVE reviews'[id] # NoReview
  BY <1>2, SaveWrites, NoReviewIsNone
<1>3. QED
  BY <1>1, <1>2, OnlySavesWrite

\* An event is appended once its review is saved.
SavedFirst ==
    \A w \in Workers : pc[w] = "append" => reviews[call[w].review_id] # NoReview

\* Saved first, a review is in reviews.json before the ledger speaks of it, and
\* there it stays.
LEMMA AheadStep ==
    ASSUME FileKept
    PROVE  TypeInv /\ LoadsAll /\ SavedFirst /\ LedgerNeverAhead /\ [Next]_vars
               => SavedFirst' /\ LedgerNeverAhead'
<1> SUFFICES ASSUME TypeInv, LoadsAll, SavedFirst, LedgerNeverAhead, [Next]_vars
             PROVE  SavedFirst' /\ LedgerNeverAhead'
  OBVIOUS
<1>1. ASSUME NEW w \in Workers, pc'[w] = "append"
      PROVE  reviews'[call'[w].review_id] # NoReview
  <2>1. CASE Save(w)
    <3>1. call'[w] = call[w]
      BY <2>1 DEF Save
    <3>2. QED
      BY <2>1, <3>1, SaveWrites, NoReviewIsNone
  <2>2. CASE pc[w] = "append" /\ call'[w] = call[w]
    <3>1. call[w].review_id \in Ids
      BY <2>2, EventTypes DEF TypeInv, Holds
    <3>2. QED
      BY <2>2, <3>1, ReviewsStay DEF SavedFirst
  <2>3. Save(w) \/ (pc[w] = "append" /\ call'[w] = call[w])
    <3>1. ASSUME NEW c \in LedgerEvents, Call(w, c) PROVE FALSE
      BY <1>1, <3>1, CallStarts
    <3>2. CASE Get(w) \/ LockAndLoad(w) \/ LoadUnreadable(w)
      BY <1>1, <3>2 DEF Get, LockAndLoad, LoadUnreadable, Step, TypeInv, TypeOK
    <3>3. QED
      BY <1>1, <3>1, <3>2, WorkerSteps
  <2>4. QED
    BY <2>1, <2>2, <2>3
<1>2. ASSUME NEW i \in DOMAIN log' PROVE reviews'[log'[i].review_id] # NoReview
  <2>1. log \in Seq(LedgerEvents)
    BY DEF TypeInv, TypeOK
  <2>2. ASSUME i \in DOMAIN log, log'[i] = log[i]
        PROVE  reviews'[log'[i].review_id] # NoReview
    <3>1. log[i].review_id \in Ids
      BY <2>1, <2>2, EventTypes, LenProperties, ElementOfSeq
    <3>2. QED
      BY <2>2, <3>1, ReviewsStay DEF LedgerNeverAhead
  <2>3. CASE log' = log
    BY <1>2, <2>2, <2>3
  <2>4. CASE log' # log
    <3>1. PICK w \in Workers : /\ AppendEvent(w) \/ AppendUnconfirmed(w)
                               /\ pc[w] = "append" /\ call[w] \in LedgerEvents
                               /\ log' = Append(log, call[w])
      BY <2>4, LogSteps
    <3>2. reviews' = reviews
      BY <3>1 DEF AppendEvent, AppendUnconfirmed
    <3>3. CASE i \in DOMAIN log
      <4>1. log'[i] = log[i]
        BY <2>1, <3>1, <3>3, AppendProperties, LenProperties
      <4>2. QED
        BY <2>2, <3>3, <4>1
    <3>4. CASE i \notin DOMAIN log
      <4>1. log'[i] = call[w]
        BY <1>2, <2>1, <3>1, <3>4, AppendProperties, LenProperties
      <4>2. QED
        BY <3>1, <3>2, <4>1 DEF SavedFirst
    <3>5. QED
      BY <3>3, <3>4
  <2>5. QED
    BY <2>3, <2>4
<1>3. QED
  BY <1>1, <1>2 DEF SavedFirst, LedgerNeverAhead

\* The ledger never speaks of a review that reviews.json does not hold, as long as
\* reviews.json can be read and is not undone by a power loss.
THEOREM LedgerIsNeverAhead ==
    ASSUME FileKept
    PROVE  Spec => []LedgerNeverAhead
<1> DEFINE Inv == FilesInv /\ LoadsAll
           Ahead == SavedFirst /\ LedgerNeverAhead
<1>1. Init => Ahead
  <2>1. DOMAIN <<>> = {}
    OBVIOUS
  <2>2. QED
    BY <2>1 DEF Init, SavedFirst, LedgerNeverAhead
<1>2. Inv /\ Ahead /\ [Next]_vars => Ahead'
  BY AheadStep DEF FilesInv
<1>3. Spec => []Inv
  BY LoadsAllInvariant
<1> HIDE DEF Inv
<1>4. Spec => []Ahead
  BY <1>1, <1>2, <1>3, PTL DEF Spec
<1>5. QED
  BY <1>4, PTL

-----------------------------------------------------------------------------
(* Decisions in both files *)

\* A worker that decides holds the decision from the moment it has read its review,
\* and if nobody overlaps it the file holds it too once it is saved.
DecisionSaved ==
    \A w \in Workers :
        /\ pc[w] \in {"lock", "save", "append"} /\ call[w].event = "decided" =>
               Shows(mine[w], call[w])
        /\ pc[w] = "append" /\ alone[w] => reviews[call[w].review_id] = mine[w]

\* While a decision is settled reviews.json shows it.
SettledSaved ==
    \A id \in Ids : settled[id].event = "decided" => Shows(reviews[id], settled[id])

\* What a worker has decided, and saved, is not overwritten without an overlap.
LEMMA DecisionSavedStep ==
    ASSUME FileKept
    PROVE  TypeInv /\ LoadsAll /\ OverlapsTell /\ DecisionSaved /\ [Next]_vars
               => DecisionSaved'
<1> SUFFICES ASSUME TypeInv, LoadsAll, OverlapsTell, DecisionSaved, [Next]_vars,
                    NEW w \in Workers
             PROVE  /\ pc'[w] \in {"lock", "save", "append"}
                       /\ call'[w].event = "decided" => Shows(mine'[w], call'[w])
                    /\ pc'[w] = "append" /\ alone'[w] =>
                           reviews'[call'[w].review_id] = mine'[w]
  BY DEF DecisionSaved, Shows
<1> DEFINE Goal == /\ pc'[w] \in {"lock", "save", "append"}
                      /\ call'[w].event = "decided" => Shows(mine'[w], call'[w])
                   /\ pc'[w] = "append" /\ alone'[w] =>
                          reviews'[call'[w].review_id] = mine'[w]
<1>1. CASE pc'[w] = "idle"
  BY <1>1
<1>2. ASSUME NEW c \in LedgerEvents, Call(w, c) PROVE Goal
  BY <1>2, CallStarts
<1>3. CASE Get(w)
  <2> DEFINE review == reviews[call[w].review_id]
  <2>1. /\ pc[w] = "get" /\ pc'[w] = "lock" /\ review # NoReview
        /\ call' = call /\ mine'[w] = ApplyCall(review, call[w])
    BY <1>3 DEF Get, Step, TypeInv, TypeOK
  <2>2. call[w] \in LedgerEvents /\ call[w].event # "reviewed"
    BY <2>1 DEF TypeInv, Holds
  <2>3. review \in Reviews
    BY <2>1, <2>2, EventTypes DEF TypeInv, TypeOK
  <2> HIDE DEF review
  <2>4. mine'[w] = ReplayEntry(review, call[w])
    BY <2>1, <2>2, <2>3, ToolsAgreeWithReplay DEF Entry
  <2>5. call[w].event = "decided" => Shows(mine'[w], call[w])
    BY <2>2, <2>3, <2>4, DecisionShows
  <2>6. QED
    BY <2>1, <2>5
<1>4. CASE LockAndLoad(w) \/ LoadUnreadable(w)
  <2>1. pc[w] = "lock" /\ pc'[w] = "save" /\ call' = call /\ mine' = mine
    BY <1>4 DEF LockAndLoad, LoadUnreadable, Step, TypeInv, TypeOK
  <2>2. QED
    BY <2>1 DEF DecisionSaved
<1>5. CASE Save(w)
  <2>1. pc[w] = "save" /\ pc'[w] = "append" /\ call' = call /\ mine' = mine
    BY <1>5 DEF Save, Step, TypeInv, TypeOK
  <2>2. reviews'[call[w].review_id] = mine[w]
    BY <1>5, SaveWrites
  <2>3. QED
    BY <2>1, <2>2 DEF DecisionSaved
<1>6. CASE /\ pc'[w] # "idle" /\ pc'[w] = pc[w]
           /\ call'[w] = call[w] /\ mine'[w] = mine[w]
  <2>1. alone'[w] => alone[w]
    <3>1. ASSUME NEW u \in Workers, NEW c \in LedgerEvents, Call(u, c), alone'[w]
          PROVE  alone[w]
      BY <1>6, <3>1, CallStarts
    <3>2. CASE \A u \in Workers, c \in LedgerEvents : ~Call(u, c)
      BY <3>2, OnlyCallsStart
    <3>3. QED
      BY <3>1, <3>2
  <2>2. ASSUME pc[w] = "append", alone[w]
        PROVE  reviews'[call[w].review_id] = mine[w]
    <3>1. call[w].review_id \in Ids
      BY <2>2, EventTypes DEF TypeInv, Holds
    <3>2. CASE reviews' = reviews
      BY <2>2, <3>2 DEF DecisionSaved
    <3>3. ASSUME NEW u \in Workers, Save(u)
          PROVE  reviews'[call[w].review_id] = mine[w]
      <4>1. pc[u] = "save" /\ call[u].review_id # call[w].review_id
        BY <2>2, <3>3, SaveWrites DEF OverlapsTell
      <4>2. reviews'[call[w].review_id] = reviews[call[w].review_id]
        BY <3>1, <3>3, <4>1, SaveWrites
      <4>3. QED
        BY <2>2, <4>2 DEF DecisionSaved
    <3>4. QED
      BY <3>2, <3>3, OnlySavesWrite
  <2>3. QED
    BY <1>6, <2>1, <2>2 DEF DecisionSaved
<1>7. QED
  BY <1>1, <1>2, <1>3, <1>4, <1>5, <1>6, WorkerSteps

\* A decision that settles is in reviews.json, and nobody saves over it until the
\* next call on its review.
LEMMA SettledSavedStep ==
    ASSUME FileKept
    PROVE  /\ TypeInv /\ LoadsAll /\ SettledRests /\ DecisionSaved /\ SettledSaved
           /\ [Next]_vars
           => SettledSaved'
<1> SUFFICES ASSUME TypeInv, LoadsAll, SettledRests, DecisionSaved, SettledSaved,
                    [Next]_vars, NEW id \in Ids, settled'[id].event = "decided"
             PROVE  Shows(reviews'[id], settled'[id])
  BY DEF SettledSaved, Shows
<1>1. CASE settled'[id] = settled[id]
  <2>1. Serving(id) = {}
    BY <1>1 DEF SettledRests
  <2>2. ASSUME NEW w \in Workers, Save(w) PROVE reviews'[id] = reviews[id]
    <3>1. pc[w] = "save" /\ call[w].review_id # id
      BY <2>1, <2>2, SaveWrites DEF Serving
    <3>2. QED
      BY <2>2, <3>1, SaveWrites
  <2>3. reviews'[id] = reviews[id]
    BY <2>2, OnlySavesWrite
  <2>4. QED
    BY <1>1, <2>3 DEF SettledSaved
<1>2. CASE settled'[id] # settled[id]
  <2>1. ASSUME NEW w \in Workers, NEW c \in LedgerEvents, Call(w, c) PROVE FALSE
    BY <1>2, <2>1 DEF Call, TypeInv, TypeOK, Idle
  <2>2. PICK w \in Workers : AppendEvent(w)
    BY <1>2, <2>1, SettledSteps
  <2>3. /\ pc[w] = "append" /\ call[w].event = "decided" /\ alone[w]
        /\ settled' = [settled EXCEPT ![call[w].review_id] = call[w]]
        /\ reviews' = reviews
    BY <1>2, <2>2 DEF AppendEvent, Finish, Step
  <2>4. call[w].review_id = id /\ settled'[id] = call[w]
    BY <1>2, <2>3 DEF TypeInv, TypeOK
  <2>5. reviews[id] = mine[w] /\ Shows(mine[w], call[w])
    BY <2>3, <2>4 DEF DecisionSaved
  <2>6. QED
    BY <2>3, <2>4, <2>5
<1>3. QED
  BY <1>1, <1>2

\* A decision whose call returned and overlapped no other is in both files until the
\* next call on its review, as long as reviews.json can be read and is not undone by
\* a power loss; saves and appends may fail and workers be killed meanwhile.
THEOREM DecisionsStayInBoth ==
    ASSUME FileKept
    PROVE  Spec => []SettledDecision
<1> DEFINE Inv == FilesInv /\ LoadsAll
           Decided == SettledRests /\ DecisionSaved /\ SettledSaved
<1>1. Init => Decided
  BY DEF Init, SettledRests, DecisionSaved, SettledSaved, Idle
<1>2. Inv /\ Decided /\ [Next]_vars => Decided'
  BY SettledStep, DecisionSavedStep, SettledSavedStep DEF FilesInv
<1>3. Decided => SettledDecision
  BY DEF SettledRests, SettledSaved, SettledDecision
<1>4. Spec => []Inv
  BY LoadsAllInvariant
<1> HIDE DEF Inv, Decided
<1>5. Spec => []Decided
  BY <1>1, <1>2, <1>4, PTL DEF Spec
<1>6. QED
  BY <1>3, <1>5, PTL

-----------------------------------------------------------------------------
(* What is saved *)

OneWorker == \A u, w \in Workers : u = w

\* What a worker holds is what its tool makes of the review in the file.
Current(w) ==
    LET id == call[w].review_id IN
    /\ reviews[id] = NoReview <=> call[w].event = "reviewed"
    /\ mine[w] = ApplyCall(reviews[id], call[w])

\* So it is with every worker that is about to save and whose call overlapped no
\* other.
MineCurrent ==
    \A w \in Workers : pc[w] \in {"lock", "save"} /\ alone[w] => Current(w)

\* Nobody else writes that review meanwhile: those who save load all of the file, or
\* there is nobody else.
LEMMA MineStep ==
    /\ TypeInv /\ (LoadsAll \/ OneWorker) /\ OverlapsTell /\ MineCurrent
    /\ [Next]_vars
    => MineCurrent'
<1> SUFFICES ASSUME TypeInv, LoadsAll \/ OneWorker, OverlapsTell, MineCurrent,
                    [Next]_vars, NEW w \in Workers,
                    pc'[w] \in {"lock", "save"}, alone'[w]
             PROVE  Current(w)'
  BY DEF MineCurrent
<1>1. ASSUME NEW c \in LedgerEvents, Call(w, c) PROVE Current(w)'
  <2>1. c.event = "reviewed" /\ call'[w] = c
    <3>1. call'[w] = c /\ pc'[w] = IF c.event = "reviewed" THEN "lock" ELSE "get"
      BY <1>1, CallStarts
    <3>2. QED
      BY <3>1
  <2>2. reviews' = reviews /\ reviews[c.review_id] = NoReview
    BY <1>1, <2>1 DEF Call, files
  <2>3. mine' = [mine EXCEPT ![w] = IF c.event = "reviewed" THEN new_review(c)
                                    ELSE NoReview]
    BY <1>1 DEF Call
  <2>4. mine'[w] = new_review(c)
    BY <2>1, <2>3 DEF TypeInv, TypeOK
  <2>5. ApplyCall(reviews[c.review_id], c) = new_review(c)
    BY <2>1 DEF ApplyCall
  <2>6. QED
    BY <2>1, <2>2, <2>4, <2>5 DEF Current
<1>2. CASE Get(w)
  <2> DEFINE review == reviews[call[w].review_id]
  <2>1. /\ pc[w] = "get" /\ review # NoReview /\ call' = call
        /\ mine'[w] = ApplyCall(review, call[w]) /\ reviews' = reviews
    BY <1>2 DEF Get, Step, files, TypeInv, TypeOK
  <2>2. call[w].event # "reviewed"
    BY <2>1 DEF TypeInv, Holds
  <2>3. QED
    BY <2>1, <2>2 DEF Current
<1>3. CASE LockAndLoad(w) \/ LoadUnreadable(w)
  <2>1. /\ pc[w] = "lock" /\ call' = call /\ mine' = mine /\ reviews' = reviews
        /\ alone' = alone
    BY <1>3 DEF LockAndLoad, LoadUnreadable, Step, Trouble, history
  <2>2. QED
    BY <2>1 DEF MineCurrent, Current
<1>4. CASE Save(w)
  BY <1>4 DEF Save, Step, TypeInv, TypeOK
<1>5. CASE pc'[w] = pc[w] /\ call'[w] = call[w] /\ mine'[w] = mine[w]
  <2> DEFINE id == call[w].review_id
  <2>1. alone[w]
    <3>1. ASSUME NEW u \in Workers, NEW c \in LedgerEvents, Call(u, c)
          PROVE  alone[w]
      BY <1>5, <3>1, CallStarts
    <3>2. CASE \A u \in Workers, c \in LedgerEvents : ~Call(u, c)
      BY <3>2, OnlyCallsStart
    <3>3. QED
      BY <3>1, <3>2
  <2>2. id \in Ids
    BY <1>5, EventTypes DEF TypeInv, Holds
  <2>3. reviews'[id] = reviews[id]
    <3>1. ~PowerLoss
      BY DEF PowerLoss
    <3>2. ASSUME NEW u \in Workers, Save(u) PROVE reviews'[id] = reviews[id]
      <4>1. u # w
        BY <1>5, <3>2 DEF Save, Step, TypeInv, TypeOK
      <4>2. LoadsAll
        BY <4>1 DEF OneWorker
      <4>3. pc[u] = "save" /\ call[u].review_id # id
        BY <1>5, <2>1, <3>2, <4>1, <4>2, SaveWrites DEF OverlapsTell
      <4>4. QED
        BY <2>2, <3>2, <4>2, <4>3, SaveWrites
    <3>3. QED
      BY <3>1, <3>2, OnlySavesOrPowerWrite
  <2>4. QED
    BY <1>5, <2>1, <2>3 DEF MineCurrent, Current
<1>6. QED
  BY <1>1, <1>2, <1>3, <1>4, <1>5, WorkerSteps

\* What it saves is that.
LEMMA SavesCurrent ==
    ASSUME TypeInv, MineCurrent, NEW w \in Workers, Save(w), alone[w]
    PROVE  LET id == call[w].review_id IN
           /\ reviews[id] = NoReview <=> call[w].event = "reviewed"
           /\ reviews'[id] = ApplyCall(reviews[id], call[w])
<1> DEFINE id == call[w].review_id
<1>1. pc[w] = "save" /\ reviews' = [loaded[w] EXCEPT ![id] = mine[w]]
  BY DEF Save, Step, Upserted
<1>2. id \in Ids
  BY <1>1, EventTypes DEF TypeInv, Holds
<1>3. reviews'[id] = mine[w]
  BY <1>1, <1>2 DEF TypeInv, TypeOK
<1>4. QED
  BY <1>1, <1>3 DEF MineCurrent, Current

\* An attestation that is saved over the review it was made of does not lower it.
LEMMA SaveKeepsGrade ==
    ASSUME TypeInv, MineCurrent, NEW w \in Workers, Save(w),
           call[w].event = "attested", alone[w]
    PROVE  LET id == call[w].review_id IN
           ~grade_outranks(reviews[id].overall_grade, reviews'[id].overall_grade)
<1> DEFINE id == call[w].review_id
           review == reviews[id]
<1>1. pc[w] = "save"
  BY DEF Save, Step
<1>2. id \in Ids /\ call[w] \in LedgerEvents
  BY <1>1, EventTypes DEF TypeInv, Holds
<1>3. review # NoReview /\ reviews'[id] = ApplyCall(review, call[w])
  BY SavesCurrent
<1>4. review \in Reviews /\ reviews'[id] = attest_closure(review, call[w])
  <2>1. review \in Reviews
    BY <1>2, <1>3 DEF TypeInv, TypeOK
  <2>2. ApplyCall(review, call[w]) = attest_closure(review, call[w])
    BY DEF ApplyCall
  <2>3. QED
    BY <1>3, <2>1, <2>2
<1>5. PICK new : new = reviews'[id]
  OBVIOUS
<1> HIDE DEF id, review
<1>6. review.overall_grade \in Grades \cup {NoGrade} /\ call[w].grade \in Grades
  BY <1>2, <1>4, EventTypes DEF Reviews
<1>7. \A g \in Grades \cup {NoGrade} : grade_rank(g) \in Int
  BY DEF grade_rank, Grades, GRADE_RANK
<1>8. new.overall_grade =
          IF grade_rank(call[w].grade) > grade_rank(review.overall_grade)
          THEN call[w].grade ELSE review.overall_grade
  BY <1>4, <1>5 DEF attest_closure, Reviews
<1>9. ~grade_outranks(review.overall_grade, new.overall_grade)
  BY <1>6, <1>7, <1>8 DEF grade_outranks
<1>10. QED
  BY <1>5, <1>9 DEF id, review

\* A call is alone where there is only one worker.
LEMMA OneIsAlone ==
    ASSUME OneWorker
    PROVE  TypeInv /\ (\A w \in Workers : alone[w]) /\ [Next]_vars
               => \A w \in Workers : alone'[w]
<1> SUFFICES ASSUME TypeInv, \A w \in Workers : alone[w], [Next]_vars,
                    NEW w \in Workers
             PROVE  alone'[w]
  OBVIOUS
<1>1. ASSUME NEW u \in Workers, NEW c \in LedgerEvents, Call(u, c) PROVE alone'[w]
  <2>1. u = w /\ Serving(c.review_id) = {}
    BY <1>1, CallStarts DEF OneWorker, Serving
  <2>2. alone' = [v \in Workers |->
                     IF v = u THEN Serving(c.review_id) = {}
                     ELSE alone[v] /\ v \notin Serving(c.review_id)]
    BY <1>1 DEF Call
  <2>3. alone'[w] = (Serving(c.review_id) = {})
    BY <2>1, <2>2, Zenon
  <2>4. QED
    BY <2>1, <2>3
<1>2. CASE \A u \in Workers, c \in LedgerEvents : ~Call(u, c)
  BY <1>2, OnlyCallsStart
<1>3. QED
  BY <1>1, <1>2

\* With one worker an attestation never lowers the grade of a review, whatever
\* fails.
THEOREM AttestationsNeverLower ==
    ASSUME OneWorker
    PROVE  Spec => AttestNeverLowers
<1> DEFINE Alone == \A w \in Workers : alone[w]
           Keeps == \A w \in Workers : Save(w) /\ call[w].event = "attested" =>
                        LET id == call[w].review_id IN
                        ~grade_outranks(reviews[id].overall_grade,
                                        reviews'[id].overall_grade)
           Inv == Alone /\ MineCurrent
<1>1. Init => Inv
  BY DEF Init, MineCurrent
<1>2. FilesInv /\ Inv /\ [Next]_vars => Inv'
  BY OneIsAlone, MineStep DEF FilesInv
<1>3. FilesInv /\ Inv => [Keeps]_vars
  BY SaveKeepsGrade DEF FilesInv
<1> HIDE DEF Inv, Keeps
<1>4. Spec => [][Keeps]_vars
  BY <1>1, <1>2, <1>3, FilesInvariant, PTL DEF Spec
<1>5. QED
  BY <1>4 DEF Keeps, AttestNeverLowers

\* A call that overlapped no other on its review saves what its tool makes of the
\* review as the file holds it by then, however many others read, save, fail or are
\* killed meanwhile: as long as reviews.json can be read and no power loss undoes it.
THEOREM AloneCallsSaveCurrent ==
    ASSUME FileKept
    PROVE  Spec => AloneSavesCurrent
<1> DEFINE Inv == FilesInv /\ LoadsAll
           Saves == \A w \in Workers : Save(w) /\ alone[w] =>
                        LET id == call[w].review_id IN
                        /\ reviews[id] = NoReview <=> call[w].event = "reviewed"
                        /\ reviews'[id] = ApplyCall(reviews[id], call[w])
<1>1. Init => MineCurrent
  BY DEF Init, MineCurrent
<1>2. Inv /\ MineCurrent /\ [Next]_vars => MineCurrent'
  BY MineStep DEF FilesInv
<1>3. Inv /\ MineCurrent => [Saves]_vars
  BY SavesCurrent DEF FilesInv
<1>4. Spec => []Inv
  BY LoadsAllInvariant
<1> HIDE DEF Inv, Saves
<1>5. Spec => [][Saves]_vars
  BY <1>1, <1>2, <1>3, <1>4, PTL DEF Spec
<1>6. QED
  BY <1>5 DEF Saves, AloneSavesCurrent

-----------------------------------------------------------------------------
(* The gate *)

\* One worker, a ledger that never refuses, and nothing going wrong but saves that
\* fail.
Undisturbed == OneWorker /\ Failures \subseteq {"save"} /\ MaxSeals = 0

\* Then no call is cut between its two writes.
NeverTroubled == troubled = {} /\ sealed = FALSE

\* No call overlaps another, none is refused and none is killed.
LEMMA TroubledStep ==
    ASSUME Undisturbed
    PROVE  TypeInv /\ NeverTroubled /\ [Next]_vars => NeverTroubled'
<1> SUFFICES ASSUME TypeInv, NeverTroubled, [Next]_vars PROVE NeverTroubled'
  OBVIOUS
<1>1. ASSUME NEW w \in Workers, NEW c \in LedgerEvents, Call(w, c)
      PROVE  NeverTroubled'
  <2>1. Serving(c.review_id) = {}
    BY <1>1, CallStarts DEF Undisturbed, OneWorker, Serving
  <2>2. QED
    BY <1>1, <2>1 DEF Call, NeverTroubled, files
<1>2. ASSUME NEW w \in Workers, HandlerStep(w) PROVE NeverTroubled'
  BY <1>2 DEF HandlerStep, Get, GetNotFound, LockAndLoad, Save, AppendEvent,
              AppendRefused, files, history, NeverTroubled
<1>3. ASSUME NEW w \in Workers, HandlerFails(w) PROVE NeverTroubled'
  BY <1>3 DEF HandlerFails, AppendLost, AppendUnconfirmed, SaveFails, GetUnreadable,
              LoadUnreadable, Crash, Failure, Undisturbed, history, NeverTroubled
<1>4. CASE SealOrUnseal
  BY <1>4 DEF SealOrUnseal, Undisturbed, TypeInv, TypeOK
<1>5. CASE PowerLoss
  BY <1>5 DEF PowerLoss, Failure, Undisturbed
<1>6. CASE VerifyLoad \/ VerifyLoadUnreadable \/ VerifyReplay \/ UNCHANGED vars
  BY <1>6 DEF VerifyLoad, VerifyLoadUnreadable, VerifyReplay, Load, files, history,
              vars, NeverTroubled
<1>7. QED
  BY <1>1, <1>2, <1>3, <1>4, <1>5, <1>6 DEF Next

\* The view of the gate is the replay of the ledger.
ViewReplayed == View = replay_reviews(log)

\* It is, since a review that is saved and not yet in the ledger is not shown yet.
LEMMA ViewIsReplay == FilesInv /\ NeverTroubled => ViewReplayed
<1> SUFFICES ASSUME FilesInv, NeverTroubled PROVE ViewReplayed
  OBVIOUS
<1> DEFINE replayed == replay_reviews(log)
           Appends(w, id) == pc[w] = "append" /\ call[w].review_id = id
           Seen(id) == IF \E w \in Workers : Appends(w, id)
                       THEN loaded[CHOOSE w \in Workers : Appends(w, id)][id]
                       ELSE reviews[id]
<1>1. replayed \in Stored
  BY ReplayType DEF FilesInv, TypeInv, TypeOK
<1>2. ASSUME NEW id \in Ids PROVE Seen(id) = replayed[id]
  <2>1. Agrees(id)
    BY DEF FilesInv, FilesAgree, NeverTroubled
  <2>2. CASE \E w \in Workers : Appends(w, id)
    <3> DEFINE u == CHOOSE w \in Workers : Appends(w, id)
    <3>1. u \in Workers /\ Appends(u, id)
      BY <2>2
    <3> HIDE DEF u
    <3>2. u \in Serving(id)
      BY <3>1 DEF Serving
    <3>3. loaded[u][id] = replayed[id]
      BY <2>1, <3>1, <3>2 DEF Agrees
    <3>4. QED
      BY <2>2, <3>3 DEF u
  <2>3. CASE ~\E w \in Workers : Appends(w, id)
    BY <2>1, <2>3 DEF Agrees, Serving
  <2>4. QED
    BY <2>2, <2>3
<1>3. View = [id \in Ids |-> Seen(id)]
  BY DEF View
<1> HIDE DEF Seen, replayed
<1>4. View = replayed
  BY <1>1, <1>2, <1>3 DEF Stored
<1>5. QED
  BY <1>4 DEF replayed, ViewReplayed

\* The gate says the same of reviews and events as the tools.
LEMMA GateSame ==
    /\ Gate!NoReview = NoReview
    /\ Gate!LedgerEvents = LedgerEvents
    /\ \A review, c : Gate!ApplyCall(review, c) = ApplyCall(review, c)
    /\ \A state, c : Gate!ReplayStep(state, c) = ReplayStep(state, c)
<1>1. Gate!NoReview = NoReview
  BY DEF Gate!NoReview, NoReview
<1>2. Gate!LedgerEvents = LedgerEvents
  BY DEF Gate!LedgerEvents, LedgerEvents, Gate!EventsOf, EventsOf,
         Gate!ReviewedEvents, ReviewedEvents, Gate!AttestedEvents, AttestedEvents,
         Gate!RequestedEvents, RequestedEvents, Gate!DecidedEvents, DecidedEvents,
         Gate!Event, Event, Gate!Decisions, Decisions, Gate!NoDecision, NoDecision,
         Gate!NoGrade, NoGrade
<1>3. \A grade : Gate!grade_rank(grade) = grade_rank(grade)
  BY DEF Gate!grade_rank, grade_rank, Gate!Grades, Grades, Gate!GRADE_RANK,
         GRADE_RANK
<1>4. \A decision : Gate!StatusOf(decision) = StatusOf(decision)
  BY DEF Gate!StatusOf, StatusOf
<1>5. ASSUME NEW review, NEW c PROVE Gate!ApplyCall(review, c) = ApplyCall(review, c)
  BY <1>3, <1>4
  DEF Gate!ApplyCall, ApplyCall, Gate!new_review, new_review, Gate!NoDecision,
      NoDecision, Gate!attest_closure, attest_closure, Gate!request_approval,
      request_approval, Gate!approve, approve
<1>6. ASSUME NEW entry, NEW c PROVE Gate!ReplayEntry(entry, c) = ReplayEntry(entry, c)
  BY <1>3, <1>4
  DEF Gate!ReplayEntry, ReplayEntry, Gate!grade_outranks, grade_outranks
<1>7. Gate!BlankReview = BlankReview
  BY DEF Gate!BlankReview, BlankReview, Gate!NoGrade, NoGrade, Gate!NoDecision,
         NoDecision
<1>8. ASSUME NEW state, NEW c PROVE Gate!ReplayStep(state, c) = ReplayStep(state, c)
  BY <1>1, <1>6, <1>7 DEF Gate!ReplayStep, ReplayStep
<1>9. QED
  BY <1>1, <1>2, <1>5, <1>8

\* The gate replays as the tools do.
LEMMA GateReplays == Gate!replay_reviews(log) = replay_reviews(log)
<1>1. \A s : Gate!Max(s) = Max(s)
  BY DEF Gate!Max, Max
<1>2. QED
  BY <1>1, GateSame
  DEF Gate!replay_reviews, replay_reviews, Gate!FoldLeft, FoldLeft,
      Gate!MapThenFoldSet, MapThenFoldSet

\* A step of the tools is a step of the gate, or none that it sees.
LEMMA GateStep ==
    ASSUME FilesInv, NeverTroubled, ViewReplayed, ViewReplayed', [Next]_vars
    PROVE  [Gate!Next]_(Gate!vars)
<1>1. View = replay_reviews(log) /\ View' = replay_reviews(log')
  BY DEF ViewReplayed
<1>2. CASE log' = log
  BY <1>1, <1>2 DEF Gate!vars
<1>3. CASE log' # log
  <2>1. PICK w \in Workers : /\ pc[w] = "append" /\ call[w] \in LedgerEvents
                             /\ log' = Append(log, call[w])
    BY <1>3, LogSteps DEF FilesInv
  <2> DEFINE id == call[w].review_id
             c == call[w]
  <2>2. id \in Ids /\ w \in Serving(id)
    BY <2>1, EventTypes DEF Serving
  <2>3. c.event = "reviewed" <=> View[id] = NoReview
    BY <1>1, <2>1, <2>2 DEF FilesInv, FilesAgree, Agrees, Prepared, NeverTroubled
  <2>4. View \in Stored /\ View' \in Stored
        /\ View'[id] = ReplayEntry(Entry(View[id]), c)
        /\ \A other \in Ids \ {id} : View'[other] = View[other]
    BY <1>1, <2>1, ReplayGrows DEF FilesInv, TypeInv, TypeOK
  <2>5. ApplyCall(View[id], c) = ReplayEntry(Entry(View[id]), c)
    BY <2>1, <2>2, <2>3, <2>4, ToolsAgreeWithReplay DEF Stored
  <2>6. View' = [View EXCEPT ![id] = ApplyCall(View[id], c)]
    BY <2>2, <2>4, <2>5 DEF Stored
  <2>7. Gate!Commit(c)
    BY <2>1, <2>3, <2>6, GateSame DEF Gate!Commit
  <2>8. QED
    BY <2>1, <2>7, GateSame DEF Gate!Next
<1>4. QED
  BY <1>2, <1>3

\* What the theorems about the gate rest on.
LEMMA GateInvariant ==
    ASSUME Undisturbed
    PROVE  Spec => [](FilesInv /\ NeverTroubled /\ ViewReplayed)
<1>1. Init => NeverTroubled
  BY DEF Init, NeverTroubled
<1>2. FilesInv /\ NeverTroubled /\ [Next]_vars => NeverTroubled'
  BY TroubledStep DEF FilesInv
<1>3. QED
  BY <1>1, <1>2, FilesInvariant, ViewIsReplay, PTL DEF Spec

\* Undisturbed, a reconciliation run at any moment finds nothing.
THEOREM GateIsReconciled ==
    ASSUME Undisturbed
    PROVE  Spec => []GateReconciled
<1>1. ViewReplayed => GateReconciled
  BY GateReplays DEF ViewReplayed, GateReconciled, Gate!Reconciled
<1>2. QED
  BY <1>1, GateInvariant, PTL

\* Undisturbed, the tools implement the gate: every call changes its review and
\* enters the ledger in one step.
THEOREM ToolsImplementGate ==
    ASSUME Undisturbed
    PROVE  Spec => ImplementsGate
<1> DEFINE Inv == FilesInv /\ NeverTroubled /\ ViewReplayed
<1>1. Init => Gate!Init
  <2>1. SUFFICES ASSUME Init PROVE Gate!Init
    OBVIOUS
  <2>2. \A w \in Workers : pc[w] = "idle"
    BY <2>1 DEF Init
  <2>3. View = [id \in Ids |-> reviews[id]]
    BY <2>2 DEF View
  <2>4. QED
    BY <2>1, <2>3 DEF Init, Gate!Init, Nothing, NoReview, Gate!NoReview
<1>2. Inv /\ Inv' /\ [Next]_vars => [Gate!Next]_(Gate!vars)
  BY GateStep
<1>3. Spec => []Inv
  BY GateInvariant
<1> HIDE DEF Inv
<1>4. Spec => [][Gate!Next]_(Gate!vars)
  BY <1>2, <1>3, PTL DEF Spec
<1>5. QED
  BY <1>1, <1>4, PTL DEF Spec, ImplementsGate, Gate!Spec
=============================================================================
