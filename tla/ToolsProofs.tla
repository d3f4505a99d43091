------------------------------ MODULE ToolsProofs ------------------------------
(***************************************************************************)
(* Theorems about the diff grader and the queries, for texts, ledgers and  *)
(* shelves of every length.                                                *)
(*                                                                         *)
(* The grader is two folds.  Each is computed by a function on the sets of *)
(* positions; that it exists, and what it gives for the first k of them,   *)
(* is shown by the least k for which it would fail.  The queries filter    *)
(* and sort; the lemmas of ListProofs say what that gives.                 *)
(***************************************************************************)
EXTENDS MCTools, ListProofs

-----------------------------------------------------------------------------
(* The inputs *)

Records == [review_id : ReviewIds, line : Nat]
Shelved == [status : Statuses, created : Int]

\* What is built up: texts of sample lines, ledgers whose lines are numbered, shelves.
TypeInv ==
    /\ text \in Seq(SampleLines(SampleBodies))
    /\ ledger \in Seq({Torn} \cup Records)
    /\ \A i \in DOMAIN ledger : ledger[i] # Torn => ledger[i].line = i - 1
    /\ shelf \in Seq(Shelved)
    /\ zone \in Zones

\* The later lines of a text are samples as well.
LEMMA FewAreSamples ==
    ASSUME NEW line \in SampleLines(FewBodies)
    PROVE  line \in SampleLines(SampleBodies)
<1>1. FewBodies \subseteq SampleBodies
  BY DEF FewBodies, SampleBodies, Setting, Values
<1>2. QED
  BY <1>1 DEF SampleLines

\* Every step adds an element of the right type.
LEMMA InputTypes == Spec => []TypeInv
<1>1. Init => TypeInv
  <2>1. UTC \in Zones
    BY MCToolsAssumption DEF UTC, Zones
  <2>2. QED
    BY <2>1, EmptySeq DEF Init, TypeInv
<1>2. TypeInv /\ [Next]_vars => TypeInv'
  <2>1. SUFFICES ASSUME TypeInv, [Next]_vars PROVE TypeInv'
    OBVIOUS
  <2>2. CASE WriteText
    <3>1. PICK line \in SampleLines(IF Len(text) = 0 THEN SampleBodies ELSE FewBodies) :
              text' = Append(text, line)
      BY <2>2 DEF WriteText
    <3>2. line \in SampleLines(SampleBodies)
      BY FewAreSamples
    <3>3. text' \in Seq(SampleLines(SampleBodies))
      BY <2>1, <3>1, <3>2, AppendProperties DEF TypeInv
    <3>4. ledger' = ledger /\ shelf' = shelf /\ zone' = zone
      BY <2>2 DEF WriteText
    <3>5. QED
      BY <2>1, <3>3, <3>4 DEF TypeInv
  <2>3. CASE GrowLedger
    <3>1. PICK rec \in {Torn} \cup [review_id : ReviewIds, line : {Len(ledger)}] :
              ledger' = Append(ledger, rec)
      BY <2>3 DEF GrowLedger
    <3>2. Len(ledger) \in Nat /\ DOMAIN ledger = 1..Len(ledger)
      BY <2>1, LenProperties DEF TypeInv
    <3>3. rec \in {Torn} \cup Records /\ (rec # Torn => rec.line = Len(ledger))
      BY <3>2 DEF Records
    <3>4. /\ ledger' \in Seq({Torn} \cup Records)
          /\ Len(ledger') = Len(ledger) + 1
          /\ \A i \in 1..Len(ledger) : ledger'[i] = ledger[i]
          /\ ledger'[Len(ledger) + 1] = rec
      BY <2>1, <3>1, <3>3, AppendProperties DEF TypeInv
    <3>5. DOMAIN ledger' = 1..(Len(ledger) + 1)
      BY <3>4, LenProperties
    <3>6. ASSUME NEW i \in DOMAIN ledger', ledger'[i] # Torn
          PROVE  ledger'[i].line = i - 1
      <4>1. CASE i = Len(ledger) + 1
        BY <3>2, <3>3, <3>4, <3>6, <4>1
      <4>2. CASE i \in 1..Len(ledger)
        BY <2>1, <3>2, <3>4, <3>6, <4>2 DEF TypeInv
      <4>3. QED
        BY <3>2, <3>5, <3>6, <4>1, <4>2
    <3>7. text' = text /\ shelf' = shelf /\ zone' = zone
      BY <2>3 DEF GrowLedger
    <3>8. QED
      BY <2>1, <3>4, <3>6, <3>7 DEF TypeInv
  <2>4. CASE GrowShelf
    <3>1. PICK review \in [status : Statuses, created : 0..MaxCreated] :
              shelf' = Append(shelf, review)
      BY <2>4 DEF GrowShelf
    <3>2. review \in Shelved
      BY DEF Shelved
    <3>3. shelf' \in Seq(Shelved)
      BY <2>1, <3>1, <3>2, AppendProperties DEF TypeInv
    <3>4. text' = text /\ ledger' = ledger
      BY <2>4 DEF GrowShelf
    <3>5. zone' \in Zones
      BY <2>1, <2>4 DEF GrowShelf, TypeInv
    <3>6. QED
      BY <2>1, <3>3, <3>4, <3>5 DEF TypeInv
  <2>5. CASE UNCHANGED vars
    BY <2>1, <2>5 DEF TypeInv, vars
  <2>6. QED
    BY <2>1, <2>2, <2>3, <2>4, <2>5 DEF Next
<1>3. QED
  BY <1>1, <1>2, PTL DEF Spec

-----------------------------------------------------------------------------
(* get_audit_log *)

\* The last entries of a list, as many as the limit allows.
LEMMA LastOnes ==
    ASSUME NEW T, NEW list \in Seq(T), NEW limit \in Nat \ {0}
    PROVE  \E first \in 0..Len(list) :
               /\ From(list, -limit) \in Seq(T)
               /\ Len(From(list, -limit)) = Len(list) - first
               /\ \A k \in 1..(Len(list) - first) :
                      From(list, -limit)[k] = list[first + k]
               /\ \A k \in 1..Len(list) : k > first <=> Len(list) - k < limit
<1> DEFINE n == Len(list)
           first == IF n + (-limit) < 0 THEN 0 ELSE n + (-limit)
           last == SubSeq(list, first + 1, n)
<1>1. n \in Nat
  BY LenProperties
<1> HIDE DEF n
<1>2. first \in 0..n /\ first + 1 \in Int /\ n \in Int
  BY <1>1
<1>3. From(list, -limit) = last
  <2>1. ~(-limit >= 0)
    OBVIOUS
  <2>2. QED
    BY <2>1 DEF From, n
<1>4. \A i \in (first + 1)..n : list[i] \in T
  <2>1. \A i \in (first + 1)..n : i \in 1..Len(list)
    BY <1>2 DEF n
  <2>2. QED
    BY <2>1, ElementOfSeq
<1> HIDE DEF first
<1>5. /\ last \in Seq(T)
      /\ Len(last) = IF first + 1 <= n THEN n - (first + 1) + 1 ELSE 0
      /\ \A k \in 1..(n - (first + 1) + 1) : last[k] = list[(first + 1) + k - 1]
  BY <1>2, <1>4, SubSeqProperties
<1>6. Len(last) = n - first
  BY <1>2, <1>5
<1>7. \A k \in 1..(n - first) : last[k] = list[first + k]
  <2>1. SUFFICES ASSUME NEW k \in 1..(n - first) PROVE last[k] = list[first + k]
    OBVIOUS
  <2>2. k \in 1..(n - (first + 1) + 1) /\ (first + 1) + k - 1 = first + k
    BY <1>2
  <2>3. QED
    BY <1>5, <2>2
<1>8. \A k \in 1..n : k > first <=> n - k < limit
  BY <1>1 DEF first
<1>9. QED
  BY <1>2, <1>3, <1>5, <1>6, <1>7, <1>8 DEF n

\* get_audit_log gives the last entries that were asked for, in the order of the
\* ledger, as many as the limit allows and none for a limit of zero or less, however
\* long the ledger is and whatever lines of it are torn.
THEOREM LogTail == Spec => []LogIsTheTail
<1>1. TypeInv => LogIsTheTail
  <2> SUFFICES ASSUME TypeInv,
                      NEW id \in ReviewIds \cup {AnyReview}, NEW limit \in Limits
               PROVE  LET reply == get_audit_log(ledger, id, limit)
                          asked == Wanted(ledger, id)
                          later(i) == {j \in asked : j > i}
                      IN  /\ ToSet(reply.entries) = {ledger[i] : i \in
                                 {k \in asked : Cardinality(later(k)) < limit}}
                          /\ \A i, j \in DOMAIN reply.entries :
                                 i < j => reply.entries[i].line < reply.entries[j].line
                          /\ reply.count = Cardinality(ToSet(reply.entries))
    BY DEF LogIsTheTail, Wanted
  <2> DEFINE T == {Torn} \cup Records
             W == Wanted(ledger, id)
             n == Cardinality(W)
             list == Picked(ledger, W)
             entries == get_audit_log(ledger, id, limit).entries
             Final == {ledger[i] : i \in {k \in W :
                          Cardinality(Later(W, k)) < limit}}
             Goal == /\ ToSet(entries) = Final
                     /\ \A i, j \in DOMAIN entries :
                            i < j => entries[i].line < entries[j].line
                     /\ Len(entries) = Cardinality(ToSet(entries))
  <2>1. SUFFICES Goal
    BY DEF get_audit_log, Later
  <2>2. /\ ledger \in Seq(T) /\ W \in SUBSET DOMAIN ledger /\ limit \in Int
        /\ W \in SUBSET Int
        /\ \A i \in W : ledger[i].line = i - 1
    BY LenProperties DEF TypeInv, Wanted, Limits
  <2>3. IsFiniteSet(W)
    <3>1. DOMAIN ledger = 1..Len(ledger) /\ Len(ledger) \in Nat
      BY <2>2, LenProperties
    <3>2. IsFiniteSet(1..Len(ledger))
      BY <3>1, FS_Interval
    <3>3. QED
      BY <2>2, <3>1, <3>2, FS_Subset
  <2>4. n \in Nat
    BY <2>3, FS_CardinalityType
  <2> HIDE DEF T, W, entries, Final, Goal
  <2>5. PICK at \in [1..n -> W] :
            /\ list = [k \in 1..n |-> ledger[at[k]]]
            /\ \A k, l \in 1..n : k < l <=> at[k] < at[l]
            /\ \A k \in 1..n : Cardinality(Earlier(W, at[k])) = k - 1
            /\ \A i \in W : \E k \in 1..n : at[k] = i
    <3>1. ledger \in Seq(T) /\ W \in SUBSET DOMAIN ledger
      BY <2>2
    <3>2. \E at \in [1..Cardinality(W) -> W] :
              /\ Picked(ledger, W) = [k \in 1..Cardinality(W) |-> ledger[at[k]]]
              /\ \A k, l \in 1..Cardinality(W) : k < l <=> at[k] < at[l]
              /\ \A k \in 1..Cardinality(W) :
                     Cardinality(Earlier(W, at[k])) = k - 1
              /\ \A i \in W : \E k \in 1..Cardinality(W) : at[k] = i
      BY <3>1, PickedIs
    <3>3. QED
      BY <3>2
  <2>6. list \in Seq(T) /\ Len(list) = n
    BY <2>2, PickedSet
  <2>7. \A k \in 1..n : Cardinality(Later(W, at[k])) = n - k
    <3>1. SUFFICES ASSUME NEW k \in 1..n
                   PROVE  Cardinality(Later(W, at[k])) = n - k
      OBVIOUS
    <3>2. Cardinality(Later(W, at[k])) =
              n - Cardinality(Earlier(W, at[k])) - 1
      BY <2>2, <2>3, LaterCount
    <3>3. QED
      BY <2>4, <2>5, <3>2
  <2> HIDE DEF n, list
  <2>8. CASE limit <= 0
    <3>1. entries = <<>>
      BY <2>8 DEF get_audit_log, read_audit, entries
    <3>2. DOMAIN <<>> = {} /\ Len(<<>>) = 0
      BY EmptySeq, LenProperties
    <3>3. ToSet(entries) = {}
      BY <3>1, <3>2 DEF ToSet
    <3>4. Final = {}
      <4>1. SUFFICES ASSUME NEW i \in W PROVE ~(Cardinality(Later(W, i)) < limit)
        BY DEF Final
      <4>2. PICK k \in 1..n : at[k] = i
        BY <2>5
      <4>3. Cardinality(Later(W, i)) = n - k
        BY <2>7, <4>2
      <4>4. k <= n /\ n \in Int /\ k \in Int
        BY <2>4
      <4>5. QED
        BY <2>2, <2>8, <4>3, <4>4
    <3>5. \A i, j \in DOMAIN entries : entries[i].line < entries[j].line
      BY <3>1, <3>2
    <3>6. QED
      BY <3>1, <3>2, <3>3, <3>4, <3>5, FS_EmptySet DEF Goal
  <2>9. CASE limit > 0
    <3>1. entries = From(list, -limit)
      BY <2>2, <2>9 DEF get_audit_log, read_audit, entries, list, W
    <3>2. limit \in Nat \ {0}
      BY <2>2, <2>9
    <3>3. PICK first \in 0..n :
              /\ entries \in Seq(T) /\ Len(entries) = n - first
              /\ \A k \in 1..(n - first) : entries[k] = list[first + k]
              /\ \A k \in 1..n : k > first <=> n - k < limit
      <4>1. \E first \in 0..Len(list) :
                /\ From(list, -limit) \in Seq(T)
                /\ Len(From(list, -limit)) = Len(list) - first
                /\ \A k \in 1..(Len(list) - first) :
                       From(list, -limit)[k] = list[first + k]
                /\ \A k \in 1..Len(list) : k > first <=> Len(list) - k < limit
        BY <2>6, <3>2, LastOnes
      <4>2. QED
        BY <2>6, <3>1, <4>1
    <3>4. first \in Nat /\ DOMAIN entries = 1..(n - first)
      BY <2>4, <3>3, LenProperties
    <3>5. \A k \in 1..(n - first) : /\ first + k \in 1..n
                                    /\ entries[k] = ledger[at[first + k]]
      <4>1. SUFFICES ASSUME NEW k \in 1..(n - first)
                     PROVE  /\ first + k \in 1..n
                            /\ entries[k] = ledger[at[first + k]]
        OBVIOUS
      <4>2. first + k \in 1..n
        BY <2>4, <3>4
      <4>3. entries[k] = list[first + k]
        BY <3>3
      <4>4. list[first + k] = ledger[at[first + k]]
        BY <2>5, <4>2
      <4>5. QED
        BY <4>2, <4>3, <4>4
    <3>6. \A k, l \in 1..(n - first) :
              k < l => entries[k].line < entries[l].line
      <4>1. SUFFICES ASSUME NEW k \in 1..(n - first), NEW l \in 1..(n - first), k < l
                     PROVE  entries[k].line < entries[l].line
        OBVIOUS
      <4>2. first + k \in 1..n /\ first + l \in 1..n /\ first + k < first + l
        BY <3>4, <3>5, <4>1
      <4>3. at[first + k] < at[first + l]
        BY <2>5, <4>2
      <4>4. /\ entries[k].line = at[first + k] - 1
            /\ entries[l].line = at[first + l] - 1
            /\ at[first + k] \in Int /\ at[first + l] \in Int
        BY <2>2, <2>5, <3>5, <4>2
      <4>5. QED
        BY <4>3, <4>4
    <3>7. Len(entries) = Cardinality(ToSet(entries))
      <4>1. \A k \in 1..(n - first) : entries[k].line \in Int
        BY <2>2, <2>5, <3>5
      <4>2. \A k, l \in 1..Len(entries) : k < l => entries[k] # entries[l]
        BY <3>3, <3>6, <4>1
      <4>3. QED
        BY <3>3, <4>2, DistinctCount
    <3>8. ToSet(entries) = Final
      <4>1. ASSUME NEW k \in 1..(n - first) PROVE entries[k] \in Final
        <5>1. first + k \in 1..n /\ at[first + k] \in W /\ first + k > first
          BY <2>5, <3>4, <3>5
        <5>2. Cardinality(Later(W, at[first + k])) < limit
          BY <2>7, <3>3, <5>1
        <5>3. QED
          BY <3>5, <5>1, <5>2 DEF Final
      <4>2. ASSUME NEW i \in W, Cardinality(Later(W, i)) < limit
            PROVE  \E k \in 1..(n - first) : entries[k] = ledger[i]
        <5>1. PICK l \in 1..n : at[l] = i
          BY <2>5
        <5>2. l > first
          BY <2>7, <3>3, <4>2, <5>1
        <5>3. l - first \in 1..(n - first) /\ first + (l - first) = l
          BY <2>4, <3>4, <5>2
        <5>4. QED
          BY <3>5, <5>1, <5>3
      <4>3. ToSet(entries) = {entries[k] : k \in 1..(n - first)}
        BY <3>4 DEF ToSet
      <4>4. QED
        BY <4>1, <4>2, <4>3 DEF Final
    <3>9. QED
      BY <3>4, <3>6, <3>7, <3>8 DEF Goal
  <2>10. QED
    BY <2>2, <2>8, <2>9
<1>2. QED
  BY <1>1, InputTypes, PTL

-----------------------------------------------------------------------------
(* list_reviews *)

Stamp(tz, reviews, i) == now_iso(tz, reviews[i].created)

Ahead(tz, reviews, i, j) ==
    \/ Greater(Stamp(tz, reviews, i), Stamp(tz, reviews, j))
    \/ Stamp(tz, reviews, i) = Stamp(tz, reviews, j) /\ i < j

Newer(tz, reviews, S) == {p \in S \X S : Ahead(tz, reviews, p[1], p[2])}

AheadOf(tz, reviews, S, i) == {j \in S : Ahead(tz, reviews, j, i)}

\* A time stamp is a local time and an offset; the time in UTC is their difference,
\* and tells which of the two offsets of the zone it is.
LEMMA StampType ==
    ASSUME NEW tz \in TimeZones, NEW reviews \in Seq(Shelved),
           NEW i \in DOMAIN reviews
    PROVE  /\ i \in Int
           /\ reviews[i].created \in Int
           /\ Stamp(tz, reviews, i) \in [local : Int, offset : Int]
           /\ reviews[i].created
                  = Stamp(tz, reviews, i).local - Stamp(tz, reviews, i).offset
           /\ Stamp(tz, reviews, i).offset
                  = IF reviews[i].created < tz.change THEN tz.before ELSE tz.after
<1>1. DOMAIN reviews = 1..Len(reviews) /\ Len(reviews) \in Nat
  BY LenProperties
<1>2. reviews[i] \in Shelved
  BY <1>1, ElementOfSeq
<1>3. reviews[i].created \in Int
  BY <1>2 DEF Shelved
<1> DEFINE offset == IF reviews[i].created < tz.change THEN tz.before ELSE tz.after
<1>4. Stamp(tz, reviews, i)
          = [local |-> reviews[i].created + offset, offset |-> offset]
  BY DEF Stamp, now_iso
<1>5. offset \in Int
  BY DEF TimeZones
<1>6. offset = IF reviews[i].created < tz.change THEN tz.before ELSE tz.after
  OBVIOUS
<1> HIDE DEF offset
<1>7. QED
  BY <1>1, <1>3, <1>4, <1>5, <1>6

\* The order of the list is a strict total order.
LEMMA NewerOrders ==
    ASSUME NEW tz \in TimeZones, NEW reviews \in Seq(Shelved), NEW S \in SUBSET DOMAIN reviews
    PROVE  /\ Orders(Newer(tz, reviews, S), S)
           /\ \A i, j \in S : <<i, j>> \in Newer(tz, reviews, S) <=> Ahead(tz, reviews, i, j)
<1>1. \A i, j \in S : <<i, j>> \in Newer(tz, reviews, S) <=> Ahead(tz, reviews, i, j)
  BY DEF Newer
<1>2. \A i \in S : i \in Int /\ Stamp(tz, reviews, i) \in [local : Int, offset : Int]
  BY StampType
<1>3. \A i \in S : ~Ahead(tz, reviews, i, i)
  BY <1>2 DEF Ahead, Greater, GreaterOffset
<1>4. \A i, j \in S : i = j \/ Ahead(tz, reviews, i, j) \/ Ahead(tz, reviews, j, i)
  BY <1>2 DEF Ahead, Greater, GreaterOffset
<1>5. \A i, j, k \in S : Ahead(tz, reviews, i, j) /\ Ahead(tz, reviews, j, k)
                             => Ahead(tz, reviews, i, k)
  BY <1>2 DEF Ahead, Greater, GreaterOffset
<1>6. QED
  BY <1>1, <1>3, <1>4, <1>5 DEF Orders

\* NewestFirst lists every review that was chosen, in that order.
LEMMA NewestFirstIs ==
    ASSUME NEW tz \in TimeZones, NEW reviews \in Seq(Shelved), NEW S \in SUBSET DOMAIN reviews
    PROVE  /\ IsFiniteSet(S) /\ Cardinality(S) \in Nat
           /\ NewestFirst(tz, reviews, S) \in [1..Cardinality(S) -> S]
           /\ \A i \in S : \E k \in 1..Cardinality(S) : NewestFirst(tz, reviews, S)[k] = i
           /\ \A k, l \in 1..Cardinality(S) :
                  k < l => Ahead(tz, reviews, NewestFirst(tz, reviews, S)[k],
                                          NewestFirst(tz, reviews, S)[l])
<1> DEFINE n == Cardinality(S)
           R == Newer(tz, reviews, S)
           list == NewestFirst(tz, reviews, S)
<1>1. IsFiniteSet(S)
  <2>1. DOMAIN reviews = 1..Len(reviews) /\ Len(reviews) \in Nat
    BY LenProperties
  <2>2. IsFiniteSet(1..Len(reviews))
    BY <2>1, FS_Interval
  <2>3. QED
    BY <2>1, <2>2, FS_Subset
<1>2. n \in Nat
  BY <1>1, FS_CardinalityType
<1>3. /\ Orders(R, S)
      /\ \A i, j \in S : <<i, j>> \in R <=> Ahead(tz, reviews, i, j)
  BY NewerOrders
<1>4. \A i \in S : Cardinality(AheadOf(tz, reviews, S, i)) = Rank(S, R, i)
  <2>1. \A i \in S : AheadOf(tz, reviews, S, i) = {j \in S : <<j, i>> \in R}
    BY <1>3 DEF AheadOf
  <2>2. QED
    BY <2>1 DEF Rank
<1>5. list = [k \in 1..n |-> CHOOSE i \in S : Cardinality(AheadOf(tz, reviews, S, i)) = k - 1]
  BY DEF NewestFirst, InOrder, AheadOf, Ahead, Stamp
<1> HIDE DEF R, n, list
<1>6. ASSUME NEW k \in 1..n
      PROVE  list[k] \in S /\ Rank(S, R, list[k]) = k - 1
  <2>1. \E i \in S : Rank(S, R, i) = k - 1
    BY <1>1, <1>3, RankBijective DEF n
  <2>2. \E i \in S : Cardinality(AheadOf(tz, reviews, S, i)) = k - 1
    BY <1>4, <2>1
  <2>3. list[k] = CHOOSE i \in S : Cardinality(AheadOf(tz, reviews, S, i)) = k - 1
    BY <1>5
  <2>4. QED
    BY <1>4, <2>2, <2>3
<1>7. list \in [1..n -> S]
  BY <1>5, <1>6
<1>8. /\ \A i \in S : Rank(S, R, i) + 1 \in 1..n /\ list[Rank(S, R, i) + 1] = i
      /\ \A k, l \in 1..n : k < l <=> <<list[k], list[l]>> \in R
  BY <1>1, <1>3, <1>6, <1>7, SortedIs DEF n
<1>9. \A k, l \in 1..n : k < l => Ahead(tz, reviews, list[k], list[l])
  BY <1>3, <1>6, <1>8
<1>10. \A i \in S : \E k \in 1..n : list[k] = i
  BY <1>8
<1>11. QED
  BY <1>1, <1>2, <1>7, <1>9, <1>10 DEF n, list

\* Of two reviews the later comes first, unless the clock was turned back between.
InTurn(first, next) ==
    /\ first.created < next.created => Overtaken(first, next)
    /\ next.created < first.created => ~Overtaken(next, first)

\* So it is if the first has the greater time stamp, or they have the same.
LEMMA AheadInTurn ==
    ASSUME NEW reviews \in Seq(Shelved), zone \in TimeZones, zone.change = Change,
           NEW i \in DOMAIN reviews, NEW j \in DOMAIN reviews,
           Ahead(zone, reviews, i, j)
    PROVE  InTurn(reviews[i], reviews[j])
<1> DEFINE a == Stamp(zone, reviews, i)
           b == Stamp(zone, reviews, j)
           x == reviews[i].created
           y == reviews[j].created
<1>1. /\ x \in Int /\ y \in Int
      /\ a.local \in Int /\ a.offset \in Int /\ b.local \in Int /\ b.offset \in Int
      /\ x = a.local - a.offset
      /\ y = b.local - b.offset
      /\ a.offset = IF x < Change THEN zone.before ELSE zone.after
      /\ b.offset = IF y < Change THEN zone.before ELSE zone.after
  BY StampType
<1>2. \/ a.local > b.local
      \/ /\ a.local = b.local
         /\ IF b.offset < 0 THEN a.offset < b.offset
                            ELSE a.offset < 0 \/ a.offset > b.offset
      \/ a.local = b.local /\ a.offset = b.offset
  BY DEF Ahead, Greater, GreaterOffset
<1>3. /\ zone.before \in Int /\ zone.after \in Int /\ Change \in Int
  BY DEF TimeZones
<1>4. PICK al \in Int, ao \in Int, bl \in Int, bo \in Int :
          al = a.local /\ ao = a.offset /\ bl = b.local /\ bo = b.offset
  BY <1>1
<1> HIDE DEF a, b, x, y
<1>5. PICK before \in Int, after \in Int, change \in Int :
          before = zone.before /\ after = zone.after /\ change = Change
  BY <1>3
<1>6. /\ x = al - ao /\ y = bl - bo
      /\ ao = IF x < change THEN before ELSE after
      /\ bo = IF y < change THEN before ELSE after
      /\ \/ al > bl
         \/ al = bl /\ IF bo < 0 THEN ao < bo ELSE ao < 0 \/ ao > bo
         \/ al = bl /\ ao = bo
  BY <1>1, <1>2, <1>4, <1>5
<1>7. x \in Int /\ y \in Int
  BY <1>1
<1>8. ASSUME x < y
      PROVE  /\ x < change /\ change <= y
             /\ \/ y - x < before - after
                \/ y - x = before - after /\ after >= 0
  <2>1. x < change /\ change <= y /\ ao = before /\ bo = after
    BY <1>6, <1>7, <1>8
  <2>2. QED
    BY <1>6, <1>7, <1>8, <2>1
<1>9. ASSUME y < x, y < change, change <= x
      PROVE  ~(\/ x - y < before - after
               \/ x - y = before - after /\ after >= 0)
  <2>1. ao = after /\ bo = before
    BY <1>6, <1>7, <1>9
  <2>2. QED
    BY <1>6, <1>7, <1>9, <2>1
<1>10. QED
  BY <1>5, <1>8, <1>9 DEF x, y, InTurn, Overtaken

\* UpTo keeps the first ones, as many as the limit allows.
LEMMA FirstOnes ==
    ASSUME NEW S, NEW list \in Seq(S), NEW limit \in Int
    PROVE  \E m \in 0..Len(list) :
               /\ UpTo(list, limit) \in [1..m -> S]
               /\ Len(UpTo(list, limit)) = m
               /\ \A k \in 1..m : UpTo(list, limit)[k] = list[k]
               /\ limit <= 0 => m = 0
               /\ m < limit => m = Len(list)
<1> DEFINE n == Len(list)
           m == IF limit < 0 THEN 0 ELSE IF limit < n THEN limit ELSE n
           first == SubSeq(list, 1, m)
<1>1. n \in Nat
  BY LenProperties
<1> HIDE DEF n
<1>2. /\ m \in 0..n
      /\ limit <= 0 => m = 0
      /\ m < limit => m = n
  BY <1>1
<1>3. UpTo(list, limit) = first
  BY DEF UpTo, n
<1> HIDE DEF m
<1>4. \A i \in 1..m : list[i] \in S
  <2>1. \A i \in 1..m : i \in 1..Len(list)
    BY <1>1, <1>2 DEF n
  <2>2. QED
    BY <2>1, ElementOfSeq
<1>5. /\ first \in Seq(S)
      /\ Len(first) = IF 1 <= m THEN m - 1 + 1 ELSE 0
      /\ \A k \in 1..(m - 1 + 1) : first[k] = list[1 + k - 1]
  BY <1>1, <1>2, <1>4, SubSeqProperties
<1>6. m \in Nat /\ m - 1 + 1 = m
  BY <1>1, <1>2
<1>7. Len(first) = m
  BY <1>5, <1>6
<1>8. \A k \in 1..m : first[k] = list[k]
  BY <1>5, <1>6
<1>9. first \in [1..m -> S]
  BY <1>5, <1>7, LenProperties
<1>10. QED
  BY <1>2, <1>3, <1>7, <1>8, <1>9 DEF n

\* list_reviews lists the newest reviews first, and what the limit leaves out is older
\* still, but for the hour that the clock shows twice: whatever reviews the file
\* holds, whenever the clock is changed, and wherever its two offsets lie.
THEOREM NewestListed == Spec => []RecentFirst
<1>1. TypeInv => RecentFirst
  <2> SUFFICES ASSUME TypeInv, NEW status \in Statuses \cup {AnyStatus},
                      NEW limit \in Limits
               PROVE  LET listed == list_reviews(zone, shelf, status, limit)
                          chosen == Chosen(shelf, status)
                          after(n) == chosen \ {listed[k] : k \in 1..n}
                      IN  /\ ToSet(listed) \subseteq chosen
                          /\ Len(listed) < limit => ToSet(listed) = chosen
                          /\ limit <= 0 => listed = <<>>
                          /\ \A n \in DOMAIN listed : \A j \in after(n) :
                                 InTurn(shelf[listed[n]], shelf[j])
    BY DEF RecentFirst, Chosen, InTurn
  <2> DEFINE S == Chosen(shelf, status)
             N == Cardinality(S)
             order == NewestFirst(zone, shelf, S)
             listed == list_reviews(zone, shelf, status, limit)
  <2>1. /\ shelf \in Seq(Shelved) /\ S \in SUBSET DOMAIN shelf /\ limit \in Int
        /\ zone \in TimeZones /\ zone.change = Change
    BY MCToolsAssumption DEF TypeInv, Chosen, Limits, Zones, TimeZones
  <2>2. listed = UpTo(order, limit)
    BY DEF list_reviews
  <2> HIDE DEF S, N, order, listed
  <2>3. /\ N \in Nat
        /\ order \in [1..N -> S]
        /\ \A i \in S : \E k \in 1..N : order[k] = i
        /\ \A k, l \in 1..N : k < l => Ahead(zone, shelf, order[k], order[l])
    BY <2>1, NewestFirstIs DEF N, order
  <2>4. order \in Seq(S) /\ Len(order) = N
    BY <2>3, SeqDef, LenProperties
  <2>5. PICK m \in 0..N : /\ listed \in [1..m -> S]
                          /\ Len(listed) = m
                          /\ \A k \in 1..m : listed[k] = order[k]
                          /\ limit <= 0 => m = 0
                          /\ m < limit => m = N
    BY <2>1, <2>2, <2>4, FirstOnes
  <2>6. DOMAIN listed = 1..m /\ m \in Nat
    BY <2>3, <2>5
  <2>7. ToSet(listed) \subseteq S
    BY <2>5, <2>6 DEF ToSet
  <2>8. ASSUME Len(listed) < limit PROVE ToSet(listed) = S
    <3>1. m = N
      BY <2>5, <2>8
    <3>2. \A i \in S : \E k \in DOMAIN listed : listed[k] = i
      BY <2>3, <2>5, <2>6, <3>1
    <3>3. QED
      BY <2>7, <3>2 DEF ToSet
  <2>9. ASSUME limit <= 0 PROVE listed = <<>>
    <3>1. listed \in Seq(S) /\ Len(listed) = 0
      BY <2>5, <2>6, <2>9, SeqDef
    <3>2. QED
      BY <3>1, EmptySeq
  <2>10. ASSUME NEW n \in DOMAIN listed, NEW j \in S \ {listed[k] : k \in 1..n}
         PROVE  InTurn(shelf[listed[n]], shelf[j])
    <3>1. PICK r \in 1..N : order[r] = j
      BY <2>3
    <3>2. n \in 1..N /\ n \in 1..m /\ r \in Int /\ n \in Int
      BY <2>3, <2>5, <2>6
    <3>3. n < r
      <4>1. SUFFICES ASSUME r <= n PROVE FALSE
        BY <3>2
      <4>2. r \in 1..n /\ r \in 1..m
        BY <3>2, <4>1
      <4>3. listed[r] = j
        BY <2>5, <3>1, <4>2
      <4>4. QED
        BY <4>2, <4>3
    <3>4. listed[n] = order[n] /\ listed[n] \in S
      BY <2>5, <3>2
    <3>5. Ahead(zone, shelf, listed[n], j)
      BY <2>3, <3>1, <3>2, <3>3, <3>4
    <3>6. listed[n] \in DOMAIN shelf /\ j \in DOMAIN shelf
      BY <2>1, <3>4
    <3>7. QED
      BY <2>1, <3>5, <3>6, AheadInTurn
  <2>11. QED
    BY <2>7, <2>8, <2>9, <2>10 DEF S, listed
<1>2. QED
  BY <1>1, InputTypes, PTL

-----------------------------------------------------------------------------
(* The detectors *)

Options == {"firewall", "PermitRootLogin", "PasswordAuthentication", "extraGroups",
            "wheelNeedsPassword", "fail2ban.enable", "bind address"}
Graded == {"HIGH", "MED", "LOW"}

\* What must be in a line for adding it, or for removing it, to be graded MED or HIGH.
RiskyToAdd(body) ==
    \/ "PortRanges" \in body.words \/ "Ports" \in body.words
    \/ "PermitRootLogin" \in body.words /\ body.rhs = "yes"
    \/ "PasswordAuthentication" \in body.words /\ body.rhs = "true"
    \/ {"extraGroups", "wheel"} \subseteq body.words
    \/ "wheelNeedsPassword" \in body.words /\ body.rhs = "false"
    \/ "fail2ban.enable" \in body.words /\ body.rhs = "false"
    \/ {"0.0.0.0", "listen"} \subseteq body.words

RiskyToRemove(body) ==
    \/ "PermitRootLogin" \in body.words /\ body.rhs \in {"no", "prohibit-password"}
    \/ "PasswordAuthentication" \in body.words /\ body.rhs = "false"
    \/ "fail2ban.enable" \in body.words /\ body.rhs = "true"

Dangerous(ln) ==
    \/ ln.sign = "+" /\ RiskyToAdd(ln.body)
    \/ ln.sign = "-" /\ RiskyToRemove(ln.body)

\* A finding about this line, LOW unless the line is a risk.
About(ln, f) ==
    \E option \in Options, grade \in Graded :
        f = Finding(ln, option, grade) /\ (grade = "LOW" \/ Dangerous(ln))

FoundIn(ln, found) == found = <<>> \/ \E f : found = <<f>> /\ About(ln, f)

\* The first rule that applies gives what is found, or none applies.
LEMMA FirstOfIs ==
    ASSUME NEW rules, NEW n \in Nat, Len(rules) = n
    PROVE  \/ FirstOf(rules) = <<>>
           \/ \E i \in 1..n : rules[i].when /\ FirstOf(rules) = rules[i].found
<1> DEFINE I == {i \in 1..Len(rules) : rules[i].when}
<1>1. SelectInSeq(rules, LAMBDA rule : rule.when) = IF I # {} THEN Min(I) ELSE 0
  BY DEF SelectInSeq
<1>2. CASE I = {}
  BY <1>1, <1>2 DEF FirstOf
<1>3. CASE I # {}
  <2>1. Min(I) \in I
    BY <1>3, MinIs
  <2>2. Min(I) # 0
    BY <2>1
  <2>3. FirstOf(rules) = rules[Min(I)].found
    BY <1>1, <1>3, <2>2 DEF FirstOf
  <2>4. QED
    BY <2>1, <2>3
<1>4. QED
  BY <1>2, <1>3

\* So with rules that each find nothing or a finding about the line.
LEMMA RulesFind ==
    ASSUME NEW ln, NEW rules, NEW n \in Nat, Len(rules) = n,
           \A i \in 1..n : rules[i].when => FoundIn(ln, rules[i].found)
    PROVE  FoundIn(ln, FirstOf(rules))
  BY FirstOfIs DEF FoundIn

\* A port that is opened: a range, a sensitive one, another one (diff.py:97-130).
LEMMA FirewallFinds == ASSUME NEW ln PROVE FoundIn(ln, detect_firewall(ln))
<1> DEFINE opens(option) == option \in ln.body.words /\ ln.sign = "+"
           found(grade) == <<Finding(ln, "firewall", grade)>>
           rules == <<
             Rule(opens("PortRanges") /\ ln.body.numbers # {}, found("HIGH")),
             Rule("PortRanges" \in ln.body.words, <<>>),
             Rule(opens("Ports") /\ "sensitive" \in ln.body.numbers, found("HIGH")),
             Rule(opens("Ports") /\ "ordinary" \in ln.body.numbers, found("MED"))>>
<1>1. detect_firewall(ln) = FirstOf(rules)
  BY DEF detect_firewall
<1>2. Len(rules) = 4 /\ 1..4 = {1, 2, 3, 4}
  OBVIOUS
<1>3. ASSUME NEW option \in {"PortRanges", "Ports"}, NEW grade \in Graded,
             opens(option)
      PROVE  FoundIn(ln, found(grade))
  <2>1. Dangerous(ln)
    BY <1>3 DEF Dangerous, RiskyToAdd
  <2>2. QED
    BY <2>1 DEF FoundIn, About, Options
<1>4. FoundIn(ln, <<>>)
  BY DEF FoundIn
<1>5. "HIGH" \in Graded /\ "MED" \in Graded
  BY DEF Graded
<1>6. rules[1].when => FoundIn(ln, rules[1].found)
  BY <1>3, <1>5 DEF Rule
<1>7. rules[2].when => FoundIn(ln, rules[2].found)
  BY <1>4 DEF Rule
<1>8. rules[3].when => FoundIn(ln, rules[3].found)
  BY <1>3, <1>5 DEF Rule
<1>9. rules[4].when => FoundIn(ln, rules[4].found)
  BY <1>3, <1>5 DEF Rule
<1> HIDE DEF rules
<1>10. QED
  BY <1>1, <1>2, <1>6, <1>7, <1>8, <1>9, RulesFind

\* A login that is allowed, or is no longer forbidden (diff.py:133-170).
LEMMA SshFinds == ASSUME NEW ln PROVE FoundIn(ln, detect_ssh(ln))
<1> DEFINE rule(option, change, values, grade) ==
               Rule(Sets(ln, option, change, values), <<Finding(ln, option, grade)>>)
           rules == <<
             rule("PermitRootLogin", "+", {"yes"}, "HIGH"),
             rule("PermitRootLogin", "-", {"no", "prohibit-password"}, "MED"),
             rule("PermitRootLogin", "+",
                  {"prohibit-password", "no", "without-password"}, "LOW"),
             rule("PasswordAuthentication", "+", {"true"}, "HIGH"),
             rule("PasswordAuthentication", "-", {"false"}, "HIGH"),
             rule("PasswordAuthentication", "+", {"false"}, "LOW")>>
<1>1. detect_ssh(ln) = FirstOf(rules)
  BY DEF detect_ssh
<1>2. Len(rules) = 6 /\ 1..6 = {1, 2, 3, 4, 5, 6}
  OBVIOUS
<1>3. ASSUME NEW option \in {"PermitRootLogin", "PasswordAuthentication"},
             NEW grade \in Graded, grade = "LOW" \/ Dangerous(ln)
      PROVE  FoundIn(ln, <<Finding(ln, option, grade)>>)
  BY <1>3 DEF FoundIn, About, Options
<1>4. "HIGH" \in Graded /\ "MED" \in Graded /\ "LOW" \in Graded
  BY DEF Graded
<1>5. /\ Sets(ln, "PermitRootLogin", "+", {"yes"}) => Dangerous(ln)
      /\ Sets(ln, "PermitRootLogin", "-", {"no", "prohibit-password"}) => Dangerous(ln)
      /\ Sets(ln, "PasswordAuthentication", "+", {"true"}) => Dangerous(ln)
      /\ Sets(ln, "PasswordAuthentication", "-", {"false"}) => Dangerous(ln)
  BY DEF Sets, Dangerous, RiskyToAdd, RiskyToRemove
<1>6. rules[1].when => FoundIn(ln, rules[1].found)
  BY <1>3, <1>4, <1>5 DEF Rule
<1>7. rules[2].when => FoundIn(ln, rules[2].found)
  BY <1>3, <1>4, <1>5 DEF Rule
<1>8. rules[3].when => FoundIn(ln, rules[3].found)
  BY <1>3, <1>4 DEF Rule
<1>9. rules[4].when => FoundIn(ln, rules[4].found)
  BY <1>3, <1>4, <1>5 DEF Rule
<1>10. rules[5].when => FoundIn(ln, rules[5].found)
  BY <1>3, <1>4, <1>5 DEF Rule
<1>11. rules[6].when => FoundIn(ln, rules[6].found)
  BY <1>3, <1>4 DEF Rule
<1> HIDE DEF rules
<1>12. \A i \in 1..6 : rules[i].when => FoundIn(ln, rules[i].found)
  BY <1>2, <1>6, <1>7, <1>8, <1>9, <1>10, <1>11
<1>13. QED
  BY <1>1, <1>2, <1>12, RulesFind

\* A new administrator, or sudo without a password (diff.py:173-187).
LEMMA SudoFinds == ASSUME NEW ln PROVE FoundIn(ln, detect_sudo(ln))
<1> DEFINE rules == <<
             Rule({"extraGroups", "wheel"} \subseteq ln.body.words /\ ln.sign = "+",
                  <<Finding(ln, "extraGroups", "MED")>>),
             Rule(Sets(ln, "wheelNeedsPassword", "+", {"false"}),
                  <<Finding(ln, "wheelNeedsPassword", "HIGH")>>)>>
<1>1. detect_sudo(ln) = FirstOf(rules)
  BY DEF detect_sudo
<1>2. Len(rules) = 2 /\ 1..2 = {1, 2}
  OBVIOUS
<1>3. ASSUME NEW option \in {"extraGroups", "wheelNeedsPassword"},
             NEW grade \in Graded, Dangerous(ln)
      PROVE  FoundIn(ln, <<Finding(ln, option, grade)>>)
  BY <1>3 DEF FoundIn, About, Options
<1>4. /\ "HIGH" \in Graded /\ "MED" \in Graded
      /\ {"extraGroups", "wheel"} \subseteq ln.body.words /\ ln.sign = "+"
             => Dangerous(ln)
      /\ Sets(ln, "wheelNeedsPassword", "+", {"false"}) => Dangerous(ln)
  BY DEF Graded, Sets, Dangerous, RiskyToAdd
<1>5. rules[1].when => FoundIn(ln, rules[1].found)
  BY <1>3, <1>4 DEF Rule
<1>6. rules[2].when => FoundIn(ln, rules[2].found)
  BY <1>3, <1>4 DEF Rule
<1> HIDE DEF rules
<1>7. QED
  BY <1>1, <1>2, <1>5, <1>6, RulesFind

\* fail2ban, turned off or no longer turned on (diff.py:190-204).
LEMMA Fail2banFinds == ASSUME NEW ln PROVE FoundIn(ln, detect_fail2ban(ln))
<1> DEFINE rules == <<
             Rule(\/ Sets(ln, "fail2ban.enable", "+", {"false"})
                  \/ Sets(ln, "fail2ban.enable", "-", {"true"}),
                  <<Finding(ln, "fail2ban.enable", "MED")>>)>>
<1>1. detect_fail2ban(ln) = FirstOf(rules)
  BY DEF detect_fail2ban
<1>2. Len(rules) = 1 /\ 1..1 = {1}
  OBVIOUS
<1>3. rules[1].when => Dangerous(ln)
  BY DEF Rule, Sets, Dangerous, RiskyToAdd, RiskyToRemove
<1>4. Dangerous(ln) => FoundIn(ln, <<Finding(ln, "fail2ban.enable", "MED")>>)
  BY DEF FoundIn, About, Options, Graded
<1>5. rules[1].when => FoundIn(ln, rules[1].found)
  BY <1>3, <1>4 DEF Rule
<1> HIDE DEF rules
<1>6. QED
  BY <1>1, <1>2, <1>5, RulesFind

\* A service that listens on every address (diff.py:207-216).
LEMMA BindAllFinds == ASSUME NEW ln PROVE FoundIn(ln, detect_bind_all(ln))
<1> DEFINE rules == <<
             Rule({"0.0.0.0", "listen"} \subseteq ln.body.words /\ ln.sign = "+",
                  <<Finding(ln, "bind address", "MED")>>)>>
<1>1. detect_bind_all(ln) = FirstOf(rules)
  BY DEF detect_bind_all
<1>2. Len(rules) = 1 /\ 1..1 = {1}
  OBVIOUS
<1>3. rules[1].when => Dangerous(ln)
  BY DEF Rule, Dangerous, RiskyToAdd
<1>4. Dangerous(ln) => FoundIn(ln, <<Finding(ln, "bind address", "MED")>>)
  BY DEF FoundIn, About, Options, Graded
<1>5. rules[1].when => FoundIn(ln, rules[1].found)
  BY <1>3, <1>4 DEF Rule
<1> HIDE DEF rules
<1>6. QED
  BY <1>1, <1>2, <1>5, RulesFind

-----------------------------------------------------------------------------
(* grade_diff *)

TextLines(B) == [mark : Marks, body : B]
Tokens(B) == [sign : {"+", "-", " "}, body : B]
FindingsOf(B) == [option : Options, change : {"added", "removed"},
                  snippet : B, grade : Graded]

\* What a detector returns is a list of findings about the line.
LEMMA OneFound ==
    ASSUME NEW B, NEW ln, ln.body \in B, NEW list, FoundIn(ln, list)
    PROVE  list \in Seq(FindingsOf(B)) /\ \A f \in ToSet(list) : About(ln, f)
<1>1. \A f : About(ln, f) => f \in FindingsOf(B)
  BY DEF About, Finding, FindingsOf
<1>2. CASE list = <<>>
  <2>1. DOMAIN list = {} /\ list \in Seq(FindingsOf(B))
    BY <1>2, EmptySeq, LenProperties
  <2>2. QED
    BY <2>1 DEF ToSet
<1>3. CASE \E f : list = <<f>> /\ About(ln, f)
  <2>1. PICK f : list = <<f>> /\ About(ln, f)
    BY <1>3
  <2>2. list \in Seq(FindingsOf(B)) /\ DOMAIN list = {1} /\ list[1] = f
    BY <1>1, <2>1
  <2>3. QED
    BY <2>1, <2>2 DEF ToSet
<1>4. QED
  BY <1>2, <1>3 DEF FoundIn

\* So is what all of them return; there is none about a line of context.
LEMMA DetectInFinds ==
    ASSUME NEW B, NEW ln, ln.body \in B
    PROVE  /\ DetectIn(ln) \in Seq(FindingsOf(B))
           /\ \A f \in ToSet(DetectIn(ln)) : About(ln, f) /\ ln.sign # " "
<1> DEFINE F == FindingsOf(B)
           Fine(list) == list \in Seq(F) /\ \A f \in ToSet(list) : About(ln, f)
<1>1. \A list : FoundIn(ln, list) => Fine(list)
  BY OneFound
<1>2. ASSUME NEW s, NEW t, Fine(s), Fine(t) PROVE Fine(s \o t)
  <2>1. s \in Seq(F) /\ t \in Seq(F)
    BY <1>2
  <2>2. s \o t \in Seq(F) /\ ToSet(s \o t) = ToSet(s) \cup ToSet(t)
    BY <2>1, ConcatHolds
  <2>3. QED
    BY <1>2, <2>2
<1> HIDE DEF Fine
<1>3. CASE ln.sign = " "
  <2>1. DetectIn(ln) = <<>>
    BY <1>3 DEF DetectIn
  <2>2. DOMAIN <<>> = {} /\ <<>> \in Seq(F)
    BY EmptySeq, LenProperties
  <2>3. QED
    BY <2>1, <2>2 DEF ToSet
<1>4. CASE ln.sign # " "
  <2>1. DetectIn(ln) = detect_firewall(ln) \o detect_ssh(ln) \o detect_sudo(ln)
                           \o detect_fail2ban(ln) \o detect_bind_all(ln)
    BY <1>4 DEF DetectIn
  <2>2. Fine(detect_firewall(ln))
    BY <1>1, FirewallFinds
  <2>3. Fine(detect_ssh(ln))
    BY <1>1, SshFinds
  <2>4. Fine(detect_sudo(ln))
    BY <1>1, SudoFinds
  <2>5. Fine(detect_fail2ban(ln))
    BY <1>1, Fail2banFinds
  <2>6. Fine(detect_bind_all(ln))
    BY <1>1, BindAllFinds
  <2>7. Fine(DetectIn(ln))
    BY <1>2, <2>1, <2>2, <2>3, <2>4, <2>5, <2>6
  <2>8. QED
    BY <1>4, <2>7 DEF Fine
<1>5. QED
  BY <1>3, <1>4

\* The function that the findings are put together by.
Gathers(f, tokens, n) ==
    f = [s \in SUBSET (1..n) |->
            IF s = {} THEN <<>> ELSE f[s \ {Max(s)}] \o DetectIn(tokens[Max(s)])]

\* The findings of a text are those in its tokens, each of them and no others.
LEMMA GradeDiffGathers ==
    ASSUME NEW B, NEW lines, NEW n \in Nat, tokenize(lines) \in [1..n -> Tokens(B)]
    PROVE  /\ grade_diff(lines) \in Seq(FindingsOf(B))
           /\ \A x : x \in ToSet(grade_diff(lines)) <=>
                  \E i \in 1..n : x \in ToSet(DetectIn(tokenize(lines)[i]))
<1> DEFINE tokens == tokenize(lines)
           A == Seq(FindingsOf(B))
           F == [i \in 1..n |-> [found \in A |-> found \o DetectIn(tokens[i])]]
           gather == CHOOSE f : Gathers(f, tokens, n)
<1>1. tokens \in [1..n -> Tokens(B)] /\ DOMAIN tokens = 1..n
  OBVIOUS
<1>2. grade_diff(lines) = gather[1..n]
  BY <1>1 DEF grade_diff, FoldLeft, MapThenFoldSet, Gathers
<1> HIDE DEF tokens
<1>3. ASSUME NEW i \in 1..n
      PROVE  /\ DetectIn(tokens[i]) \in A
             /\ \A found \in A :
                    /\ found \o DetectIn(tokens[i]) \in A
                    /\ ToSet(found \o DetectIn(tokens[i])) =
                           ToSet(found) \cup ToSet(DetectIn(tokens[i]))
  <2>1. tokens[i].body \in B
    BY <1>1 DEF Tokens
  <2>2. DetectIn(tokens[i]) \in A
    BY <2>1, DetectInFinds
  <2>3. QED
    BY <2>2, ConcatHolds
<1>4. <<>> \in A
  BY EmptySeq
<1> HIDE DEF A
<1>5. F \in [1..n -> [A -> A]]
  BY <1>3
<1>6. PICK f \in [SUBSET (1..n) -> A] : Accumulates(f, <<>>, F, n)
  BY <1>4, <1>5, AccumulatorExists
<1>7. Gathers(f, tokens, n)
  <2>1. ASSUME NEW s \in SUBSET (1..n), s # {}
        PROVE  F[Max(s)][f[s \ {Max(s)}]] = f[s \ {Max(s)}] \o DetectIn(tokens[Max(s)])
    <3>1. Max(s) \in 1..n
      BY <2>1, BelowMax
    <3>2. s \ {Max(s)} \in SUBSET (1..n)
      OBVIOUS
    <3>3. f[s \ {Max(s)}] \in A
      BY <3>2
    <3>4. QED
      BY <3>1, <3>3
  <2> HIDE DEF F
  <2>2. QED
    BY <1>6, <2>1 DEF Gathers, Accumulates
<1>8. Gathers(gather, tokens, n)
  BY <1>7
<1> HIDE DEF gather, F
<1> DEFINE Holds(k) ==
              /\ gather[1..k] \in A
              /\ \A x : x \in ToSet(gather[1..k]) <=>
                     \E i \in 1..k : x \in ToSet(DetectIn(tokens[i]))
           Fails == {k \in 0..n : ~Holds(k)}
<1>9. Holds(0)
  <2>1. 1..0 = {} /\ 1..0 \in SUBSET (1..n)
    OBVIOUS
  <2>2. gather[1..0] = <<>>
    BY <1>8, <2>1 DEF Gathers
  <2>3. DOMAIN <<>> = {}
    BY EmptySeq, LenProperties
  <2>4. QED
    BY <1>4, <2>1, <2>2, <2>3 DEF ToSet
<1>10. ASSUME NEW k \in 1..n, Holds(k - 1) PROVE Holds(k)
  <2>1. k \in Nat \ {0} /\ 1..k \in SUBSET (1..n)
    OBVIOUS
  <2>2. 1..k # {} /\ Max(1..k) = k /\ 1..k \ {Max(1..k)} = 1..(k - 1)
    BY <2>1, PrefixMax
  <2>3. gather[1..k] = gather[1..(k - 1)] \o DetectIn(tokens[k])
    BY <1>8, <2>1, <2>2 DEF Gathers
  <2>4. /\ gather[1..k] \in A
        /\ ToSet(gather[1..k]) = ToSet(gather[1..(k - 1)]) \cup ToSet(DetectIn(tokens[k]))
    BY <1>3, <1>10, <2>3
  <2>5. \A i : i \in 1..k <=> i \in 1..(k - 1) \/ i = k
    BY <2>1
  <2>6. QED
    BY <1>10, <2>4, <2>5
<1> HIDE DEF Holds
<1>11. Fails = {}
  <2>1. SUFFICES ASSUME Fails # {} PROVE FALSE
    OBVIOUS
  <2>2. PICK k \in Fails : \A j \in Fails : k <= j
    <3>1. Fails \in SUBSET Nat
      OBVIOUS
    <3>2. QED
      BY <2>1, <3>1, LeastNumber
  <2>3. k # 0
    BY <1>9, <2>2
  <2>4. k \in 1..n /\ k - 1 \in 0..n /\ ~(k <= k - 1)
    BY <2>2, <2>3
  <2>5. Holds(k - 1)
    BY <2>2, <2>4
  <2>6. QED
    BY <1>10, <2>2, <2>4, <2>5
<1>12. Holds(n)
  <2>1. n \in 0..n
    OBVIOUS
  <2>2. QED
    BY <1>11, <2>1
<1>13. QED
  BY <1>2, <1>12 DEF Holds, A, tokens

\* What a line of the text counts as; blank lines and headers are left out.
Token(lines, i) ==
    [sign |-> IF is_unified_diff(lines) THEN sign(lines[i]) ELSE "+",
     body |-> lines[i].body]

Counts(lines, i) ==
    IF is_unified_diff(lines) THEN lines[i].mark \notin Headers
    ELSE lines[i] # [mark |-> "", body |-> NoBody]

\* The tokens of a text are its lines that count, each of them and no others.
LEMMA TokensOf ==
    ASSUME NEW B, NEW lines \in Seq(TextLines(B))
    PROVE  \E n \in Nat :
               /\ tokenize(lines) \in [1..n -> Tokens(B)]
               /\ \A i \in 1..n : \E j \in DOMAIN lines :
                      Counts(lines, j) /\ tokenize(lines)[i] = Token(lines, j)
               /\ \A j \in DOMAIN lines : Counts(lines, j) =>
                      \E i \in 1..n : tokenize(lines)[i] = Token(lines, j)
<1> DEFINE I == {j \in DOMAIN lines : Counts(lines, j)}
           kept == Picked(lines, I)
           n == Cardinality(I)
           tokens == tokenize(lines)
<1>1. I \in SUBSET DOMAIN lines
  OBVIOUS
<1>2. n \in Nat
  BY <1>1, PickedIs
<1>3. /\ kept \in Seq(TextLines(B)) /\ Len(kept) = n
      /\ ToSet(kept) = {lines[j] : j \in I}
  BY <1>1, PickedSet
<1>4. kept \in [1..n -> TextLines(B)] /\ DOMAIN kept = 1..n
  BY <1>3, LenProperties
<1>5. tokens = [i \in 1..n |->
                   [sign |-> IF is_unified_diff(lines) THEN sign(kept[i]) ELSE "+",
                    body |-> kept[i].body]]
  <2>1. CASE is_unified_diff(lines)
    <3>1. I = {i \in DOMAIN lines : lines[i].mark \notin Headers}
      BY <2>1 DEF Counts
    <3>2. tokens = [i \in DOMAIN kept |->
                       [sign |-> sign(kept[i]), body |-> kept[i].body]]
      BY <2>1, <3>1 DEF tokenize
    <3>3. QED
      BY <1>4, <2>1, <3>2
  <2>2. CASE ~is_unified_diff(lines)
    <3>1. I = {i \in DOMAIN lines : lines[i] # [mark |-> "", body |-> NoBody]}
      BY <2>2 DEF Counts
    <3>2. tokens = [i \in DOMAIN kept |-> [sign |-> "+", body |-> kept[i].body]]
      BY <2>2, <3>1 DEF tokenize
    <3>3. QED
      BY <1>4, <2>2, <3>2
  <2>3. QED
    BY <2>1, <2>2
<1> HIDE DEF n, kept, tokens
<1>6. \A l \in TextLines(B) : sign(l) \in {"+", "-", " "} /\ l.body \in B
  BY DEF TextLines, sign
<1>7. tokens \in [1..n -> Tokens(B)]
  <2>1. \A i \in 1..n : kept[i] \in TextLines(B)
    BY <1>4
  <2>2. QED
    BY <1>5, <1>6, <2>1 DEF Tokens
<1>8. \A i \in 1..n, j \in I : kept[i] = lines[j] => tokens[i] = Token(lines, j)
  BY <1>5 DEF Token
<1>9. \A i \in 1..n : \E j \in I : kept[i] = lines[j]
  <2>1. \A i \in 1..n : kept[i] \in ToSet(kept)
    BY <1>4 DEF ToSet
  <2>2. QED
    BY <1>3, <2>1
<1>10. \A j \in I : \E i \in 1..n : kept[i] = lines[j]
  <2>1. \A j \in I : lines[j] \in ToSet(kept)
    BY <1>3
  <2>2. QED
    BY <1>4, <2>1 DEF ToSet
<1>11. /\ \A i \in 1..n : \E j \in I : tokens[i] = Token(lines, j)
       /\ \A j \in I : \E i \in 1..n : tokens[i] = Token(lines, j)
  BY <1>8, <1>9, <1>10
<1>12. /\ \A i \in 1..n : \E j \in DOMAIN lines :
              Counts(lines, j) /\ tokens[i] = Token(lines, j)
       /\ \A j \in DOMAIN lines : Counts(lines, j) =>
              \E i \in 1..n : tokens[i] = Token(lines, j)
  <2> HIDE DEF Counts
  <2>1. \A j : j \in I <=> j \in DOMAIN lines /\ Counts(lines, j)
    OBVIOUS
  <2> HIDE DEF I
  <2>2. QED
    BY <1>11, <2>1
<1>13. QED
  BY <1>2, <1>7, <1>12 DEF tokens

\* A text has the findings of its lines, and no others.
LEMMA GradeDiffHolds ==
    ASSUME NEW B, NEW lines \in Seq(TextLines(B))
    PROVE  /\ grade_diff(lines) \in Seq(FindingsOf(B))
           /\ \A x : x \in ToSet(grade_diff(lines)) <=>
                  \E j \in DOMAIN lines :
                      Counts(lines, j) /\ x \in ToSet(DetectIn(Token(lines, j)))
<1>1. PICK n \in Nat :
          /\ tokenize(lines) \in [1..n -> Tokens(B)]
          /\ \A i \in 1..n : \E j \in DOMAIN lines :
                 Counts(lines, j) /\ tokenize(lines)[i] = Token(lines, j)
          /\ \A j \in DOMAIN lines : Counts(lines, j) =>
                 \E i \in 1..n : tokenize(lines)[i] = Token(lines, j)
  BY TokensOf
<1>2. /\ grade_diff(lines) \in Seq(FindingsOf(B))
      /\ \A x : x \in ToSet(grade_diff(lines)) <=>
             \E i \in 1..n : x \in ToSet(DetectIn(tokenize(lines)[i]))
  BY <1>1, GradeDiffGathers
<1>3. QED
  BY <1>1, <1>2

-----------------------------------------------------------------------------
(* A diff is graded by what it changes *)

\* The sample lines are lines of text.
LEMMA SamplesAreLines ==
    ASSUME NEW lines \in Seq(SampleLines(SampleBodies))
    PROVE  lines \in Seq(TextLines(SampleBodies))
<1>1. NoBody \in SampleBodies
  BY DEF SampleBodies
<1>2. SampleLines(SampleBodies) \subseteq TextLines(SampleBodies)
  BY <1>1 DEF SampleLines, TextLines, Marks
<1>3. \A i \in 1..Len(lines) : lines[i] \in TextLines(SampleBodies)
  BY <1>2, ElementOfSeq
<1>4. QED
  BY <1>3, LenProperties, SeqDef

\* One side of a change holds the lines with its marks, without a mark.
LEMMA SideHolds ==
    ASSUME NEW B, text \in Seq(TextLines(B)), NEW marks
    PROVE  /\ Side(marks) \in Seq(TextLines(B))
           /\ ~is_unified_diff(Side(marks))
           /\ \A b : (\E i \in DOMAIN Side(marks) : Side(marks)[i].body = b)
                         <=> \E j \in DOMAIN text : text[j].mark \in marks /\ text[j].body = b
           /\ \A i \in DOMAIN Side(marks) : Side(marks)[i].mark = ""
<1> DEFINE I == {j \in DOMAIN text : text[j].mark \in marks}
           kept == Picked(text, I)
           n == Len(kept)
           side == Side(marks)
<1>1. kept \in Seq(TextLines(B)) /\ ToSet(kept) = {text[j] : j \in I}
  BY PickedSet
<1>2. n \in Nat /\ DOMAIN kept = 1..n /\ kept \in [1..n -> TextLines(B)]
  BY <1>1, LenProperties
<1>3. side = [i \in 1..n |-> [mark |-> "", body |-> kept[i].body]]
  BY <1>2 DEF Side
<1> HIDE DEF n, kept, side
<1>4. side \in [1..n -> TextLines(B)]
  BY <1>2, <1>3 DEF TextLines, Marks
<1>5. side \in Seq(TextLines(B)) /\ DOMAIN side = 1..n
  BY <1>2, <1>4, SeqDef
<1>6. \A i \in 1..n : side[i].mark = "" /\ side[i].body = kept[i].body
  BY <1>3
<1>7. ~is_unified_diff(side)
  BY <1>5, <1>6 DEF is_unified_diff, Has
<1>8. \A b : (\E i \in 1..n : kept[i].body = b) <=> \E j \in I : text[j].body = b
  <2>1. \A i \in 1..n : \E j \in I : kept[i] = text[j]
    <3>1. \A i \in 1..n : kept[i] \in ToSet(kept)
      BY <1>2 DEF ToSet
    <3>2. QED
      BY <1>1, <3>1
  <2>2. \A j \in I : \E i \in 1..n : kept[i] = text[j]
    <3>1. \A j \in I : text[j] \in ToSet(kept)
      BY <1>1
    <3>2. QED
      BY <1>2, <3>1 DEF ToSet
  <2> HIDE DEF I
  <2>3. QED
    BY <2>1, <2>2
<1>9. QED
  BY <1>5, <1>6, <1>7, <1>8 DEF side

\* In a unified diff, what a review of the configuration after the change finds and
\* one of the configuration before it does not is found, and nothing is found in a
\* line that the change leaves alone: for diffs of every length, of lines with any
\* bodies.
LEMMA DeltaOfText ==
    ASSUME NEW B, text \in Seq(TextLines(B))
    PROVE  DiffGradesTheDelta
<1>1. SUFFICES ASSUME is_unified_diff(text)
               PROVE  /\ ToSet(grade_diff(After)) \ ToSet(grade_diff(Before))
                             \subseteq ToSet(grade_diff(text))
                      /\ \A f \in ToSet(grade_diff(text)) : \E i \in DOMAIN text :
                             /\ text[i].body = f.snippet
                             /\ text[i].mark = IF f.change = "added" THEN "+" ELSE "-"
  BY DEF DiffGradesTheDelta
<1> DEFINE added == {"+", " ", ""}
           removed == {"-", " ", ""}
<1>2. text \in Seq(TextLines(B))
  OBVIOUS
<1>3. \A x : x \in ToSet(grade_diff(text)) <=>
          \E j \in DOMAIN text :
              Counts(text, j) /\ x \in ToSet(DetectIn(Token(text, j)))
  BY <1>2, GradeDiffHolds
<1>4. \A j \in DOMAIN text : /\ text[j].body \in B
                             /\ text[j].mark \in Marks
  <2>1. \A j \in 1..Len(text) : text[j] \in TextLines(B)
    BY <1>2, ElementOfSeq
  <2>2. QED
    BY <1>2, <2>1, LenProperties DEF TextLines
<1>5. ASSUME NEW f \in ToSet(grade_diff(text))
      PROVE  \E i \in DOMAIN text :
                 /\ text[i].body = f.snippet
                 /\ text[i].mark = IF f.change = "added" THEN "+" ELSE "-"
  <2>1. PICK j \in DOMAIN text : f \in ToSet(DetectIn(Token(text, j)))
    BY <1>3
  <2> DEFINE ln == Token(text, j)
  <2>2. ln.body = text[j].body /\ ln.sign = sign(text[j]) /\ ln.body \in B
    BY <1>1, <1>4 DEF Token
  <2> HIDE DEF ln
  <2>3. About(ln, f) /\ ln.sign # " "
    BY <2>1, <2>2, DetectInFinds DEF ln
  <2>4. /\ f.snippet = ln.body
        /\ f.change = IF ln.sign = "+" THEN "added" ELSE "removed"
    <3>1. PICK option, grade : f = Finding(ln, option, grade)
      BY <2>3 DEF About
    <3>2. QED
      BY <3>1 DEF Finding
  <2>5. text[j].mark = ln.sign /\ ln.sign \in {"+", "-"}
    BY <2>2, <2>3 DEF sign
  <2>6. QED
    BY <2>2, <2>4, <2>5
<1>6. ASSUME NEW f \in ToSet(grade_diff(After)), f \notin ToSet(grade_diff(Before))
      PROVE  f \in ToSet(grade_diff(text))
  <2>1. /\ After \in Seq(TextLines(B)) /\ Before \in Seq(TextLines(B))
        /\ ~is_unified_diff(After) /\ ~is_unified_diff(Before)
        /\ \A i \in DOMAIN After : After[i].mark = ""
        /\ \A i \in DOMAIN Before : Before[i].mark = ""
        /\ \A b : (\E i \in DOMAIN After : After[i].body = b)
                      <=> \E j \in DOMAIN text : text[j].mark \in added /\ text[j].body = b
        /\ \A b : (\E i \in DOMAIN Before : Before[i].body = b)
                      <=> \E j \in DOMAIN text : text[j].mark \in removed /\ text[j].body = b
    BY <1>2, SideHolds DEF After, Before
  <2>2. PICK i \in DOMAIN After :
            Counts(After, i) /\ f \in ToSet(DetectIn(Token(After, i)))
    BY <2>1, GradeDiffHolds
  <2>3. PICK j \in DOMAIN text : text[j].mark \in added /\ text[j].body = After[i].body
    BY <2>1
  <2>4. Token(After, i) = [sign |-> "+", body |-> text[j].body]
    BY <2>1, <2>3 DEF Token
  <2>5. text[j].mark = "+"
    <3>1. SUFFICES ASSUME text[j].mark \in removed PROVE FALSE
      BY <2>3
    <3>2. PICK k \in DOMAIN Before : Before[k].body = After[i].body
      BY <2>1, <2>3, <3>1
    <3>3. Before[k] = After[i]
      <4>1. /\ Before[k] \in TextLines(B) /\ After[i] \in TextLines(B)
            /\ Before[k].mark = After[i].mark
        <5>1. /\ \A l \in 1..Len(Before) : Before[l] \in TextLines(B)
              /\ \A l \in 1..Len(After) : After[l] \in TextLines(B)
          BY <2>1, ElementOfSeq
        <5>2. DOMAIN Before = 1..Len(Before) /\ DOMAIN After = 1..Len(After)
          BY <2>1, LenProperties
        <5>3. Before[k].mark = "" /\ After[i].mark = ""
          BY <2>1
        <5>4. QED
          BY <5>1, <5>2, <5>3
      <4>2. QED
        BY <3>2, <4>1 DEF TextLines
    <3>4. Counts(Before, k) /\ Token(Before, k) = Token(After, i)
      BY <2>1, <2>2, <3>3 DEF Counts, Token
    <3>5. f \in ToSet(grade_diff(Before))
      BY <2>1, <2>2, <3>4, GradeDiffHolds
    <3>6. QED
      BY <1>6, <3>5
  <2>6. Counts(text, j) /\ Token(text, j) = [sign |-> "+", body |-> text[j].body]
    BY <1>1, <2>5 DEF Counts, Token, sign, Headers
  <2>7. QED
    BY <1>3, <2>2, <2>4, <2>6
<1>7. QED
  BY <1>5, <1>6

\* So a change of the configuration is graded by what it changes.
THEOREM DeltaGraded == Spec => []DiffGradesTheDelta
<1>1. TypeInv => DiffGradesTheDelta
  BY SamplesAreLines, DeltaOfText DEF TypeInv
<1>2. QED
  BY <1>1, InputTypes, PTL

-----------------------------------------------------------------------------
(* Undoing a change *)

\* A list of two.
LEMMA PairIs ==
    ASSUME NEW T, NEW a \in T, NEW b \in T
    PROVE  /\ <<a, b>> \in Seq(T)
           /\ DOMAIN <<a, b>> = {1, 2} /\ <<a, b>>[1] = a /\ <<a, b>>[2] = b
  OBVIOUS

\* What is found in a diff of one line is a risk only if the line is.
LEMMA OneLineRisky ==
    ASSUME NEW B, NoBody \in B, NEW body \in B, NEW mark \in {"+", "-"},
           Risky(grade_diff(<<[mark |-> "@@ ", body |-> NoBody],
                              [mark |-> mark, body |-> body]>>))
    PROVE  Dangerous([sign |-> mark, body |-> body])
<1> DEFINE header == [mark |-> "@@ ", body |-> NoBody]
           line == [mark |-> mark, body |-> body]
           lines == <<header, line>>
           ln == [sign |-> mark, body |-> body]
<1>1. header \in TextLines(B) /\ line \in TextLines(B)
  BY DEF TextLines, Marks, Headers
<1>2. /\ lines \in Seq(TextLines(B))
      /\ DOMAIN lines = {1, 2}
      /\ lines[1].mark = "@@ "
      /\ lines[2].mark = mark /\ lines[2].body = body
  <2>1. header.mark = "@@ " /\ line.mark = mark /\ line.body = body
    OBVIOUS
  <2> HIDE DEF header, line
  <2>2. /\ lines \in Seq(TextLines(B))
        /\ DOMAIN lines = {1, 2} /\ lines[1] = header /\ lines[2] = line
    BY <1>1, PairIs
  <2>3. QED
    BY <2>1, <2>2
<1> HIDE DEF lines
<1>3. is_unified_diff(lines)
  BY <1>2 DEF is_unified_diff, Has
<1>4. ~Counts(lines, 1) /\ Token(lines, 2) = ln
  <2>1. ~Counts(lines, 1)
    BY <1>2, <1>3 DEF Counts, Headers
  <2>2. sign(lines[2]) = mark
    BY <1>2 DEF sign
  <2>3. QED
    BY <1>2, <1>3, <2>1, <2>2 DEF Token
<1>5. PICK f \in ToSet(grade_diff(lines)) : f.grade \in {"MED", "HIGH"}
  <2>1. Risky(grade_diff(lines))
    BY DEF lines
  <2>2. QED
    BY <2>1 DEF Risky, ToSet
<1>6. f \in ToSet(DetectIn(ln))
  <2>1. PICK j \in DOMAIN lines :
            Counts(lines, j) /\ f \in ToSet(DetectIn(Token(lines, j)))
    BY <1>2, GradeDiffHolds
  <2>2. j = 2
    BY <1>2, <1>4, <2>1
  <2>3. QED
    BY <1>4, <2>1, <2>2
<1>7. About(ln, f)
  BY <1>6, DetectInFinds
<1>8. PICK option, grade : /\ f = Finding(ln, option, grade)
                           /\ grade = "LOW" \/ Dangerous(ln)
  BY <1>7 DEF About
<1>9. f.grade = grade
  BY <1>8 DEF Finding
<1>10. QED
  BY <1>5, <1>8, <1>9

\* No sample line is a risk both to add and to remove.
LEMMA RiskyOneWay ==
    ASSUME NEW body \in SampleBodies
    PROVE  ~(RiskyToAdd(body) /\ RiskyToRemove(body))
<1>1. \/ body.words \in {{}, {"Ports"}, {"PortRanges"}, {"extraGroups", "wheel"},
                         {"wheelNeedsPassword", "wheel"}, {"0.0.0.0", "listen"},
                         {"0.0.0.0"}}
      \/ body.words = {"PermitRootLogin"}
      \/ body.words = {"PasswordAuthentication"}
      \/ body.words = {"fail2ban.enable"}
      \/ /\ body.words = {"PermitRootLogin", "PasswordAuthentication"}
         /\ body.rhs \in {"yes", "true"}
  <2>1. CASE body = NoBody
    BY <2>1 DEF NoBody
  <2>2. CASE body \in Setting({"PermitRootLogin"}, Values)
    BY <2>2 DEF Setting
  <2>3. CASE body \in Setting({"PasswordAuthentication"}, {"true", "false", "other"})
    BY <2>3 DEF Setting
  <2>4. CASE body \in Setting({"extraGroups", "wheel"}, {"other"})
    BY <2>4 DEF Setting
  <2>5. CASE body \in Setting({"wheelNeedsPassword", "wheel"}, {"true", "false"})
    BY <2>5 DEF Setting
  <2>6. CASE body \in Setting({"fail2ban.enable"}, {"true", "false"})
    BY <2>6 DEF Setting
  <2>7. CASE body \in Setting({"PermitRootLogin", "PasswordAuthentication"},
                               {"yes", "true"})
    BY <2>7 DEF Setting
  <2>8. CASE body.words \in {{"Ports"}, {"PortRanges"}, {"0.0.0.0", "listen"},
                              {"0.0.0.0"}}
    BY <2>8
  <2>9. QED
    <3>1. ASSUME body \in [words : {{"Ports"}, {"PortRanges"}}, rhs : {"other"},
                           numbers : SUBSET Numbers]
          PROVE  body.words \in {{"Ports"}, {"PortRanges"}}
      BY <3>1
    <3>2. ASSUME body \in [words : {{"0.0.0.0", "listen"}, {"0.0.0.0"}}, rhs : {"other"},
                           numbers : {{"no port"}}]
          PROVE  body.words \in {{"0.0.0.0", "listen"}, {"0.0.0.0"}}
      BY <3>2
    <3>3. QED
      BY <2>1, <2>2, <2>3, <2>4, <2>5, <2>6, <2>7, <2>8, <3>1, <3>2, Zenon
         DEF SampleBodies
<1>2. QED
  BY <1>1 DEF RiskyToAdd, RiskyToRemove

\* The words of one option.
OptionWords ==
    {{"PortRanges", "Ports"}, {"PermitRootLogin"}, {"PasswordAuthentication"},
     {"extraGroups", "wheel", "wheelNeedsPassword"}, {"fail2ban.enable"},
     {"0.0.0.0", "listen"}}

\* Any line about one option, whatever else it holds: to add it and to remove it are
\* not both graded MED or HIGH.
THEOREM OneOptionOneWay ==
    ASSUME NEW B, NoBody \in B, NEW body \in B,
           NEW option \in OptionWords, body.words \subseteq option
    PROVE  LET change(mark) == <<[mark |-> "@@ ", body |-> NoBody],
                                 [mark |-> mark, body |-> body]>>
           IN  ~(Risky(grade_diff(change("+"))) /\ Risky(grade_diff(change("-"))))
<1> DEFINE change(mark) == <<[mark |-> "@@ ", body |-> NoBody],
                             [mark |-> mark, body |-> body]>>
<1>1. SUFFICES ASSUME Risky(grade_diff(change("+"))), Risky(grade_diff(change("-")))
               PROVE  FALSE
  OBVIOUS
<1>2. Dangerous([sign |-> "+", body |-> body])
  BY <1>1, OneLineRisky
<1>3. Dangerous([sign |-> "-", body |-> body])
  BY <1>1, OneLineRisky
<1>4. RiskyToAdd(body) /\ RiskyToRemove(body)
  BY <1>2, <1>3 DEF Dangerous
<1>5. CASE "PermitRootLogin" \in body.words
  <2>1. body.words \subseteq {"PermitRootLogin"}
    BY <1>5 DEF OptionWords
  <2>2. QED
    BY <1>4, <2>1 DEF RiskyToAdd, RiskyToRemove
<1>6. CASE "PasswordAuthentication" \in body.words
  <2>1. body.words \subseteq {"PasswordAuthentication"}
    BY <1>6 DEF OptionWords
  <2>2. QED
    BY <1>4, <2>1 DEF RiskyToAdd, RiskyToRemove
<1>7. CASE "fail2ban.enable" \in body.words
  <2>1. body.words \subseteq {"fail2ban.enable"}
    BY <1>7 DEF OptionWords
  <2>2. QED
    BY <1>4, <2>1 DEF RiskyToAdd, RiskyToRemove
<1>8. QED
  BY <1>4, <1>5, <1>6, <1>7 DEF RiskyToRemove

\* A change of one option and its undoing are not both graded MED or HIGH.
THEOREM OneWay == Spec => []OneWayIsRisky
<1>1. TypeInv => OneWayIsRisky
  <2> SUFFICES ASSUME TypeInv, NEW i \in DOMAIN text
               PROVE  LET change(mark) == <<[mark |-> "@@ ", body |-> NoBody],
                                            [mark |-> mark, body |-> text[i].body]>>
                      IN  ~(Risky(grade_diff(change("+"))) /\ Risky(grade_diff(change("-"))))
    BY DEF OneWayIsRisky
  <2> DEFINE change(mark) == <<[mark |-> "@@ ", body |-> NoBody],
                               [mark |-> mark, body |-> text[i].body]>>
  <2>1. SUFFICES ASSUME Risky(grade_diff(change("+"))), Risky(grade_diff(change("-")))
                 PROVE  FALSE
    OBVIOUS
  <2>2. text[i].body \in SampleBodies /\ NoBody \in SampleBodies
    <3>1. text \in Seq(TextLines(SampleBodies))
      BY SamplesAreLines DEF TypeInv
    <3>2. text[i] \in TextLines(SampleBodies)
      BY <3>1, ElementOfSeq, LenProperties
    <3>3. QED
      BY <3>2 DEF TextLines, SampleBodies
  <2>3. Dangerous([sign |-> "+", body |-> text[i].body])
    BY <2>1, <2>2, OneLineRisky
  <2>4. Dangerous([sign |-> "-", body |-> text[i].body])
    BY <2>1, <2>2, OneLineRisky
  <2>5. RiskyToAdd(text[i].body) /\ RiskyToRemove(text[i].body)
    BY <2>3, <2>4 DEF Dangerous
  <2>6. QED
    BY <2>2, <2>5, RiskyOneWay
<1>2. QED
  BY <1>1, InputTypes, PTL

-----------------------------------------------------------------------------
(* The overall grade *)

Higher(grade, f) ==
    IF grade_rank(f.grade) > grade_rank(grade) THEN f.grade ELSE grade

\* The function that the overall grade is computed by.
Climbs(f, findings, n) ==
    f = [s \in SUBSET (1..n) |->
            IF s = {} THEN "NONE" ELSE Higher(f[s \ {Max(s)}], findings[Max(s)])]

\* The ranks of the grades that a finding can have, and of none.
LEMMA RankValues ==
    /\ grade_rank("NONE") = 0 /\ grade_rank("LOW") = 1
    /\ grade_rank("MED") = 2 /\ grade_rank("HIGH") = 3
  BY DEF grade_rank, Grades, GRADE_RANK

\* The overall grade is that of a finding, and no finding has a higher one.
LEMMA OverallIs ==
    ASSUME NEW B, NEW findings \in Seq(FindingsOf(B))
    PROVE  /\ findings = <<>> => overall(findings) = "NONE"
           /\ findings # <<>> => \E i \in DOMAIN findings :
                  overall(findings) = findings[i].grade
           /\ \A i \in DOMAIN findings :
                  grade_rank(findings[i].grade) <= grade_rank(overall(findings))
<1> DEFINE n == Len(findings)
           A == Graded \cup {"NONE"}
           F == [i \in 1..n |-> [grade \in A |-> Higher(grade, findings[i])]]
           climb == CHOOSE f : Climbs(f, findings, n)
<1>1. n \in Nat /\ DOMAIN findings = 1..n
  BY LenProperties
<1>2. overall(findings) = climb[1..n]
  BY <1>1 DEF overall, FoldLeft, MapThenFoldSet, Climbs, Higher
<1>3. \A i \in 1..n : findings[i].grade \in Graded
  <2>1. \A i \in 1..n : findings[i] \in FindingsOf(B)
    BY ElementOfSeq
  <2>2. QED
    BY <2>1 DEF FindingsOf
<1> HIDE DEF n
<1>4. \A i \in 1..n, grade \in A : Higher(grade, findings[i]) \in A
  BY <1>3 DEF Higher
<1>5. "NONE" \in A
  OBVIOUS
<1>6. \A grade \in A : grade_rank(grade) \in Nat
  BY RankValues DEF Graded
<1>7. \A grade \in Graded : grade_rank(grade) > grade_rank("NONE") /\ grade \in A
  BY RankValues DEF Graded
<1> HIDE DEF A
<1>8. F \in [1..n -> [A -> A]]
  BY <1>4
<1>9. PICK f \in [SUBSET (1..n) -> A] : Accumulates(f, "NONE", F, n)
  BY <1>1, <1>5, <1>8, AccumulatorExists
<1>10. Climbs(f, findings, n)
  <2>1. ASSUME NEW s \in SUBSET (1..n), s # {}
        PROVE  F[Max(s)][f[s \ {Max(s)}]] = Higher(f[s \ {Max(s)}], findings[Max(s)])
    <3>1. Max(s) \in 1..n
      BY <1>1, <2>1, BelowMax
    <3>2. s \ {Max(s)} \in SUBSET (1..n)
      OBVIOUS
    <3>3. f[s \ {Max(s)}] \in A
      BY <3>2
    <3>4. QED
      BY <3>1, <3>3
  <2> HIDE DEF F
  <2>2. QED
    BY <1>9, <2>1 DEF Climbs, Accumulates
<1>11. Climbs(climb, findings, n)
  BY <1>10
<1> HIDE DEF climb, F
<1> DEFINE Holds(k) ==
              /\ climb[1..k] \in A
              /\ k = 0 => climb[1..k] = "NONE"
              /\ k # 0 => \E i \in 1..k : climb[1..k] = findings[i].grade
              /\ \A i \in 1..k : grade_rank(findings[i].grade) <= grade_rank(climb[1..k])
           Fails == {k \in 0..n : ~Holds(k)}
<1>12. Holds(0)
  <2>1. 1..0 = {} /\ 1..0 \in SUBSET (1..n)
    OBVIOUS
  <2>2. climb[1..0] = "NONE"
    BY <1>11, <2>1 DEF Climbs
  <2>3. QED
    BY <1>5, <2>1, <2>2
<1>13. ASSUME NEW k \in 1..n, Holds(k - 1) PROVE Holds(k)
  <2>1. k \in Nat \ {0} /\ 1..k \in SUBSET (1..n)
    BY <1>1
  <2>2. 1..k # {} /\ Max(1..k) = k /\ 1..k \ {Max(1..k)} = 1..(k - 1)
    BY <2>1, PrefixMax
  <2>3. climb[1..k] = Higher(climb[1..(k - 1)], findings[k])
    BY <1>11, <2>1, <2>2 DEF Climbs
  <2> DEFINE old == climb[1..(k - 1)]
             new == climb[1..k]
             grade == findings[k].grade
  <2>4. /\ old \in A /\ grade \in A /\ grade \in Graded
        /\ new = IF grade_rank(grade) > grade_rank(old) THEN grade ELSE old
        /\ new \in A
    BY <1>3, <1>4, <1>7, <1>13, <2>3 DEF Higher
  <2>5. \A i \in Int : i \in 1..k <=> i \in 1..(k - 1) \/ i = k
    BY <2>1
  <2>6. /\ k - 1 = 0 => old = "NONE"
        /\ k - 1 # 0 => \E i \in 1..(k - 1) : old = findings[i].grade
        /\ \A i \in 1..(k - 1) : grade_rank(findings[i].grade) <= grade_rank(old)
    BY <1>13
  <2> HIDE DEF old, new, grade
  <2>7. new = grade \/ \E i \in 1..(k - 1) : new = findings[i].grade
    BY <1>7, <2>1, <2>4, <2>6
  <2>8. \E i \in 1..k : new = findings[i].grade
    <3>1. k \in 1..k /\ \A i \in 1..(k - 1) : i \in 1..k
      BY <2>1
    <3>2. QED
      BY <2>7, <3>1 DEF grade
  <2>9. grade_rank(old) <= grade_rank(new) /\ grade_rank(grade) <= grade_rank(new)
    BY <1>6, <2>4
  <2>10. ASSUME NEW i \in 1..k PROVE grade_rank(findings[i].grade) <= grade_rank(new)
    <3>1. CASE i = k
      BY <2>9, <3>1 DEF grade
    <3>2. CASE i \in 1..(k - 1)
      <4>1. grade_rank(findings[i].grade) \in Nat
        BY <1>3, <1>6, <1>7, <2>1
      <4>2. grade_rank(findings[i].grade) <= grade_rank(old)
        BY <2>6, <3>2
      <4>3. QED
        BY <1>6, <2>4, <2>9, <4>1, <4>2
    <3>3. QED
      BY <2>5, <3>1, <3>2
  <2>11. QED
    BY <2>1, <2>4, <2>8, <2>10 DEF new
<1> HIDE DEF Holds
<1>14. Fails = {}
  <2>1. SUFFICES ASSUME Fails # {} PROVE FALSE
    OBVIOUS
  <2>2. PICK k \in Fails : \A j \in Fails : k <= j
    <3>1. Fails \in SUBSET Nat
      OBVIOUS
    <3>2. QED
      BY <2>1, <3>1, LeastNumber
  <2>3. k # 0
    BY <1>12, <2>2
  <2>4. k \in 1..n /\ k - 1 \in 0..n /\ ~(k <= k - 1)
    BY <1>1, <2>2, <2>3
  <2>5. Holds(k - 1)
    BY <2>2, <2>4
  <2>6. QED
    BY <1>13, <2>2, <2>4, <2>5
<1>15. Holds(n)
  <2>1. n \in 0..n
    BY <1>1
  <2>2. QED
    BY <1>14, <2>1
<1>16. findings = <<>> <=> n = 0
  BY EmptySeq DEF n
<1>17. QED
  BY <1>1, <1>2, <1>15, <1>16 DEF Holds

\* The overall grade of a review is the highest of its summary, and NONE only when
\* nothing was found: for texts of every length, of lines with any bodies.
LEMMA HighestOfText ==
    ASSUME NEW B, text \in Seq(TextLines(B))
    PROVE  GradeIsTheHighest
<1> DEFINE findings == grade_diff(text)
           top == overall(findings)
           Of(g) == {i \in DOMAIN findings : findings[i].grade = g}
<1> SUFFICES top = CASE Cardinality(Of("HIGH")) > 0 -> "HIGH"
                    [] Cardinality(Of("HIGH")) = 0
                           /\ Cardinality(Of("MED")) > 0 -> "MED"
                    [] Cardinality(Of("HIGH")) = 0
                           /\ Cardinality(Of("MED")) = 0
                           /\ Cardinality(Of("LOW")) > 0 -> "LOW"
                    [] findings = <<>> -> "NONE"
  BY DEF GradeIsTheHighest, summary
<1>1. findings \in Seq(FindingsOf(B))
  BY GradeDiffHolds
<1> HIDE DEF findings, top
<1>2. /\ findings = <<>> => top = "NONE"
      /\ findings # <<>> => \E i \in DOMAIN findings : top = findings[i].grade
      /\ \A i \in DOMAIN findings : grade_rank(findings[i].grade) <= grade_rank(top)
  BY <1>1, OverallIs DEF top
<1>3. /\ DOMAIN findings = 1..Len(findings) /\ Len(findings) \in Nat
      /\ \A i \in DOMAIN findings : findings[i].grade \in Graded
      /\ findings = <<>> <=> DOMAIN findings = {}
  <2>1. DOMAIN findings = 1..Len(findings) /\ Len(findings) \in Nat
    BY <1>1, LenProperties
  <2>2. \A i \in 1..Len(findings) : findings[i].grade \in Graded
    <3>1. \A i \in 1..Len(findings) : findings[i] \in FindingsOf(B)
      BY <1>1, ElementOfSeq
    <3>2. QED
      BY <3>1 DEF FindingsOf
  <2>3. findings = <<>> <=> Len(findings) = 0
    BY <1>1, EmptySeq
  <2>4. Len(findings) = 0 <=> 1..Len(findings) = {}
    <3>1. \A n \in Nat : n = 0 <=> 1..n = {}
      OBVIOUS
    <3>2. QED
      BY <2>1, <3>1
  <2>5. QED
    BY <2>1, <2>2, <2>3, <2>4
<1>4. ASSUME NEW g
      PROVE  /\ Cardinality(Of(g)) \in Nat
             /\ Cardinality(Of(g)) = 0 <=> Of(g) = {}
  <2>1. IsFiniteSet(Of(g))
    <3>1. IsFiniteSet(1..Len(findings))
      BY <1>3, FS_Interval
    <3>2. QED
      BY <1>3, <3>1, FS_Subset
  <2>2. QED
    BY <2>1, FS_CardinalityType, FS_EmptySet
<1>5. /\ Of("HIGH") # {} => top = "HIGH"
      /\ Of("HIGH") = {} /\ Of("MED") # {} => top = "MED"
      /\ Of("HIGH") = {} /\ Of("MED") = {} /\ Of("LOW") # {} => top = "LOW"
      /\ Of("HIGH") = {} /\ Of("MED") = {} /\ Of("LOW") = {} => findings = <<>>
      /\ \A g : Of(g) # {} => findings # <<>>
  <2>1. findings # <<>> => top \in Graded
    BY <1>2, <1>3
  <2>2. QED
    BY <1>2, <1>3, <2>1, RankValues DEF Graded
<1> HIDE DEF Of
<1>6. \A g : Cardinality(Of(g)) > 0 <=> Of(g) # {}
  BY <1>4
<1>7. CASE Of("HIGH") # {}
  BY <1>4, <1>5, <1>6, <1>7
<1>8. CASE Of("HIGH") = {} /\ Of("MED") # {}
  BY <1>4, <1>5, <1>6, <1>8
<1>9. CASE Of("HIGH") = {} /\ Of("MED") = {} /\ Of("LOW") # {}
  BY <1>4, <1>5, <1>6, <1>9
<1>10. CASE Of("HIGH") = {} /\ Of("MED") = {} /\ Of("LOW") = {}
  BY <1>2, <1>4, <1>5, <1>6, <1>10
<1>11. QED
  BY <1>7, <1>8, <1>9, <1>10

\* So the grade that review_diff answers and records is that of its worst finding.
THEOREM HighestGrade == Spec => []GradeIsTheHighest
<1>1. TypeInv => GradeIsTheHighest
  BY SamplesAreLines, HighestOfText DEF TypeInv
<1>2. QED
  BY <1>1, InputTypes, PTL
=============================================================================
