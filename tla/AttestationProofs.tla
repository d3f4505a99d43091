--------------------------- MODULE AttestationProofs ---------------------------
(***************************************************************************)
(* Theorems about Attestation for every set of CVEs and tasks, every time  *)
(* to live, duration of a fetch and length of a run.                       *)
(***************************************************************************)
EXTENDS Attestation, Integers, TLAPS

-----------------------------------------------------------------------------
(* The inductive invariant *)

Answers == [grade : Grades \cup {NoGrade}, degraded : BOOLEAN, via : Vias,
            scan : Scans, at : 0..MaxTime]
Replies == [entries : SUBSET Cves, sent_at : 0..MaxTime, blank : BOOLEAN]

\* Nothing is dated later than now.
Dated(a) ==
    /\ a.at <= now
    /\ a.via.sent_at <= a.via.cached_at /\ a.via.cached_at <= now
Past ==
    /\ \A c \in Cves : listed[c] <= now \/ listed[c] = Never
    /\ \A t \in Tasks : Dated(answer[t])

\* What a catalog says was so when the feed sent it; and, unless it is a blank, what
\* it does not say was not.
SaysOf(entries, sent_at, blank) ==
    /\ \A c \in entries : listed[c] <= sent_at
    /\ ~blank => \A c \in Cves \ entries : sent_at <= listed[c]

\* The cache was sent before it was kept.  One that does not exist says nothing.
Tells(kev_cache) ==
    /\ kev_cache.sent_at <= kev_cache.cached_at /\ kev_cache.cached_at <= now
    /\ ~kev_cache.exists => kev_cache.entries = {}
    /\ kev_cache.exists =>
           SaysOf(kev_cache.entries, kev_cache.sent_at, kev_cache.blank)

\* So does an answer of the feed that is under way.
ReplyTells ==
    \A t \in Tasks : Received(t) =>
        /\ reply[t].sent_at <= now
        /\ SaysOf(reply[t].entries, reply[t].sent_at, reply[t].blank)

\* The two properties, of one answer, given what is listed.
Earned(a, listing) ==
    /\ a.grade = "HIGH" => \E c \in a.scan.cves : listing[c] <= a.at
    /\ a.grade = "MED" =>
           /\ a.scan.cves # {} /\ a.via.kind # "nothing"
           /\ a.via.kind = "read" =>
                  \A c \in a.scan.cves : a.via.sent_at <= listing[c]
    /\ a.grade = "LOW" =>
           a.scan.output \in {"report", "other JSON"} /\ a.scan.cves = {}

Recent(a, listing) ==
    a.grade \in {"LOW", "MED"} /\ ~a.degraded =>
        \/ a.via.kind = "unread"
        \/ a.via.kind = "blank" /\ a.at <= a.via.cached_at + Ttl
        \/ \A c \in a.scan.cves :
               a.at <= listing[c] + Ttl + (a.via.cached_at - a.via.sent_at)

AnswersTell ==
    \A t \in Tasks : Earned(answer[t], listed) /\ Recent(answer[t], listed)

Inv == TypeOK /\ Past /\ Tells(cache) /\ ReplyTells /\ AnswersTell

-----------------------------------------------------------------------------
(* Grades *)

\* Nothing has been answered yet, scanned, sent or cached: all have their types.
LEMMA NoneTypes ==
    /\ NoAnswer \in Answers /\ NoScan \in Scans /\ NoReply \in Replies
    /\ NoCache \in Caches /\ Never \in 0..Never /\ MaxTime \in Nat /\ 0 \in 0..MaxTime
<1>1. MaxTime \in Nat /\ Never = MaxTime + 1
  BY AttestationAssumption DEF Never
<1>2. Never \in 0..Never /\ 0 \in 0..MaxTime
  BY <1>1
<1>3. NoScan \in Scans
  BY DEF NoScan, Scans
<1>4. Via(NoCache, NoCache) \in Vias
  BY <1>2 DEF Via, Vias, NoCache
<1>5. NoReply \in Replies /\ NoCache \in Caches
  BY <1>2 DEF NoReply, Replies, NoCache, Caches
<1>6. NoAnswer \in Answers
  BY <1>2, <1>3, <1>4 DEF NoAnswer, Answers
<1>7. QED
  BY <1>1, <1>2, <1>3, <1>5, <1>6

\* What each grade says of the scan and of the catalog.
LEMMA GradeSays ==
    ASSUME NEW result \in Scans, NEW matches \in SUBSET result.cves,
           NEW checked \in BOOLEAN
    PROVE  LET grade == closure_grade(result, matches, checked) IN
           /\ grade \in {"UNKNOWN", "HIGH", "MED", "LOW"}
           /\ grade = "HIGH" => matches # {}
           /\ grade = "MED" => result.cves # {} /\ matches = {} /\ checked
           /\ grade = "LOW" => /\ result.output \in {"report", "other JSON"}
                               /\ result.cves = {}
<1>1. CASE ~attest(result)
  BY <1>1 DEF closure_grade
<1>2. CASE attest(result) /\ matches # {}
  BY <1>2 DEF closure_grade
<1>3. CASE attest(result) /\ matches = {} /\ result.cves # {}
  BY <1>3 DEF closure_grade
<1>4. CASE attest(result) /\ result.cves = {}
  BY <1>4 DEF closure_grade, attest
<1>5. QED
  BY <1>1, <1>2, <1>3, <1>4

\* What a task answers when the cache it leaves tells: what it does not say is
\* degraded goes by one that is fresh.
LEMMA AnswerSays ==
    ASSUME TypeOK, NEW t \in Tasks, NEW result \in Scans, NEW degraded \in BOOLEAN,
           NEW kev_cache \in Caches, cache' = kev_cache, Tells(kev_cache),
           NEW catalog \in {kev_cache, NoCache},
           Answer(t, result, catalog, degraded),
           result.cves # {} /\ ~degraded =>
               catalog.exists /\ now <= catalog.cached_at + Ttl
    PROVE  /\ answer'[t] \in Answers /\ Dated(answer'[t])
           /\ Earned(answer'[t], listed) /\ Recent(answer'[t], listed)
           /\ \A u \in Tasks \ {t} : answer'[u] = answer[u]
<1>1. PICK seen \in {kev_cache, NoCache} :
          answer' = [answer EXCEPT ![t] =
              [grade |-> closure_grade(result, lookup(result.cves, seen),
                                       catalog.exists),
               degraded |-> degraded, via |-> Via(catalog, seen),
               scan |-> result, at |-> now]]
  BY DEF Answer, Reads
<1> DEFINE matches == lookup(result.cves, seen)
           grade == closure_grade(result, matches, catalog.exists)
           via == Via(catalog, seen)
           a == [grade |-> grade, degraded |-> degraded, via |-> via,
                 scan |-> result, at |-> now]
<1>2. answer'[t] = a /\ \A u \in Tasks \ {t} : answer'[u] = answer[u]
  BY <1>1 DEF TypeOK
<1>3. matches = result.cves \cap seen.entries /\ matches \in SUBSET result.cves
  BY DEF lookup
<1>4. NoCache \in Caches /\ ~NoCache.exists /\ NoCache.entries = {}
  BY NoneTypes DEF NoCache
<1>5. /\ catalog \in Caches /\ catalog.exists \in BOOLEAN /\ catalog.blank \in BOOLEAN
      /\ catalog.cached_at \in 0..MaxTime /\ catalog.sent_at \in 0..MaxTime
      /\ result.cves \subseteq Cves
  BY <1>4 DEF Caches, Scans
<1>6. /\ grade \in {"UNKNOWN", "HIGH", "MED", "LOW"}
      /\ grade = "HIGH" => matches # {}
      /\ grade = "MED" => result.cves # {} /\ matches = {} /\ catalog.exists
      /\ grade = "LOW" => /\ result.output \in {"report", "other JSON"}
                          /\ result.cves = {}
  BY <1>3, <1>5, GradeSays
<1>7. /\ catalog.exists => catalog = kev_cache
      /\ seen.exists => seen = kev_cache
      /\ seen.entries # {} => seen = kev_cache /\ kev_cache.exists
  BY <1>4 DEF Tells
<1>8. /\ via \in Vias
      /\ via.cached_at = catalog.cached_at /\ via.sent_at = catalog.sent_at
      /\ ~catalog.exists <=> via.kind = "nothing"
      /\ catalog.exists /\ ~seen.exists => via.kind = "unread"
      /\ catalog.exists /\ seen.exists /\ catalog.blank => via.kind = "blank"
      /\ via.kind = "read" => catalog.exists /\ seen.exists /\ ~catalog.blank
  BY <1>5 DEF Via, Vias
<1>9. /\ now \in 0..MaxTime /\ MaxTime \in Nat /\ Ttl \in Nat /\ Never = MaxTime + 1
      /\ \A c \in Cves : listed[c] \in 0..Never
  BY NoneTypes, AttestationAssumption DEF TypeOK, Never
<1>10. catalog.exists /\ seen.exists /\ ~catalog.blank /\ matches = {} =>
           \A c \in result.cves : catalog.sent_at <= listed[c]
  BY <1>3, <1>5, <1>7 DEF Tells, SaysOf
<1>11. matches # {} => \E c \in result.cves : listed[c] <= now
  <2>1. SUFFICES ASSUME matches # {}
                 PROVE  \E c \in result.cves : listed[c] <= now
    OBVIOUS
  <2>2. PICK c \in result.cves : c \in seen.entries
    BY <1>3, <2>1
  <2>3. c \in kev_cache.entries /\ listed[c] <= kev_cache.sent_at
    BY <1>7, <2>2 DEF Tells, SaysOf
  <2>4. kev_cache.sent_at <= kev_cache.cached_at /\ kev_cache.cached_at <= now
    BY DEF Tells
  <2>5. kev_cache.sent_at \in 0..MaxTime /\ kev_cache.cached_at \in 0..MaxTime
    BY DEF Caches
  <2>6. c \in Cves /\ listed[c] <= now
    BY <1>5, <1>9, <2>2, <2>3, <2>4, <2>5
  <2>7. QED
    BY <2>6
<1> HIDE DEF grade, via, matches
<1>12. a \in Answers
  BY <1>6, <1>8, <1>9 DEF Answers, Grades, GRADE_RANK
<1>13. Earned(a, listed) /\ Dated(a)
  <2>1. Earned(a, listed)
    BY <1>6, <1>8, <1>10, <1>11 DEF Earned
  <2>2. catalog.sent_at <= catalog.cached_at /\ catalog.cached_at <= now
    BY <1>9 DEF Tells, NoCache
  <2>3. QED
    BY <1>8, <1>9, <2>1, <2>2 DEF Dated
<1>14. Recent(a, listed)
  <2> SUFFICES ASSUME grade \in {"LOW", "MED"}, ~degraded, result.cves # {}
               PROVE  \/ via.kind = "unread"
                      \/ via.kind = "blank" /\ now <= via.cached_at + Ttl
                      \/ \A c \in result.cves :
                             now <= listed[c] + Ttl + (via.cached_at - via.sent_at)
    BY DEF Recent
  <2>1. /\ catalog.exists /\ now <= catalog.cached_at + Ttl /\ matches = {}
    BY <1>6
  <2>2. CASE ~seen.exists
    BY <1>8, <2>1, <2>2
  <2>3. CASE seen.exists /\ catalog.blank
    BY <1>8, <2>1, <2>3
  <2>4. CASE seen.exists /\ ~catalog.blank
    BY <1>5, <1>8, <1>9, <1>10, <2>1, <2>4
  <2>5. QED
    BY <1>5, <2>2, <2>3, <2>4
<1>15. QED
  BY <1>2, <1>12, <1>13, <1>14

\* What was answered stays true when CISA lists another CVE.
LEMMA AnswerStays ==
    ASSUME NEW a \in Answers, NEW listing \in [Cves -> 0..Never],
           NEW longer \in [Cves -> 0..Never], NEW time \in 0..MaxTime,
           a.at <= time, a.via.sent_at <= a.via.cached_at, a.via.cached_at <= time,
           \A c \in Cves : \/ longer[c] = listing[c]
                           \/ listing[c] = Never /\ longer[c] = time,
           Earned(a, listing), Recent(a, listing)
    PROVE  Earned(a, longer) /\ Recent(a, longer)
<1>1. /\ a.at \in 0..MaxTime /\ a.scan.cves \subseteq Cves /\ MaxTime \in Nat
      /\ Never = MaxTime + 1
      /\ a.via.cached_at \in 0..MaxTime /\ a.via.sent_at \in 0..MaxTime
  BY NoneTypes DEF Answers, Scans, Vias, Never
<1>2. ASSUME NEW c \in a.scan.cves, listing[c] <= a.at PROVE longer[c] <= a.at
  BY <1>1, <1>2
<1>3. ASSUME NEW c \in a.scan.cves, a.via.sent_at <= listing[c]
      PROVE  a.via.sent_at <= longer[c]
  BY <1>1, <1>3
<1>4. ASSUME NEW c \in a.scan.cves,
             a.at <= listing[c] + Ttl + (a.via.cached_at - a.via.sent_at)
      PROVE  a.at <= longer[c] + Ttl + (a.via.cached_at - a.via.sent_at)
  BY <1>1, <1>4, AttestationAssumption
<1>5. Earned(a, longer)
  BY <1>2, <1>3 DEF Earned
<1>6. Recent(a, longer)
  BY <1>4 DEF Recent
<1>7. QED
  BY <1>5, <1>6

-----------------------------------------------------------------------------
(* The tasks *)

\* A task that is done has nothing under way any more; the others do not notice.
LEMMA DoneTells ==
    ASSUME Inv, NEW t \in Tasks,
           pc' = [pc EXCEPT ![t] = "idle"], scan' = [scan EXCEPT ![t] = NoScan],
           reply' = [reply EXCEPT ![t] = NoReply], now' = now, listed' = listed
    PROVE  /\ pc' \in [Tasks -> {"idle", "scanning", "fetching", "refreshing",
                                 "receiving"}]
           /\ scan' \in [Tasks -> Scans] /\ reply' \in [Tasks -> Replies]
           /\ now' \in 0..MaxTime /\ listed' \in [Cves -> 0..Never]
           /\ ReplyTells'
<1>1. /\ pc' \in [Tasks -> {"idle", "scanning", "fetching", "refreshing",
                            "receiving"}]
      /\ scan' \in [Tasks -> Scans] /\ reply' \in [Tasks -> Replies]
      /\ now' \in 0..MaxTime /\ listed' \in [Cves -> 0..Never]
  BY NoneTypes DEF Inv, TypeOK, Replies
<1>2. ASSUME NEW u \in Tasks, Received(u)'
      PROVE  Received(u) /\ reply'[u] = reply[u]
  BY <1>2 DEF Received, Inv, TypeOK
<1>3. ReplyTells'
  BY <1>2 DEF ReplyTells, SaysOf, Inv
<1>4. QED
  BY <1>1, <1>3

\* So a step that leaves a cache that tells keeps the invariant if its task answers
\* by it, without saying degraded only if it is fresh ...
LEMMA AnsweredInv ==
    ASSUME Inv, NEW t \in Tasks, NEW result \in Scans, NEW degraded \in BOOLEAN,
           NEW catalog \in {cache', NoCache},
           Answer(t, result, catalog, degraded),
           result.cves # {} /\ ~degraded =>
               catalog.exists /\ now <= catalog.cached_at + Ttl,
           now' = now, listed' = listed, cache' \in Caches, Tells(cache')
    PROVE  Inv'
<1>1. TypeOK /\ Past /\ AnswersTell /\ answer \in [Tasks -> Answers]
  BY DEF Inv, TypeOK, Answers
<1>2. /\ answer'[t] \in Answers /\ Dated(answer'[t])
      /\ Earned(answer'[t], listed) /\ Recent(answer'[t], listed)
      /\ \A u \in Tasks \ {t} : answer'[u] = answer[u]
  BY <1>1, AnswerSays
<1>3. /\ pc' = [pc EXCEPT ![t] = "idle"] /\ scan' = [scan EXCEPT ![t] = NoScan]
      /\ reply' = [reply EXCEPT ![t] = NoReply]
      /\ answer' = [answer EXCEPT ![t] = answer'[t]]
  BY <1>1 DEF Answer
<1>4. /\ pc' \in [Tasks -> {"idle", "scanning", "fetching", "refreshing",
                            "receiving"}]
      /\ scan' \in [Tasks -> Scans] /\ reply' \in [Tasks -> Replies]
      /\ now' \in 0..MaxTime /\ listed' \in [Cves -> 0..Never] /\ ReplyTells'
  BY <1>3, DoneTells
<1>5. answer' \in [Tasks -> Answers]
  BY <1>1, <1>2, <1>3
<1>6. TypeOK'
  BY <1>4, <1>5 DEF TypeOK, Replies, Answers
<1>7. Past'
  BY <1>1, <1>2 DEF Past, Dated
<1>8. AnswersTell'
  BY <1>1, <1>2 DEF AnswersTell
<1>9. Tells(cache)'
  BY DEF Tells, SaysOf
<1>10. QED
  BY <1>4, <1>6, <1>7, <1>8, <1>9 DEF Inv

\* ... or ends without an answer.
LEMMA EndedInv ==
    ASSUME Inv, NEW t \in Tasks, End(t), now' = now, listed' = listed,
           cache' \in Caches, Tells(cache')
    PROVE  Inv'
<1>1. /\ pc' \in [Tasks -> {"idle", "scanning", "fetching", "refreshing",
                            "receiving"}]
      /\ scan' \in [Tasks -> Scans] /\ reply' \in [Tasks -> Replies]
      /\ now' \in 0..MaxTime /\ listed' \in [Cves -> 0..Never] /\ ReplyTells'
  BY DoneTells DEF End
<1>2. answer' = answer
  BY DEF End
<1>3. TypeOK'
  BY <1>1, <1>2 DEF Inv, TypeOK, Replies
<1>4. Past' /\ AnswersTell'
  BY <1>2 DEF Inv, Past, Dated, AnswersTell
<1>5. Tells(cache)'
  BY DEF Tells, SaysOf
<1>6. QED
  BY <1>1, <1>3, <1>4, <1>5 DEF Inv

\* A task that starts something, or waits for it, has answered nothing new.
LEMMA BegunInv ==
    ASSUME Inv, NEW t \in Tasks,
           \/ Start(t) \/ Refresh(t)
           \/ \E result \in Scans : ScanNeedsFetch(t, result)
    PROVE  Inv'
<1>1. /\ now' = now /\ listed' = listed /\ cache' = cache /\ reply' = reply
      /\ answer' \in {answer, [answer EXCEPT ![t] = NoAnswer]}
      /\ \E to \in {"scanning", "fetching", "refreshing"} :
             pc' = [pc EXCEPT ![t] = to]
      /\ scan' = scan \/ \E result \in Scans : scan' = [scan EXCEPT ![t] = result]
  BY DEF Start, Refresh, ScanNeedsFetch
<1>2. answer \in [Tasks -> Answers] /\ NoAnswer \in Answers /\ now \in 0..MaxTime
  BY NoneTypes DEF Inv, TypeOK, Answers
<1>3. answer' \in [Tasks -> Answers]
  BY <1>1, <1>2
<1>4. TypeOK'
  <2>1. pc' \in [Tasks -> {"idle", "scanning", "fetching", "refreshing",
                           "receiving"}]
    BY <1>1 DEF Inv, TypeOK
  <2>2. scan' \in [Tasks -> Scans]
    BY <1>1 DEF Inv, TypeOK
  <2>3. QED
    BY <1>1, <1>3, <2>1, <2>2 DEF Inv, TypeOK, Answers
<1>5. \A u \in Tasks : answer'[u] = answer[u] \/ answer'[u] = NoAnswer
  BY <1>1, <1>2
<1>6. Past'
  <2>1. Dated(NoAnswer)
    BY <1>2 DEF Dated, NoAnswer, Via, NoCache
  <2>2. QED
    BY <1>1, <1>5, <2>1 DEF Inv, Past, Dated
<1>7. Tells(cache)'
  BY <1>1 DEF Inv, Tells, SaysOf
<1>8. \A u \in Tasks : Received(u)' => Received(u)
  BY <1>1 DEF Inv, TypeOK, Received
<1>9. ReplyTells'
  BY <1>1, <1>8 DEF Inv, ReplyTells, SaysOf
<1>10. AnswersTell'
  <2> SUFFICES ASSUME NEW u \in Tasks
               PROVE  Earned(answer'[u], listed) /\ Recent(answer'[u], listed)
    BY <1>1 DEF AnswersTell
  <2>1. CASE answer'[u] = answer[u]
    BY <2>1 DEF Inv, AnswersTell
  <2>2. CASE answer'[u] = NoAnswer
    <3>1. NoAnswer.grade = "no grade"
      BY DEF NoAnswer, NoGrade
    <3>2. answer'[u].grade = "no grade"
      BY <2>2, <3>1
    <3>3. QED
      BY <3>2 DEF Earned, Recent
  <2>3. QED
    BY <1>5, <2>1, <2>2
<1>11. QED
  BY <1>4, <1>6, <1>7, <1>9, <1>10 DEF Inv

\* The feed sends what is listed, or a blank.
LEMMA SentInv ==
    ASSUME Inv, NEW t \in Tasks, NEW blank \in BOOLEAN, FeedSends(t, blank)
    PROVE  Inv'
<1> DEFINE sent == [entries |-> IF blank THEN {} ELSE Feed, sent_at |-> now,
                    blank |-> blank]
<1>1. /\ now' = now /\ listed' = listed /\ cache' = cache /\ answer' = answer
      /\ scan' = scan /\ pc' = [pc EXCEPT ![t] = "receiving"]
      /\ reply' = [reply EXCEPT ![t] = sent]
  BY DEF FeedSends
<1>2. /\ now \in 0..MaxTime /\ MaxTime \in Nat /\ Never = MaxTime + 1
      /\ listed \in [Cves -> 0..Never]
  BY NoneTypes DEF Inv, TypeOK, Never
<1>3. sent \in Replies
  BY <1>2 DEF Replies, Feed
<1>4. TypeOK'
  <2>1. reply' \in [Tasks -> Replies]
    BY <1>1, <1>3 DEF Inv, TypeOK, Replies
  <2>2. pc' \in [Tasks -> {"idle", "scanning", "fetching", "refreshing",
                           "receiving"}]
    BY <1>1 DEF Inv, TypeOK
  <2>3. QED
    BY <1>1, <2>1, <2>2 DEF Inv, TypeOK, Replies
<1>5. Past' /\ Tells(cache)' /\ AnswersTell'
  BY <1>1 DEF Inv, Past, Dated, Tells, SaysOf, AnswersTell
<1>6. ReplyTells'
  <2> SUFFICES ASSUME NEW u \in Tasks, Received(u)'
               PROVE  /\ reply'[u].sent_at <= now
                      /\ SaysOf(reply'[u].entries, reply'[u].sent_at,
                                reply'[u].blank)
    BY <1>1 DEF ReplyTells, SaysOf
  <2>1. CASE u = t
    <3>1. reply'[u] = sent
      BY <1>1, <2>1 DEF Inv, TypeOK
    <3>2. \A c \in Feed : listed[c] <= now
      BY DEF Inv, Past, Feed
    <3>3. \A c \in Cves \ Feed : now <= listed[c]
      BY <1>2 DEF Feed
    <3>4. QED
      BY <1>2, <3>1, <3>2, <3>3 DEF SaysOf
  <2>2. CASE u # t
    <3>1. reply'[u] = reply[u] /\ Received(u)
      BY <1>1, <2>2 DEF Inv, TypeOK, Received
    <3>2. QED
      BY <3>1 DEF Inv, ReplyTells
  <2>3. QED
    BY <2>1, <2>2
<1>7. QED
  BY <1>4, <1>5, <1>6 DEF Inv

\* A step that leaves the cache leaves one that tells.
LEMMA CacheLeft ==
    ASSUME Inv, cache' = cache
    PROVE  /\ cache' \in Caches /\ Tells(cache')
           /\ now \in 0..MaxTime /\ cache.cached_at \in 0..MaxTime
  BY DEF Inv, TypeOK, Tells, SaysOf, Caches

\* A scan that finds nothing is graded without a catalog.
LEMMA NothingInv ==
    ASSUME Inv, NEW t \in Tasks, NEW result \in Scans, ScanFindsNothing(t, result)
    PROVE  Inv'
<1>1. /\ result.cves = {} /\ Answer(t, result, NoCache, ~attest(result))
      /\ now' = now /\ listed' = listed /\ cache' = cache
  BY DEF ScanFindsNothing
<1>2. (~attest(result)) \in BOOLEAN
  BY DEF attest
<1>3. QED
  BY <1>1, <1>2, CacheLeft, AnsweredInv

\* A cache that is fresh need not be marked.
LEMMA FreshInv ==
    ASSUME Inv, NEW t \in Tasks, NEW result \in Scans, ScanMeetsFreshCache(t, result)
    PROVE  Inv'
<1>1. /\ cache.exists /\ now - cache.cached_at <= Ttl
      /\ Answer(t, result, cache, FALSE)
      /\ now' = now /\ listed' = listed /\ cache' = cache
  BY DEF ScanMeetsFreshCache, Fresh
<1>2. now <= cache.cached_at + Ttl
  BY <1>1, CacheLeft, AttestationAssumption
<1>3. QED
  BY <1>1, <1>2, CacheLeft, AnsweredInv

\* The cache made of an answer of the feed says what the answer said, and it is fresh.
LEMMA FetchedInv ==
    ASSUME Inv, NEW t \in Tasks, FetchSucceeds(t)
    PROVE  Inv'
<1> DEFINE payload == [exists |-> TRUE, entries |-> reply[t].entries,
                       cached_at |-> now, sent_at |-> reply[t].sent_at,
                       blank |-> reply[t].blank]
<1>1. /\ Received(t) /\ cache' = payload /\ now' = now /\ listed' = listed
      /\ Answer(t, scan[t], payload, FALSE) \/ End(t)
  BY DEF FetchSucceeds
<1>2. reply[t] \in Replies /\ scan[t] \in Scans /\ now \in 0..MaxTime
  BY DEF Inv, TypeOK, Replies
<1>3. payload \in Caches
  BY <1>2 DEF Caches, Replies
<1>4. Tells(payload)
  BY <1>1, <1>2 DEF Inv, ReplyTells, Tells
<1>5. payload.exists /\ now <= payload.cached_at + Ttl
  BY <1>2, NoneTypes, AttestationAssumption
<1> HIDE DEF payload
<1>6. CASE Answer(t, scan[t], payload, FALSE)
  BY <1>1, <1>2, <1>3, <1>4, <1>5, <1>6, AnsweredInv
<1>7. CASE End(t)
  BY <1>1, <1>3, <1>4, <1>7, EndedInv
<1>8. QED
  BY <1>1, <1>6, <1>7

\* A fetch that fails leaves the cache; what is answered by it is degraded.  A task
\* that breaks answers nothing.
LEMMA FailedInv ==
    ASSUME Inv, NEW t \in Tasks, FetchFails(t) \/ Breaks(t)
    PROVE  Inv'
<1>1. /\ now' = now /\ listed' = listed /\ cache' = cache
      /\ \/ \E catalog \in {cache, NoCache} : Answer(t, scan[t], catalog, TRUE)
         \/ End(t)
  BY DEF FetchFails, Breaks, Reads
<1>2. scan[t] \in Scans
  BY DEF Inv, TypeOK
<1>3. ASSUME NEW catalog \in {cache, NoCache}, Answer(t, scan[t], catalog, TRUE)
      PROVE  Inv'
  BY <1>1, <1>2, <1>3, CacheLeft, AnsweredInv
<1>4. CASE End(t)
  BY <1>1, <1>4, CacheLeft, EndedInv
<1>5. QED
  BY <1>1, <1>3, <1>4

-----------------------------------------------------------------------------
(* The world *)

\* As time passes nothing that was said changes.
LEMMA TickInv == ASSUME Inv, Tick PROVE Inv'
<1>1. /\ now < MaxTime /\ now' = now + 1
      /\ UNCHANGED <<listed, cache, pc, scan, reply, answer>>
  BY DEF Tick
<1>2. now \in 0..MaxTime /\ MaxTime \in Nat /\ now' \in 0..MaxTime
  BY <1>1, NoneTypes DEF Inv, TypeOK
<1>3. TypeOK'
  BY <1>1, <1>2 DEF Inv, TypeOK
<1>4. Past'
  <2>1. /\ \A c \in Cves : listed[c] \in Int
        /\ \A t \in Tasks : answer[t].at \in Int /\ answer[t].via.cached_at \in Int
    BY NoneTypes DEF Inv, TypeOK, Vias, Never
  <2>2. QED
    BY <1>1, <1>2, <2>1 DEF Inv, Past, Dated
<1>5. Tells(cache)' /\ AnswersTell'
  <2>1. cache.cached_at \in Int
    BY DEF Inv, TypeOK, Caches
  <2>2. QED
    BY <1>1, <1>2, <2>1 DEF Inv, Tells, SaysOf, AnswersTell
<1>6. ReplyTells'
  <2>1. \A t \in Tasks : reply[t].sent_at \in Int
    BY DEF Inv, TypeOK
  <2>2. QED
    BY <1>1, <1>2, <2>1 DEF Inv, ReplyTells, SaysOf, Received
<1>7. QED
  BY <1>3, <1>4, <1>5, <1>6 DEF Inv

\* What CISA lists only now was listed by no catalog the feed had sent; where one did
\* not list it, it did not have to.
LEMMA SaysStays ==
    ASSUME Inv, NEW c \in Cves, List(c), NEW entries \in SUBSET Cves,
           NEW sent_at \in 0..MaxTime, NEW blank \in BOOLEAN,
           sent_at <= now, SaysOf(entries, sent_at, blank)
    PROVE  SaysOf(entries, sent_at, blank)'
<1>1. /\ now \in 0..MaxTime /\ MaxTime \in Nat /\ Never = MaxTime + 1
      /\ listed[c] = Never /\ listed'[c] = now
      /\ \A d \in Cves : d # c => listed'[d] = listed[d]
  BY NoneTypes DEF Inv, TypeOK, Never, List
<1>2. c \notin entries
  BY <1>1 DEF SaysOf
<1>3. QED
  BY <1>1, <1>2 DEF SaysOf

\* A CVE that is listed only now is nothing that the cache, an answer under way or an
\* earlier answer should have had.
LEMMA ListInv == ASSUME Inv, NEW c \in Cves, List(c) PROVE Inv'
<1>1. /\ listed[c] = Never /\ listed' = [listed EXCEPT ![c] = now]
      /\ UNCHANGED <<now, cache, pc, scan, reply, answer>>
  BY DEF List
<1>2. /\ now \in 0..MaxTime /\ MaxTime \in Nat /\ Never = MaxTime + 1
      /\ listed \in [Cves -> 0..Never] /\ now \in 0..Never
  BY NoneTypes DEF Inv, TypeOK, Never
<1>3. /\ listed' \in [Cves -> 0..Never] /\ listed'[c] = now
      /\ \A d \in Cves : d # c => listed'[d] = listed[d]
  BY <1>1, <1>2
<1>4. TypeOK'
  BY <1>1, <1>3 DEF Inv, TypeOK
<1>5. Past'
  BY <1>1, <1>2, <1>3 DEF Inv, Past, Dated
<1>6. Tells(cache)'
  <2>1. /\ cache.cached_at \in 0..MaxTime /\ cache.sent_at \in 0..MaxTime
        /\ cache.entries \in SUBSET Cves /\ cache.blank \in BOOLEAN
    BY DEF Inv, TypeOK, Caches
  <2>2. cache.sent_at <= cache.cached_at /\ cache.cached_at <= now
    BY DEF Inv, Tells
  <2>3. cache.sent_at <= now
    BY <1>2, <2>1, <2>2
  <2>4. cache.exists => SaysOf(cache.entries, cache.sent_at, cache.blank)'
    BY <2>1, <2>3, <1>1, SaysStays DEF Inv, Tells, SaysOf
  <2>5. QED
    BY <1>1, <2>2, <2>4 DEF Inv, Tells
<1>7. ReplyTells'
  <2> SUFFICES ASSUME NEW t \in Tasks, Received(t)
               PROVE  SaysOf(reply[t].entries, reply[t].sent_at, reply[t].blank)'
    BY <1>1 DEF Inv, ReplyTells, Received
  <2>1. /\ reply[t].sent_at \in 0..MaxTime /\ reply[t].entries \in SUBSET Cves
        /\ reply[t].blank \in BOOLEAN /\ reply[t].sent_at <= now
        /\ SaysOf(reply[t].entries, reply[t].sent_at, reply[t].blank)
    BY DEF Inv, TypeOK, ReplyTells
  <2>2. QED
    BY <1>1, <2>1, SaysStays DEF SaysOf
<1>8. AnswersTell'
  <2>1. ASSUME NEW t \in Tasks
        PROVE  Earned(answer[t], listed') /\ Recent(answer[t], listed')
    <3>1. /\ answer[t] \in Answers /\ Dated(answer[t])
          /\ Earned(answer[t], listed) /\ Recent(answer[t], listed)
      BY DEF Inv, TypeOK, Past, AnswersTell, Answers
    <3>2. \A d \in Cves : \/ listed'[d] = listed[d]
                          \/ listed[d] = Never /\ listed'[d] = now
      BY <1>1, <1>3
    <3>3. QED
      BY <1>2, <1>3, <3>1, <3>2, AnswerStays DEF Dated
  <2>2. QED
    BY <1>1, <2>1 DEF AnswersTell
<1>9. QED
  BY <1>4, <1>5, <1>6, <1>7, <1>8 DEF Inv

-----------------------------------------------------------------------------
(* The theorems *)

\* Before the first call nothing has been answered.
LEMMA InitInv == Init => Inv
<1> SUFFICES ASSUME Init PROVE Inv
  OBVIOUS
<1>1. TypeOK
  BY NoneTypes DEF Init, TypeOK, Answers, Replies
<1>2. Past /\ Tells(cache) /\ ReplyTells
  BY NoneTypes DEF Init, Past, Dated, Tells, ReplyTells, Received, NoCache, NoAnswer,
                   Via, Never
<1>3. AnswersTell
  BY DEF Init, AnswersTell, Earned, Recent, NoAnswer, NoGrade
<1>4. QED
  BY <1>1, <1>2, <1>3 DEF Inv

\* Every step of every task, and of the world, keeps the invariant.
LEMMA NextInv == Inv /\ [Next]_vars => Inv'
<1> SUFFICES ASSUME Inv, [Next]_vars PROVE Inv'
  OBVIOUS
<1>1. ASSUME NEW t \in Tasks, TaskNext(t) PROVE Inv'
  <2>1. CASE Start(t) \/ Refresh(t) \/ \E result \in Scans : ScanNeedsFetch(t, result)
    BY <2>1, BegunInv
  <2>2. CASE \E blank \in BOOLEAN : FeedSends(t, blank)
    BY <2>2, SentInv
  <2>3. CASE \E result \in Scans : ScanFindsNothing(t, result)
    BY <2>3, NothingInv
  <2>4. CASE \E result \in Scans : ScanMeetsFreshCache(t, result)
    BY <2>4, FreshInv
  <2>5. CASE FetchSucceeds(t)
    BY <2>5, FetchedInv
  <2>6. CASE FetchFails(t) \/ Breaks(t)
    BY <2>6, FailedInv
  <2>7. QED
    BY <1>1, <2>1, <2>2, <2>3, <2>4, <2>5, <2>6 DEF TaskNext
<1>2. CASE Tick
  BY <1>2, TickInv
<1>3. ASSUME NEW c \in Cves, List(c) PROVE Inv'
  BY <1>3, ListInv
<1>4. CASE UNCHANGED vars
  BY <1>4 DEF vars, Inv, TypeOK, Past, Dated, Tells, SaysOf, ReplyTells, Received,
                AnswersTell
<1>5. QED
  BY <1>1, <1>2, <1>3, <1>4 DEF Next

\* What the theorems rest on.
LEMMA InvHolds == Spec => []Inv
  BY InitInv, NextInv, PTL DEF Spec

\* The clock, the cache, the answers under way and the answers given keep their types.
THEOREM AttestationTypeCorrect == Spec => []TypeOK
<1>1. Inv => TypeOK
  BY DEF Inv
<1>2. QED
  BY <1>1, InvHolds, PTL

\* A HIGH is earned by a CVE that is listed, a LOW by JSON without a CVE, and a MED by
\* a catalog that lists none of the CVEs, unless lookup could not read it or the feed
\* had sent a blank: however the fetches of other calls interleave.
THEOREM GradesEarned == Spec => []GradesAreEarned
<1>1. Inv => GradesAreEarned
  BY DEF Inv, AnswersTell, Earned, GradesAreEarned
<1>2. QED
  BY <1>1, InvHolds, PTL

\* What an attestation misses without saying that it is degraded was listed only
\* within the time to live of the cache and the time its fetch took, unless lookup
\* could not read it; and a blank hides more only within the time to live.
THEOREM SilentMissesAreRecent == Spec => []SilentMissIsRecent
<1>1. Inv => SilentMissIsRecent
  BY DEF Inv, AnswersTell, Recent, SilentMissIsRecent
<1>2. QED
  BY <1>1, InvHolds, PTL
=============================================================================
