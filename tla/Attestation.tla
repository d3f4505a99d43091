----------------------------- MODULE Attestation -----------------------------
(***************************************************************************)
(* The closure attestation: the scan by vulnix (vulnix.py), the cached KEV *)
(* catalog (kev.py) and the grade that attest_closure makes of the two.    *)
(*                                                                         *)
(* Tasks are the tool calls the event loop interleaves.  They share the    *)
(* cache file and yield to each other only where they await: the scan and  *)
(* the answer of the feed.  Each action runs from one await to the next.   *)
(* What attest_closure then does with a review is in Reviews.              *)
(***************************************************************************)
EXTENDS Grades

CONSTANTS
    Cves,
    Tasks,
    Ttl,            \* kev_ttl_hours
    MaxTime         \* bound on the clock

ASSUME AttestationAssumption ==
    Ttl \in Nat /\ MaxTime \in Nat

VARIABLES
    now,            \* the clock
    listed,         \* when CISA listed each CVE as exploited, or Never
    cache,          \* kev_cache.json; one that does not parse counts as missing
    pc,             \* where each task is
    scan,           \* what each attestation's scan came to
    reply,          \* the catalog each fetch is being sent, and since when
    answer          \* what each task answered last

vars == <<now, listed, cache, pc, scan, reply, answer>>

Never == MaxTime + 1
Feed == {c \in Cves : listed[c] # Never}

\* sent_at and blank, here and below, are history: when the feed had sent this, and
\* whether it was JSON without its list.
NoCache == [exists |-> FALSE, entries |-> {}, cached_at |-> 0, sent_at |-> 0,
            blank |-> FALSE]
Caches == [exists : BOOLEAN, entries : SUBSET Cves, cached_at : 0..MaxTime,
           sent_at : 0..MaxTime, blank : BOOLEAN]

\* What comes of a scan: it was not run (no vulnix, no such path, a file that
\* cannot be read), it printed nothing, or nothing that parses, or it printed a
\* report, or JSON that is no report.  The exit code makes no difference to what
\* the code does with these.
Scans == [output : {"not run", "nothing", "garbled", "other JSON"}, cves : {{}}]
            \cup [output : {"report"}, cves : SUBSET Cves]
NoScan == [output |-> "not run", cves |-> {}]

NoReply == [entries |-> {}, sent_at |-> 0, blank |-> FALSE]

\* History: what an answer goes by.  ensure_fresh gave it no catalog ("nothing"), or
\* one that lookup then could not read, that was blank, or that it did read.
Vias == [kind : {"nothing", "unread", "blank", "read"}, cached_at : 0..MaxTime,
         sent_at : 0..MaxTime]
Via(catalog, seen) ==
    [kind |-> IF ~catalog.exists THEN "nothing"
              ELSE IF ~seen.exists THEN "unread"
              ELSE IF catalog.blank THEN "blank" ELSE "read",
     cached_at |-> catalog.cached_at, sent_at |-> catalog.sent_at]

NoAnswer == [grade |-> NoGrade, degraded |-> FALSE, via |-> Via(NoCache, NoCache),
             scan |-> NoScan, at |-> 0]

Init ==
    /\ now = 0
    /\ listed \in [Cves -> {0, Never}]
    /\ cache = NoCache
    /\ pc = [t \in Tasks |-> "idle"]
    /\ scan = [t \in Tasks |-> NoScan]
    /\ reply = [t \in Tasks |-> NoReply]
    /\ answer = [t \in Tasks |-> NoAnswer]

-----------------------------------------------------------------------------
(* The grade *)

\* Mutant: a scan that printed nothing is read as an empty report.
attest_lenient(result) == result.output \in {"report", "other JSON", "nothing"}

\* vulnix.attest: any JSON makes the scan available; _parse_vulnix_json finds no
\* CVE in what is no report.
attest(result) == result.output \in {"report", "other JSON"}

\* Mutant: the grade does not look at kev_checked.
closure_grade_unchecked(result, kev_matches, kev_checked) ==
    CASE ~attest(result) -> "UNKNOWN"
      [] attest(result) /\ kev_matches # {} -> "HIGH"
      [] attest(result) /\ kev_matches = {} /\ result.cves # {} -> "MED"
      [] attest(result) /\ result.cves = {} -> "LOW"

closure_grade(result, kev_matches, kev_checked) ==
    CASE ~attest(result) -> "UNKNOWN"
      [] attest(result) /\ kev_matches # {} -> "HIGH"
      [] attest(result) /\ kev_matches = {} /\ result.cves # {} ->
            IF kev_checked THEN "MED" ELSE "UNKNOWN"
      [] attest(result) /\ result.cves = {} -> "LOW"

lookup(cve_ids, catalog) == cve_ids \cap catalog.entries

\* Any read of a cache may fail, and then there is none.
Reads(kev_cache) == {kev_cache, NoCache}

\* The task answers, having been given the catalog by ensure_fresh.  lookup reads the
\* file once more; if that fails, it finds nothing and nobody is told.
Answer(t, result, catalog, degraded) ==
    /\ pc' = [pc EXCEPT ![t] = "idle"]
    /\ \E seen \in Reads(cache') :
           answer' = [answer EXCEPT ![t] =
               [grade |-> closure_grade(result, lookup(result.cves, seen),
                                        catalog.exists),
                degraded |-> degraded, via |-> Via(catalog, seen),
                scan |-> result, at |-> now]]
    /\ scan' = [scan EXCEPT ![t] = NoScan]
    /\ reply' = [reply EXCEPT ![t] = NoReply]

\* The task ends with an error envelope, or has nothing to grade.
End(t) ==
    /\ pc' = [pc EXCEPT ![t] = "idle"]
    /\ scan' = [scan EXCEPT ![t] = NoScan]
    /\ reply' = [reply EXCEPT ![t] = NoReply]
    /\ UNCHANGED answer

-----------------------------------------------------------------------------
(* attest_closure, up to its first await and from there to the next *)

Start(t) ==
    /\ pc[t] = "idle"
    /\ pc' = [pc EXCEPT ![t] = "scanning"]
    /\ answer' = [answer EXCEPT ![t] = NoAnswer]
    /\ UNCHANGED <<now, listed, cache, scan, reply>>

Fresh(catalog) == catalog.exists /\ now - catalog.cached_at <= Ttl

\* No CVEs to look up: the catalog is not consulted.
ScanFindsNothing(t, result) ==
    /\ pc[t] = "scanning"
    /\ result.cves = {}
    /\ UNCHANGED <<now, listed, cache>>
    /\ Answer(t, result, NoCache, ~attest(result))

\* ensure_fresh returns the cache.
ScanMeetsFreshCache(t, result) ==
    /\ pc[t] = "scanning"
    /\ result.cves # {}
    /\ Fresh(cache)
    /\ UNCHANGED <<now, listed, cache>>
    /\ Answer(t, result, cache, FALSE)

\* ensure_fresh awaits fetch_and_cache: the cache is missing, too old, or it cannot
\* be read, so that a fresh one is no obstacle.
ScanNeedsFetch(t, result) ==
    /\ pc[t] = "scanning"
    /\ result.cves # {}
    /\ \E seen \in Reads(cache) : ~Fresh(seen)
    /\ pc' = [pc EXCEPT ![t] = "fetching"]
    /\ scan' = [scan EXCEPT ![t] = result]
    /\ UNCHANGED <<now, listed, cache, reply, answer>>

\* refresh_kev_cache, up to its await.
Refresh(t) ==
    /\ pc[t] = "idle"
    /\ pc' = [pc EXCEPT ![t] = "refreshing"]
    /\ answer' = [answer EXCEPT ![t] = NoAnswer]
    /\ UNCHANGED <<now, listed, cache, scan, reply>>

Received(t) == pc[t] = "receiving"
Attesting(t) == scan[t] # NoScan

\* The feed sends its catalog as it is now, or JSON without its list, which makes
\* an empty catalog; it may arrive later than another.
FeedSends(t, blank) ==
    /\ pc[t] \in {"fetching", "refreshing"}
    /\ pc' = [pc EXCEPT ![t] = "receiving"]
    /\ reply' = [reply EXCEPT ![t] = [entries |-> IF blank THEN {} ELSE Feed,
                                      sent_at |-> now, blank |-> blank]]
    /\ UNCHANGED <<now, listed, cache, scan, answer>>

\* Mutant: the cache keeps when it expires, not when it was fetched.
FetchStampsExpiry(t) ==
    LET payload == [exists |-> TRUE, entries |-> reply[t].entries,
                    cached_at |-> now + Ttl, sent_at |-> reply[t].sent_at,
                    blank |-> reply[t].blank] IN
    /\ Received(t)
    /\ cache' = payload
    /\ IF Attesting(t) THEN Answer(t, scan[t], payload, FALSE) ELSE End(t)
    /\ UNCHANGED <<now, listed>>

\* fetch_and_cache overwrites the cache; attest_closure looks up in it at once.
FetchSucceeds(t) ==
    LET payload == [exists |-> TRUE, entries |-> reply[t].entries,
                    cached_at |-> now, sent_at |-> reply[t].sent_at,
                    blank |-> reply[t].blank] IN
    /\ Received(t)
    /\ cache' = payload
    /\ IF Attesting(t) THEN Answer(t, scan[t], payload, FALSE) ELSE End(t)
    /\ UNCHANGED <<now, listed>>

\* Mutant: the stale cache is returned without its marker.
FetchFailsUnmarked(t) ==
    /\ pc[t] \in {"fetching", "refreshing", "receiving"}
    /\ UNCHANGED <<now, listed, cache>>
    /\ IF Attesting(t)
       THEN \E catalog \in Reads(cache) :
                Answer(t, scan[t], catalog, ~catalog.exists)
       ELSE End(t)

\* KevError, after a timeout or at any other moment: an attestation falls back to the
\* cache, marked stale, or has none.
FetchFails(t) ==
    /\ pc[t] \in {"fetching", "refreshing", "receiving"}
    /\ UNCHANGED <<now, listed, cache>>
    /\ IF Attesting(t)
       THEN \E catalog \in Reads(cache) : Answer(t, scan[t], catalog, TRUE)
       ELSE End(t)

\* Any other exception, such as an answer of another shape or a cache file that
\* cannot be written, goes past the fallback: INTERNAL.
Breaks(t) ==
    /\ pc[t] \in {"scanning", "fetching", "refreshing", "receiving"}
    /\ End(t)
    /\ UNCHANGED <<now, listed, cache>>

-----------------------------------------------------------------------------
(* The world *)

\* Nothing bounds how long a fetch takes: the client's timeout is one on each wait
\* for the network, not on all of them.
Tick ==
    /\ now < MaxTime
    /\ now' = now + 1
    /\ UNCHANGED <<listed, cache, pc, scan, reply, answer>>

\* CISA lists a CVE; it never takes one off.
List(c) ==
    /\ listed[c] = Never
    /\ listed' = [listed EXCEPT ![c] = now]
    /\ UNCHANGED <<now, cache, pc, scan, reply, answer>>

TaskNext(t) ==
    \/ Start(t) \/ Refresh(t) \/ \E blank \in BOOLEAN : FeedSends(t, blank)
    \/ \E result \in Scans :
           \/ ScanFindsNothing(t, result) \/ ScanMeetsFreshCache(t, result)
           \/ ScanNeedsFetch(t, result)
    \/ FetchSucceeds(t) \/ FetchFails(t) \/ Breaks(t)

Next ==
    \/ \E t \in Tasks : TaskNext(t)
    \/ Tick
    \/ \E c \in Cves : List(c)

Spec == Init /\ [][Next]_vars

-----------------------------------------------------------------------------
(* Properties *)

\* Every variable stays in its type.
TypeOK ==
    /\ now \in 0..MaxTime
    /\ listed \in [Cves -> 0..Never]
    /\ cache \in Caches
    /\ pc \in [Tasks -> {"idle", "scanning", "fetching", "refreshing",
                         "receiving"}]
    /\ scan \in [Tasks -> Scans]
    /\ reply \in [Tasks -> [entries : SUBSET Cves, sent_at : 0..MaxTime,
                            blank : BOOLEAN]]
    /\ answer \in [Tasks -> [grade : Grades \cup {NoGrade}, degraded : BOOLEAN,
                             via : Vias, scan : Scans, at : 0..MaxTime]]

\* A grade is earned: HIGH by a scanned CVE that really is listed; MED by a catalog
\* that ensure_fresh got hold of and that lists none of the scanned CVEs, so that none
\* had been listed when the feed sent it, unless lookup could not read it or the feed
\* had sent a blank; LOW by JSON without a CVE, never by a scan that failed
\* (server.py:333-342, vulnix.py:134-140).
GradesAreEarned ==
    \A t \in Tasks : LET a == answer[t] IN
        /\ a.grade = "HIGH" => \E c \in a.scan.cves : listed[c] <= a.at
        /\ a.grade = "MED" =>
               /\ a.scan.cves # {} /\ a.via.kind # "nothing"
               /\ a.via.kind = "read" =>
                      \A c \in a.scan.cves : a.via.sent_at <= listed[c]
        /\ a.grade = "LOW" =>
               a.scan.output \in {"report", "other JSON"} /\ a.scan.cves = {}

\* An attestation that does not say it is degraded misses no CVE that had been
\* listed for longer than a cache may be fresh and the fetch of that cache took,
\* however the fetches of other calls failed or overtook each other.  A blank from
\* the feed makes it miss more, but for no longer than a cache may be fresh; what
\* lookup cannot read makes it miss anything.
SilentMissIsRecent ==
    \A t \in Tasks : LET a == answer[t] IN
        a.grade \in {"LOW", "MED"} /\ ~a.degraded =>
            \/ a.via.kind = "unread"
            \/ a.via.kind = "blank" /\ a.at <= a.via.cached_at + Ttl
            \/ \A c \in a.scan.cves :
                   a.at <= listed[c] + Ttl + (a.via.cached_at - a.via.sent_at)
=============================================================================
