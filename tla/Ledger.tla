-------------------------------- MODULE Ledger --------------------------------
(***************************************************************************)
(* The audit ledger of store.py: audit.jsonl, its head sidecar, and the    *)
(* processes that use them.                                                *)
(*                                                                         *)
(*   Writers    run append_audit, serialised by an advisory lock on the    *)
(*              ledger file;                                               *)
(*   Adopters   run adopt_unsigned_ledger (the operator's adopt command),  *)
(*              which checks and walks without the lock and takes it only  *)
(*              to save the sidecar;                                       *)
(*   Verifiers  run verify_chain, which never takes the lock.              *)
(*                                                                         *)
(* An append makes two separate changes to the disk, the ledger line and   *)
(* then the sidecar, and anything may stop it in between: an exception, a  *)
(* killed process, a restart with another signing key, a power loss (the   *)
(* line is synced to the disk, the sidecar is not).                        *)
(***************************************************************************)
EXTENDS HashChain

CONSTANTS
    Writers, Adopters, Verifiers,
    Nobody,         \* holder of a free lock
    KeySettings,    \* the keys, or NoKey, the operator deploys with
    DiskFaults,     \* which of WriteFaults the disk may show
    MaxLines,       \* bound: no append is requested on a ledger this long
    MaxFaults,      \* bound on failed appends
    MaxRestarts     \* bound on restarts

\* "short": a write that stops before the newline, as on a full disk or a power
\* loss.  "retried": a flush that fails and succeeds when close repeats it.
\* "unread": a sidecar that is there but cannot be read.  "power": a power loss
\* that undoes what was not synced.
WriteFaults == {"short", "retried", "unread", "power"}

ASSUME LedgerAssumption ==
    /\ Nobody \notin Writers
    /\ Writers \cap (Adopters \cup Verifiers) = {}
    /\ Adopters \cap Verifiers = {}
    /\ KeySettings \subseteq Keys \cup {NoKey}
    /\ DiskFaults \subseteq WriteFaults
    /\ MaxLines \in Nat /\ MaxFaults \in Nat /\ MaxRestarts \in Nat

VARIABLES
    ledger,     \* the lines of audit.jsonl
    openTail,   \* the last line has no newline
    head,       \* audit.head.json
    durable,    \* the sidecar a power loss cannot take away any more
    key,        \* the signing key the processes run with
    lock,       \* holder of the flock on audit.jsonl
    pc,         \* where each process is
    seen,       \* the head each process is working from
    verdict,    \* what each verification said
    acked,      \* history: the hashes of the appends that returned
    damaged,    \* history: ledger and sidecar were left disagreeing
    foul,       \* history: damaged when each verification began
    calm,       \* history: no append has overlapped each verification, and its
                \* walk could read the sidecar
    faults,     \* number of failed appends
    restarts    \* number of restarts

sidecar == <<head, durable>>
disk == <<ledger, openTail, head, durable>>
history == <<acked, damaged, faults>>
verification == <<verdict, foul, calm>>
vars == <<ledger, openTail, head, durable, key, lock, pc, seen, verdict, acked,
          damaged, foul, calm, faults, restarts>>

Procs == Writers \cup Adopters \cup Verifiers
NoHead == [head_hash |-> Genesis, entries |-> 0]

Init ==
    \* A new deployment, or one whose ledger predates hash chaining.
    /\ ledger \in {<<>>, <<Unchained>>}
    /\ openTail = FALSE
    /\ head = MissingHead
    /\ durable = MissingHead
    /\ key \in KeySettings
    /\ lock = Nobody
    /\ pc = [p \in Procs |-> "idle"]
    /\ seen = [p \in Procs |-> NoHead]
    /\ verdict = [v \in Verifiers |-> "none"]
    /\ acked = {}
    /\ damaged = (ledger # <<>>)
    /\ foul = [v \in Verifiers |-> FALSE]
    /\ calm = [v \in Verifiers |-> FALSE]
    /\ faults = 0
    /\ restarts = 0

Step(p, from, to) == pc[p] = from /\ pc' = [pc EXCEPT ![p] = to]
Sees(p, h) == seen' = [seen EXCEPT ![p] = h]

\* Mutant: the lock is shared, so it excludes nobody.
SharedLock == TRUE

\* flock(LOCK_EX) is granted.
LockFree == lock = Nobody

\* Mutant: no finally, the lock stays taken.
KeepLock == UNCHANGED lock

Unlock == lock' = Nobody

\* _load_trusted_head: a sidecar that is there and cannot be read counts as one
\* that names no head and carries no MAC.
HeadUnread == "unread" \in DiskFaults /\ head.exists

\* A new sidecar takes the place of the old one: whether the old one is on the
\* disk by then is up to the kernel, nothing syncs the new one.
Replace(new) ==
    /\ head' = new
    /\ durable' \in {durable} \cup (IF "power" \in DiskFaults THEN {head} ELSE {})

-----------------------------------------------------------------------------
(* append_audit *)

Request(w) ==
    /\ Step(w, "idle", "waiting")
    /\ Len(ledger) < MaxLines
    /\ UNCHANGED <<disk, key, lock, seen, verification, history, restarts>>

\* The lock is granted, the sidecar is loaded and the append is allowed.
Acquire(w) ==
    /\ Step(w, "waiting", "write")
    /\ LockFree
    /\ Appendable(ledger, head, key)
    /\ lock' = w
    /\ Sees(w, [head_hash |-> LastHash(ledger), entries |-> head.entries])
    /\ UNCHANGED <<disk, key, verification, history, restarts>>

\* The sidecar cannot be read: without a key the append starts counting from zero
\* again, ...
AcquireUnread(w) ==
    /\ HeadUnread
    /\ Step(w, "waiting", "write")
    /\ LockFree
    /\ key = NoKey
    /\ faults < MaxFaults
    /\ faults' = faults + 1
    /\ lock' = w
    /\ Sees(w, [head_hash |-> LastHash(ledger), entries |-> 0])
    /\ UNCHANGED <<disk, key, verification, acked, damaged, restarts>>

\* The lock is granted, but LedgerIntegrityError is raised; finally unlocks.
Refuse(w) ==
    /\ Step(w, "waiting", "idle")
    /\ LockFree
    /\ ~Appendable(ledger, head, key)
    /\ UNCHANGED <<disk, key, lock, seen, verification, history, restarts>>

Written(line) == WrittenTo(ledger, openTail, line)

\* Mutant: the sidecar's count goes down.
NextHeadDown(w, e) ==
    [head_hash |-> RecordHash(e, seen[w].head_hash),
     entries |-> seen[w].entries - 1]

NextHead(w, e) ==
    [head_hash |-> RecordHash(e, seen[w].head_hash),
     entries |-> seen[w].entries + 1]

\* The line is written, flushed and synced.
WriteLine(w, e) ==
    /\ Step(w, "write", "written")
    /\ ledger' = Written(Record(e, seen[w].head_hash))
    /\ openTail' = FALSE
    /\ Sees(w, NextHead(w, e))
    /\ calm' = [v \in Verifiers |-> FALSE]
    /\ UNCHANGED <<sidecar, key, lock, verdict, foul, history, restarts>>

SaveHead(w) ==
    /\ Step(w, "written", "idle")
    /\ Replace(Sidecar(key, seen[w].head_hash, seen[w].entries))
    /\ Unlock
    /\ acked' = acked \cup {seen[w].head_hash}
    /\ damaged' = (damaged \/ seen[w].entries # head.entries + 1)
    /\ Sees(w, NoHead)
    /\ UNCHANGED <<ledger, openTail, key, verification, faults, restarts>>

-----------------------------------------------------------------------------
(* An append that fails: the caller gets an exception, finally unlocks.    *)

Fail(w, from, to) ==
    /\ Step(w, from, to)
    /\ faults < MaxFaults
    /\ faults' = faults + 1
    /\ Unlock
    /\ UNCHANGED <<sidecar, key, verification, acked, restarts>>

\* ... with one it is refused, as a sidecar without a MAC.
RefuseUnread(w) ==
    /\ HeadUnread
    /\ LockFree
    /\ key # NoKey
    /\ Fail(w, "waiting", "idle")
    /\ UNCHANGED <<ledger, openTail, seen, damaged>>

\* Nothing has reached the disk.
FailBeforeWrite(w) ==
    /\ Fail(w, "write", "idle")
    /\ Sees(w, NoHead)
    /\ UNCHANGED <<ledger, openTail, damaged>>

\* A part of the line, or all of it but the newline, has reached the disk.
ShortWrite(w, e) ==
    /\ "short" \in DiskFaults
    /\ Fail(w, "write", "idle")
    /\ \E line \in {Unchained, Record(e, seen[w].head_hash)} :
           ledger' = Written(line)
    /\ openTail' = TRUE
    /\ damaged' = TRUE
    /\ Sees(w, NoHead)

\* The line is on the disk, the sidecar is not: fsync or the rename failed.
FailAfterWrite(w) ==
    /\ Fail(w, "written", "idle")
    /\ damaged' = TRUE
    /\ Sees(w, NoHead)
    /\ UNCHANGED <<ledger, openTail>>

\* flush fails and the line stays in the file object's buffer ...
FlushFails(w) ==
    /\ "retried" \in DiskFaults
    /\ Fail(w, "write", "closing")
    /\ UNCHANGED <<ledger, openTail, seen, damaged>>

\* ... which close, after the lock is gone, flushes again, ...
CloseFlushes(w, e) ==
    /\ Step(w, "closing", "idle")
    /\ ledger' = Written(Record(e, seen[w].head_hash))
    /\ openTail' = FALSE
    /\ damaged' = TRUE
    /\ Sees(w, NoHead)
    /\ UNCHANGED <<sidecar, key, lock, verification, acked, faults, restarts>>

\* ... or drops when that fails too.
CloseFails(w) ==
    /\ Step(w, "closing", "idle")
    /\ Sees(w, NoHead)
    /\ UNCHANGED <<disk, key, lock, verification, history, restarts>>

-----------------------------------------------------------------------------
(* adopt_unsigned_ledger.  Its refusals and its "already signed" answer    *)
(* leave everything as it was.                                             *)

\* The sidecar carries no MAC, or none that can be read.
AdoptCheck(a) ==
    /\ Step(a, "idle", "load")
    /\ key # NoKey
    /\ head.mac = NoMac \/ HeadUnread
    /\ UNCHANGED <<disk, key, lock, seen, verification, history, restarts>>

\* _walk_chain loads the sidecar before it reads the ledger.
WalkLoadsHead(p) ==
    /\ Step(p, "load", "walk")
    /\ Sees(p, [head_hash |-> head.head_hash, entries |-> head.entries])
    /\ UNCHANGED <<disk, key, lock, verification, history, restarts>>

\* It cannot read the sidecar, and will expect an empty ledger.
WalkLoadsNothing(p) ==
    /\ Step(p, "load", "walk")
    /\ HeadUnread
    /\ Sees(p, NoHead)
    /\ calm' = [v \in Verifiers |-> calm[v] /\ v # p]
    /\ UNCHANGED <<disk, key, lock, verdict, foul, history, restarts>>

\* The walk passes, and matches the operator's expected_head or --force skips
\* that; what will be signed is what was walked.
AdoptWalk(a) ==
    /\ Step(a, "walk", "sign")
    /\ WalkChain(ledger, seen[a]).ok
    /\ UNCHANGED <<disk, key, lock, seen, verification, history, restarts>>

\* The walk fails, or the expected head is another one or was not given.
AdoptRefuses(a) ==
    /\ Step(a, "walk", "idle")
    /\ Sees(a, NoHead)
    /\ UNCHANGED <<disk, key, lock, verification, history, restarts>>

AdoptSave(a) ==
    /\ Step(a, "sign", "idle")
    /\ LockFree
    /\ Replace(Sidecar(key, seen[a].head_hash, seen[a].entries))
    /\ damaged' = (damaged \/ seen[a].entries # Len(ledger))
    /\ Sees(a, NoHead)
    /\ UNCHANGED <<ledger, openTail, key, lock, verification, acked, faults,
                   restarts>>

-----------------------------------------------------------------------------
(* verify_chain, without an expected head and without reviews.json         *)

VerifyStart(v) ==
    /\ Step(v, "idle", "load")
    /\ verdict' = [verdict EXCEPT ![v] = "none"]
    /\ foul' = [foul EXCEPT ![v] = damaged]
    /\ calm' = [calm EXCEPT ![v] = \A w \in Writers : pc[w] # "written"]
    /\ UNCHANGED <<disk, key, lock, seen, history, restarts>>

Conclude(v, ok) ==
    /\ verdict' = [verdict EXCEPT ![v] = IF ok THEN "ok" ELSE "bad"]
    /\ Sees(v, NoHead)
    /\ UNCHANGED <<disk, key, lock, foul, calm, history, restarts>>

VerifyWalkPasses(v) ==
    /\ Step(v, "walk", "anchor")
    /\ WalkChain(ledger, seen[v]).ok
    /\ UNCHANGED <<disk, key, lock, seen, verification, history, restarts>>

VerifyWalkFails(v) ==
    /\ Step(v, "walk", "idle")
    /\ ~WalkChain(ledger, seen[v]).ok
    /\ Conclude(v, FALSE)

\* _check_anchor loads the sidecar again, or cannot read it.
VerifyAnchor(v) ==
    /\ Step(v, "anchor", "idle")
    /\ \E h \in {head} \cup (IF HeadUnread THEN {UnreadableHead} ELSE {}) :
           Conclude(v, CheckAnchor(seen[v], h, key, {}) # "broken")

-----------------------------------------------------------------------------
(* The container restarts, with the same or another ledger_key or none;    *)
(* whatever was running is gone, locks included.                           *)

Reboot(k) ==
    /\ restarts < MaxRestarts
    /\ restarts' = restarts + 1
    /\ key' = k
    /\ lock' = Nobody
    /\ pc' = [p \in Procs |-> "idle"]
    /\ seen' = [p \in Procs |-> NoHead]
    /\ verdict' = [v \in Verifiers |-> "none"]
    /\ damaged' = (\/ damaged \/ head'.entries # head.entries
                   \/ \E w \in Writers : pc[w] = "written")
    /\ UNCHANGED <<ledger, openTail, acked, foul, calm, faults>>

Restart(k) == UNCHANGED sidecar /\ Reboot(k)

\* The power fails: the sidecar is the last one saved, one that was synced, or,
\* renamed before its data were written, a file that does not parse.
PowerLoss(k) ==
    /\ "power" \in DiskFaults
    /\ durable # head
    /\ head' \in {head, durable, UnreadableHead}
    /\ durable' = head'
    /\ Reboot(k)

-----------------------------------------------------------------------------

AppendStep(w) ==
    \/ \E e \in Events : WriteLine(w, e) \/ CloseFlushes(w, e)
    \/ SaveHead(w) \/ CloseFails(w)

AppendFails(w) ==
    \/ RefuseUnread(w) \/ FailBeforeWrite(w) \/ FailAfterWrite(w)
    \/ FlushFails(w)
    \/ \E e \in Events : ShortWrite(w, e)

WriterNext(w) ==
    \/ Request(w) \/ Acquire(w) \/ Refuse(w) \/ AcquireUnread(w)
    \/ AppendStep(w) \/ AppendFails(w)

AdopterNext(a) ==
    \/ AdoptCheck(a) \/ WalkLoadsHead(a) \/ WalkLoadsNothing(a) \/ AdoptWalk(a)
    \/ AdoptRefuses(a) \/ AdoptSave(a)

VerifierNext(v) ==
    \/ VerifyStart(v) \/ WalkLoadsHead(v) \/ WalkLoadsNothing(v)
    \/ VerifyWalkPasses(v) \/ VerifyWalkFails(v) \/ VerifyAnchor(v)

Next ==
    \/ \E w \in Writers : WriterNext(w)
    \/ \E a \in Adopters : AdopterNext(a)
    \/ \E v \in Verifiers : VerifierNext(v)
    \/ \E k \in KeySettings : Restart(k) \/ PowerLoss(k)

Spec == Init /\ [][Next]_vars

\* A writer that holds the lock keeps running, and one that waits for it is
\* served in the end: the kernel wakes the waiters of a flock as it is freed.
FairSpec ==
    /\ Spec
    /\ \A w \in Writers :
           /\ WF_vars(AppendStep(w))
           /\ SF_vars(Acquire(w) \/ Refuse(w) \/ AcquireUnread(w))

-----------------------------------------------------------------------------
(* Properties *)

PCs == {"idle", "waiting", "write", "written", "closing", "load", "walk",
        "sign", "anchor"}

\* Every variable stays in its type.
TypeOK ==
    /\ ledger \in Seq(Lines)
    /\ openTail \in BOOLEAN
    /\ head \in Heads
    /\ durable \in Heads
    /\ key \in Keys \cup {NoKey}
    /\ lock \in Writers \cup {Nobody}
    /\ pc \in [Procs -> PCs]
    /\ seen \in [Procs -> [head_hash : Hashes, entries : Nat]]
    /\ verdict \in [Verifiers -> {"none", "ok", "bad"}]
    /\ acked \subseteq Hashes
    /\ damaged \in BOOLEAN
    /\ foul \in [Verifiers -> BOOLEAN]
    /\ calm \in [Verifiers -> BOOLEAN]
    /\ faults \in Nat
    /\ restarts \in Nat

\* The chain never forks (the comment in append_audit, store.py:275-277): every
\* record's hash is right, and its prev_hash is the hash of the last record
\* before it, whichever writers wrote the two and whatever failed in between.
ChainLinks == ChainedTogether(ledger)

\* A sidecar with a valid MAC vouches for records that are there: as many lines
\* as it counts, all linked, ending in the hash it names.  The signing key is
\* never applied to a head it did not produce (_require_appendable).
SignedHeadVouches ==
    Signed(head) =>
        /\ head.entries <= Len(ledger)
        /\ Linked(ledger, head.entries)
        /\ head.head_hash = HashAt(ledger, head.entries)

\* The appends that returned and whose record is no longer in the ledger.
LostAcks == acked \ {ledger[i].record_hash : i \in ChainedIn(ledger)}

\* An append that returned is in the ledger for good, under the hash the
\* sidecar recorded for it, whatever happens to the appends after it.
AckedInLedger == LostAcks = {}

\* With a key configured no step loses an append that has returned or is just
\* returning: not a torn line, not a restart, and not a late flush either unless
\* the same event, time stamp included, is appended twice.
KeyedKeepsAcked == [][key # NoKey => LostAcks' \subseteq LostAcks]_vars

\* While no append is under way, a walk of verify_chain that can read the sidecar
\* passes exactly when no append was ever cut between its two writes, counted from
\* a sidecar it could not read, or had its sidecar undone by a power loss: the walk
\* misses no damage, and does not cry wolf on what concurrent writers left behind.
VerdictExact ==
    lock = Nobody => (WalkChain(ledger, head).ok <=> ~damaged)

\* A verification that answers ok was not looking at a ledger that was damaged
\* before it began, even though it reads sidecar, lines and sidecar again
\* without the lock.
OkIsTrusted == \A v \in Verifiers : verdict[v] = "ok" => ~foul[v]

\* A verification reports a broken chain only where the ledger is damaged, an
\* append overlapped it, or its walk could not read the sidecar: an append before
\* its start, one that waits for the lock, and an adoption never make it fail.
NoFalseAlarm ==
    [][\A v \in Verifiers : VerifyWalkFails(v) => damaged \/ ~calm[v]]_vars

\* With a key configured, a line is added only on top of a head that this key
\* signed, or as the first line of a ledger that has no sidecar yet.
OnlyExtendsSignedHead ==
    [][key # NoKey /\ ledger' # ledger =>
           \/ Fresh(ledger, head)
           \/ /\ Signed(head) /\ head.mac.key = key
              /\ head.head_hash = LastHash(ledger)]_vars

\* Adoption does not replace a head that a key has signed by another one: it
\* requires a sidecar with no MAC (adopt_unsigned_ledger's docstring,
\* store.py:342-345).
AdoptsOnlyUnsigned ==
    [][\A a \in Adopters : AdoptSave(a) =>
           \/ head.mac = NoMac
           \/ seen[a].head_hash = head.head_hash]_vars

\* append_audit returns or raises: no writer waits for the lock for ever.
AppendReturns == \A w \in Writers : pc[w] = "waiting" ~> pc[w] = "idle"

\* The ledger implements the abstract log: the log is what the last record's
\* hash commits to, and it is sealed while an append would be refused.
AbstractLog ==
    INSTANCE AuditLog WITH
        log <- LastHash(ledger),
        sealed <- ~Appendable(ledger, head, key)
ImplementsAuditLog == AbstractLog!Spec
=============================================================================
