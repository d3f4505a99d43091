----------------------------- MODULE VerifyProofs -----------------------------
(***************************************************************************)
(* What verify_chain finds out about a ledger, for every set of processes  *)
(* and every disk fault.  The argument counts: as long as all lines link,  *)
(* no sidecar, and nobody who will save one, counts more lines than there  *)
(* are, and a ledger that is damaged has lost a count for good.            *)
(*                                                                         *)
(* The last part is what the chain is for: with the sidecar of the true    *)
(* ledger no other ledger, however long and whatever it holds, passes the  *)
(* walk of verify_chain.                                                   *)
(***************************************************************************)
EXTENDS LedgerProofs, MCLedger, ListProofs

\* A writer has written its line and not yet saved the sidecar.
Midway == \E w \in Writers : pc[w] = "written"

Whole == Linked(ledger, Len(ledger))

\* The processes that will count on from what they have seen, or sign it.
Counting(p) ==
    \/ pc[p] = "write"
    \/ p \in Adopters /\ pc[p] \in {"walk", "sign"}

\* No sidecar on the disk counts more than n lines, nor does what these have seen.
Below(n) ==
    /\ head.entries <= n
    /\ durable.entries <= n
    /\ \A p \in Writers \cup Adopters :
           Counting(p) => seen[p].entries <= n

\* Nor does what a writer is about to save.
SavesBelow(n) == \A w \in Writers : pc[w] = "written" => seen[w].entries <= n

Bounded ==
    Whole => /\ Below(Len(ledger)) /\ SavesBelow(Len(ledger))
             /\ Midway => Below(Len(ledger) - 1)

\* Nothing puts back a sidecar that an adoption has replaced by an older one: there
\* is no second adoption, and no power loss, that could.
NothingHeals ==
    \/ Adopters = {}
    \/ "power" \notin DiskFaults /\ \A a, b \in Adopters : a = b

\* Something is wrong with the ledger, in a way that nothing will put right.
Ajar == openTail \/ (NothingHeals /\ damaged)

\* Then whatever may end up in the sidecar counts too few lines.
Behind ==
    Whole /\ Ajar => Below(Len(ledger) - 1) /\ SavesBelow(Len(ledger) - 1)

\* A writer counts on from the sidecar, or from zero if it could not read it.
CountsOn ==
    \A w \in Writers :
        /\ pc[w] = "write" => seen[w].entries \in {0, head.entries}
        /\ pc[w] = "written" => seen[w].entries \in {1, head.entries + 1}

\* Only a power loss needs the sidecar that was there before.
NothingSaved == "power" \notin DiskFaults => durable.entries = 0

CountInv ==
    TypeInv /\ Holder /\ CountsOn /\ NothingSaved /\ Bounded /\ Behind

-----------------------------------------------------------------------------
(* Lemmas about steps *)

\* How a process moves in a step that leaves the disk alone.
Reads(p) ==
    \/ pc'[p] = pc[p] /\ seen'[p] = seen[p]
    \/ pc'[p] \in {"idle", "waiting", "closing", "load"}
    \/ /\ pc'[p] = "write" /\ p \in Writers /\ lock = Nobody
       /\ seen'[p].head_hash = LastHash(ledger)
       /\ seen'[p].entries \in {0, head.entries}
    \/ /\ pc[p] = "load" /\ pc'[p] = "walk"
       /\ seen'[p] \in {[head_hash |-> head.head_hash, entries |-> head.entries],
                        NoHead}
    \/ /\ pc[p] = "walk" /\ pc'[p] \in {"sign", "anchor"} /\ seen'[p] = seen[p]
       /\ pc'[p] = "sign" => p \in Adopters
       /\ WalkChain(ledger, seen[p]).ok

\* A step that leaves the disk alone does damage if it cuts an append short, and
\* only then.
LeavesDisk ==
    /\ UNCHANGED disk
    /\ \A p \in Procs : Reads(p)
    /\ \/ damaged' = damaged /\ (Midway' <=> Midway)
       \/ damaged' = TRUE /\ Midway /\ ~Midway'

\* A line reaches the disk outside an append that goes on.
Spills(w, e) == ShortWrite(w, e) \/ CloseFlushes(w, e)

\* A step of p that moves it as Reads says leaves the disk alone, if it changes nothing else.
LEMMA OneReads ==
    ASSUME TypeInv, NEW p \in Procs, NEW from, from # "written",
           NEW to, to # "written", Step(p, from, to),
           UNCHANGED disk, damaged' = damaged, seen' = seen \/ \E h : Sees(p, h),
           pc[p] = from /\ pc'[p] = to => Reads(p)
    PROVE  LeavesDisk
<1>1. pc[p] = from /\ pc'[p] = to /\ \A q \in Procs : q # p => pc'[q] = pc[q]
  BY OneMoves
<1>2. \A q \in Procs : q # p => seen'[q] = seen[q]
  BY OneSees
<1>3. Midway' <=> Midway
  BY <1>1 DEF Midway, Procs
<1>4. QED
  BY <1>1, <1>2, <1>3 DEF LeavesDisk, Reads

\* Which steps change the disk, and what the others do.
LEMMA StepKinds ==
    ASSUME TypeInv, Holder, [Next]_vars
    PROVE  \/ \E w \in Writers, e \in Events : WriteLine(w, e) \/ Spills(w, e)
           \/ \E w \in Writers : SaveHead(w)
           \/ \E a \in Adopters : AdoptSave(a)
           \/ \E k \in KeySettings : PowerLoss(k)
           \/ LeavesDisk
<1> USE DEF disk, sidecar, history, verification
<1>1. /\ \A w \in Writers : w \in Procs
      /\ \A a \in Adopters : a \in Procs
      /\ \A v \in Verifiers : v \in Procs
  BY DEF Procs
<1>2. ASSUME NEW w \in Writers,
             \/ Request(w) \/ Refuse(w) \/ RefuseUnread(w) \/ CloseFails(w)
             \/ FailBeforeWrite(w) \/ FlushFails(w)
      PROVE  LeavesDisk
  <2>1. /\ \E from, to : /\ Step(w, from, to) /\ from # "written"
                         /\ to \in {"idle", "waiting", "closing"}
        /\ UNCHANGED disk /\ damaged' = damaged
        /\ seen' = seen \/ \E h : Sees(w, h)
    BY <1>2
       DEF Request, Refuse, RefuseUnread, CloseFails, FailBeforeWrite, FlushFails,
           Fail
  <2>2. QED
    BY <1>1, <2>1, OneReads DEF Reads
<1>3. ASSUME NEW w \in Writers, Acquire(w) \/ AcquireUnread(w)
      PROVE  LeavesDisk
  <2>1. PICK n : /\ Sees(w, [head_hash |-> LastHash(ledger), entries |-> n])
                 /\ n \in {0, head.entries}
    BY <1>3 DEF Acquire, AcquireUnread
  <2>2. seen'[w] = [head_hash |-> LastHash(ledger), entries |-> n]
    BY <1>1, <2>1, OneSees
  <2>3. /\ Step(w, "waiting", "write") /\ lock = Nobody
        /\ UNCHANGED disk /\ damaged' = damaged
    BY <1>3 DEF Acquire, AcquireUnread, LockFree
  <2>4. QED
    BY <1>1, <2>1, <2>2, <2>3, OneReads DEF Reads
<1>4. ASSUME NEW w \in Writers, FailAfterWrite(w)
      PROVE  LeavesDisk
  <2>1. /\ Step(w, "written", "idle") /\ Sees(w, NoHead) /\ UNCHANGED disk
        /\ damaged' = TRUE
    BY <1>4 DEF FailAfterWrite, Fail
  <2>2. pc[w] = "written" /\ pc'[w] = "idle"
        /\ \A q \in Procs : q # w => pc'[q] = pc[q] /\ seen'[q] = seen[q]
    BY <1>1, <2>1, OneMoves, OneSees
  <2>3. \A u \in Writers : pc'[u] # "written"
    BY <1>1, <2>2 DEF Holder
  <2>4. QED
    BY <2>1, <2>2, <2>3 DEF LeavesDisk, Reads, Midway
<1>5. ASSUME NEW p \in Procs, WalkLoadsHead(p)
      PROVE  LeavesDisk
  <2>1. /\ Step(p, "load", "walk")
        /\ Sees(p, [head_hash |-> head.head_hash, entries |-> head.entries])
        /\ UNCHANGED disk /\ damaged' = damaged
    BY <1>5 DEF WalkLoadsHead
  <2>2. seen'[p] = [head_hash |-> head.head_hash, entries |-> head.entries]
    BY <2>1, OneSees
  <2>3. QED
    BY <2>1, <2>2, OneReads DEF Reads
<1>5a. ASSUME NEW p \in Procs, WalkLoadsNothing(p)
       PROVE  LeavesDisk
  <2>1. /\ Step(p, "load", "walk") /\ Sees(p, NoHead)
        /\ UNCHANGED disk /\ damaged' = damaged
    BY <1>5a DEF WalkLoadsNothing
  <2>2. seen'[p] = NoHead
    BY <2>1, OneSees
  <2>3. QED
    BY <2>1, <2>2, OneReads DEF Reads
<1>6. ASSUME NEW a \in Adopters, AdoptCheck(a) \/ AdoptRefuses(a)
      PROVE  LeavesDisk
  <2>1. /\ \E from, to : /\ Step(a, from, to) /\ from # "written"
                         /\ to \in {"idle", "load"}
        /\ UNCHANGED disk /\ damaged' = damaged
        /\ seen' = seen \/ \E h : Sees(a, h)
    BY <1>6 DEF AdoptCheck, AdoptRefuses
  <2>2. QED
    BY <1>1, <2>1, OneReads DEF Reads
<1>7. ASSUME NEW a \in Adopters, AdoptWalk(a)
      PROVE  LeavesDisk
  BY <1>1, <1>7, OneReads DEF AdoptWalk, Reads
<1>8. ASSUME NEW v \in Verifiers, VerifyStart(v) \/ VerifyWalkFails(v) \/ VerifyAnchor(v)
      PROVE  LeavesDisk
  <2>1. /\ \E from, to : /\ Step(v, from, to) /\ from # "written"
                         /\ to \in {"idle", "load"}
        /\ UNCHANGED disk /\ damaged' = damaged
        /\ seen' = seen \/ \E h : Sees(v, h)
    BY <1>8 DEF VerifyStart, VerifyWalkFails, VerifyAnchor, Conclude
  <2>2. QED
    BY <1>1, <2>1, OneReads DEF Reads
<1>9. ASSUME NEW v \in Verifiers, VerifyWalkPasses(v)
      PROVE  LeavesDisk
  BY <1>1, <1>9, OneReads DEF VerifyWalkPasses, Reads
<1>10. ASSUME NEW k \in KeySettings, Restart(k)
       PROVE  LeavesDisk
  <2>1. /\ UNCHANGED disk /\ \A p \in Procs : pc'[p] = "idle"
        /\ damaged' = (damaged \/ head.entries # head.entries \/ Midway)
    BY <1>10 DEF Restart, Reboot, Midway
  <2>2. damaged \in BOOLEAN /\ Midway \in BOOLEAN /\ ~Midway'
    BY <1>1, <2>1 DEF TypeInv, TypeOK, Midway
  <2>3. CASE Midway
    BY <2>1, <2>2, <2>3 DEF LeavesDisk, Reads
  <2>4. CASE ~Midway
    BY <2>1, <2>2, <2>4 DEF LeavesDisk, Reads
  <2>5. QED
    BY <2>3, <2>4
<1>11. CASE UNCHANGED vars
  BY <1>11 DEF vars, LeavesDisk, Reads, Midway
<1>12. QED
  BY <1>1, <1>2, <1>3, <1>4, <1>5, <1>5a, <1>6, <1>7, <1>8, <1>9, <1>10, <1>11
     DEF Next, WriterNext, AppendStep, AppendFails, AdopterNext, VerifierNext,
         Spills

\* The lock excludes, whatever the disk does.
LEMMA HolderStep ==
    ASSUME TypeInv, Holder, [Next]_vars
    PROVE  Holder'
<1> USE DEF LockFree, Unlock
<1>1. /\ \A w \in Writers : w \in Procs /\ w # Nobody
      /\ pc \in [Procs -> PCs]
  BY LedgerAssumption DEF Procs, TypeInv, TypeOK
<1>2. ASSUME NEW w \in Writers, NEW from, NEW to, Step(w, from, to),
             \/ /\ {from, to} \subseteq {"write", "written"} /\ lock' = lock
             \/ /\ from \notin {"write", "written"} /\ to \notin {"write", "written"}
                /\ lock' = lock
             \/ /\ lock = Nobody /\ lock' = Nobody
                /\ to \notin {"write", "written"}
             \/ lock = Nobody /\ lock' = w /\ to = "write"
             \/ /\ from \in {"write", "written"} /\ lock' = Nobody
                /\ to \notin {"write", "written"}
      PROVE  Holder'
  BY <1>1, <1>2 DEF Step, Holder
<1>3. ASSUME NEW w \in Writers, WriterNext(w)
      PROVE  Holder'
  <2>1. CASE Request(w)
    BY <1>2, <2>1 DEF Request
  <2>2. CASE Acquire(w) \/ AcquireUnread(w)
    BY <1>2, <2>2 DEF Acquire, AcquireUnread
  <2>3. CASE Refuse(w) \/ RefuseUnread(w)
    BY <1>2, <2>3 DEF Refuse, RefuseUnread, Fail
  <2>4. CASE \E e \in Events : WriteLine(w, e)
    BY <1>2, <2>4 DEF WriteLine
  <2>5. CASE CloseFails(w) \/ \E e \in Events : CloseFlushes(w, e)
    BY <1>2, <2>5 DEF CloseFails, CloseFlushes
  <2>6. CASE SaveHead(w) \/ FailBeforeWrite(w) \/ FailAfterWrite(w)
    BY <1>2, <2>6 DEF SaveHead, FailBeforeWrite, FailAfterWrite, Fail
  <2>7. CASE FlushFails(w) \/ \E e \in Events : ShortWrite(w, e)
    BY <1>2, <2>7 DEF FlushFails, ShortWrite, Fail
  <2>8. QED
    BY <1>3, <2>1, <2>2, <2>3, <2>4, <2>5, <2>6, <2>7
       DEF WriterNext, AppendStep, AppendFails
<1>4. ASSUME NEW p \in Adopters \cup Verifiers, NEW from, NEW to,
             Step(p, from, to), lock' = lock
      PROVE  Holder'
  BY <1>1, <1>4, LedgerAssumption DEF Step, Holder, Procs
<1>5. ASSUME NEW a \in Adopters, AdopterNext(a)
      PROVE  Holder'
  BY <1>4, <1>5
     DEF AdopterNext, AdoptCheck, WalkLoadsHead, WalkLoadsNothing, AdoptWalk,
         AdoptRefuses, AdoptSave
<1>6. ASSUME NEW v \in Verifiers, VerifierNext(v)
      PROVE  Holder'
  BY <1>4, <1>6
     DEF VerifierNext, VerifyStart, WalkLoadsHead, WalkLoadsNothing,
         VerifyWalkPasses, VerifyWalkFails, VerifyAnchor, Conclude
<1>7. ASSUME NEW k \in KeySettings, Restart(k) \/ PowerLoss(k)
      PROVE  Holder'
  BY <1>1, <1>7 DEF Restart, PowerLoss, Reboot, Holder
<1>8. CASE UNCHANGED vars
  BY <1>8 DEF vars, Holder
<1>9. QED
  BY <1>3, <1>5, <1>6, <1>7, <1>8 DEF Next

-----------------------------------------------------------------------------
(* Counting *)

\* A write never makes a ledger whole: what did not link stays, and a line that is
\* glued to a torn one does not link.
LEMMA WrittenWhole ==
    ASSUME NEW lines \in Seq(Lines), NEW line \in Lines, NEW open \in BOOLEAN,
           open => lines # <<>>,
           Linked(WrittenTo(lines, open, line), Len(WrittenTo(lines, open, line)))
    PROVE  /\ ~open /\ WrittenTo(lines, open, line) = Append(lines, line)
           /\ Linked(lines, Len(lines))
<1> DEFINE new == WrittenTo(lines, open, line)
           len == IF open THEN Len(lines) ELSE Len(lines) + 1
<1>1. Len(new) = len /\ len \in Nat \ {0}
      /\ new[len] = IF open THEN Unchained ELSE line
  BY WrittenToLines
<1>2. Links(new, len)
  BY <1>1 DEF Linked
<1>3. ~open
  BY <1>1, <1>2 DEF Links, Unchained
<1>4. new = Append(lines, line)
  BY <1>3 DEF WrittenTo
<1>5. Len(lines) \in 0..Len(lines) /\ Linked(new, Len(lines))
  BY <1>1, <1>3, LenProperties DEF Linked
<1>6. Linked(lines, Len(lines))
  BY <1>4, <1>5, AppendLinked
<1>7. QED
  BY <1>3, <1>4, <1>6

\* The same of the ledger on the disk.
LEMMA WritesWhole ==
    ASSUME TypeInv, NEW line \in Lines, ledger' = Written(line), Whole'
    PROVE  ~openTail /\ ledger' = Append(ledger, line) /\ Whole
  BY WrittenWhole DEF TypeInv, TypeOK, Written, Whole

\* What the types say of the counts.
LEMMA CountTypes ==
    ASSUME TypeInv
    PROVE  /\ ledger \in Seq(Lines) /\ Len(ledger) \in Nat
           /\ head.entries \in Nat /\ durable.entries \in Nat
           /\ \A p \in Procs : seen[p].entries \in Nat /\ seen[p].head_hash \in Hashes
           /\ \A w \in Writers : w \in Procs
           /\ \A a \in Adopters : a \in Procs
           /\ \A v \in Verifiers : v \in Procs
  BY LenProperties DEF TypeInv, TypeOK, Heads, Procs

\* The counts stay behind when w writes a line: the ledger grows by the one its
\* writer will count.
LEMMA GrowCounts ==
    ASSUME CountInv, NEW w \in Writers, NEW line \in Lines, ledger' = Written(line),
           UNCHANGED <<head, durable>>,
           \A q \in Procs : q # w => pc'[q] = pc[q] /\ seen'[q] = seen[q],
           \/ pc'[w] = "idle"
           \/ /\ pc[w] = "write" /\ pc'[w] = "written"
              /\ Ajar' => Ajar
              /\ seen'[w].entries = seen[w].entries + 1
    PROVE  Bounded' /\ Behind'
<1>1. SUFFICES ASSUME Whole' PROVE Bounded' /\ Behind'
  BY DEF Bounded, Behind
<1>2. ~openTail /\ ledger' = Append(ledger, line) /\ Whole
  BY <1>1, WritesWhole DEF CountInv
<1>3. /\ Len(ledger) \in Nat /\ Len(ledger') = Len(ledger) + 1
      /\ \A p \in Procs : seen[p].entries \in Nat
      /\ \A p \in Writers \cup Adopters : p \in Procs
      /\ head.entries \in Nat /\ durable.entries \in Nat
  BY <1>2, CountTypes, AppendProperties DEF CountInv
<1>4. Below(Len(ledger)) /\ SavesBelow(Len(ledger))
  BY <1>2 DEF CountInv, Bounded
<1>5. PICK n : n = Len(ledger)
  OBVIOUS
<1>6. Below(n)' /\ Below(n + 1)'
  <2>1. \A p \in Writers \cup Adopters :
            Counting(p)' =>
                p # w /\ pc'[p] = pc[p] /\ seen'[p] = seen[p]
    BY <1>3 DEF Counting
  <2>2. \A p \in Writers \cup Adopters :
            Counting(p)' => seen'[p].entries \in 0..n
    BY <1>3, <1>4, <1>5, <2>1 DEF Below, Counting
  <2>3. QED
    BY <1>3, <1>4, <1>5, <2>2 DEF Below, Counting
<1>7. SavesBelow(n + 1)'
  <2>1. ASSUME NEW u \in Writers, pc'[u] = "written"
        PROVE  seen'[u].entries <= n + 1
    <3>1. CASE u = w
      BY <1>3, <1>4, <1>5, <2>1, <3>1 DEF Below, Counting
    <3>2. CASE u # w
      BY <1>3, <1>4, <1>5, <2>1, <3>2 DEF SavesBelow
    <3>3. QED
      BY <3>1, <3>2
  <2>2. QED
    BY <2>1 DEF SavesBelow
<1>8. ASSUME Ajar'
      PROVE  SavesBelow(n)'
  <2>1. ASSUME NEW u \in Writers, pc'[u] = "written"
        PROVE  seen'[u].entries <= n
    <3>1. CASE u = w
      <4>1. pc[w] = "write" /\ Ajar /\ seen'[w].entries = seen[w].entries + 1
        BY <1>8, <2>1, <3>1
      <4>2. seen[w].entries <= Len(ledger) - 1
        BY <1>2, <4>1 DEF CountInv, Behind, Below, Counting
      <4>3. QED
        BY <1>3, <1>5, <3>1, <4>1, <4>2
    <3>2. CASE u # w
      BY <1>3, <1>4, <1>5, <2>1, <3>2 DEF SavesBelow
    <3>3. QED
      BY <3>1, <3>2
  <2>2. QED
    BY <2>1 DEF SavesBelow
<1>9. Len(ledger') = n + 1 /\ Len(ledger') - 1 = n
  BY <1>3, <1>5
<1>10. QED
  BY <1>6, <1>7, <1>8, <1>9 DEF Bounded, Behind

\* They stay behind in a step that leaves the disk alone.
LEMMA LeavesCounts ==
    ASSUME CountInv, LeavesDisk
    PROVE  Bounded' /\ Behind'
<1>1. /\ UNCHANGED <<ledger, openTail, head, durable>>
      /\ Len(ledger) \in Nat /\ head.entries \in Nat
      /\ \A p \in Writers \cup Adopters : p \in Procs
  BY CountTypes DEF CountInv, LeavesDisk, disk
<1>2. PICK n : n = Len(ledger)
  OBVIOUS
<1>3. ASSUME NEW m \in {n, n - 1}, Below(m)
      PROVE  Below(m)'
  <2>1. ASSUME NEW p \in Writers \cup Adopters,
               Counting(p)'
        PROVE  seen'[p].entries <= m
    <3>1. CASE pc'[p] = pc[p] /\ seen'[p] = seen[p]
      BY <1>3, <2>1, <3>1 DEF Below, Counting
    <3>2. CASE seen'[p].entries \in {0, head.entries}
      BY <1>1, <1>2, <1>3, <3>2 DEF Below, Counting
    <3>3. CASE p \in Adopters /\ pc[p] = "walk" /\ seen'[p] = seen[p]
      BY <1>3, <3>3 DEF Below, Counting
    <3>4. CASE seen'[p] = NoHead
      BY <1>1, <1>2, <1>3, <3>4 DEF Below, NoHead
    <3>5. QED
      BY <1>1, <2>1, <3>1, <3>2, <3>3, <3>4 DEF LeavesDisk, Reads, Counting
  <2>2. QED
    BY <1>1, <1>3, <2>1 DEF Below, Counting
<1>4. \A w \in Writers : pc'[w] = "written" => pc[w] = "written" /\ seen'[w] = seen[w]
  BY <1>1 DEF LeavesDisk, Reads
<1>5. ASSUME NEW m \in {n, n - 1}, SavesBelow(m)
      PROVE  SavesBelow(m)'
  BY <1>4, <1>5 DEF SavesBelow
<1>6. Midway' => Midway
  BY <1>4 DEF Midway
<1>7. (Whole' <=> Whole) /\ (Ajar' => Ajar \/ (Midway /\ ~Midway'))
  BY <1>1 DEF Whole, Ajar, LeavesDisk
<1>8. ~Midway' => SavesBelow(n - 1)'
  BY DEF Midway, SavesBelow
<1>9. QED
  BY <1>1, <1>2, <1>3, <1>5, <1>6, <1>7, <1>8 DEF CountInv, Bounded, Behind

\* And in a step that replaces the sidecar: nobody is midway after it, and the new
\* ones are no further than they should be.
LEMMA SavedCounts ==
    ASSUME CountInv, UNCHANGED <<ledger, openTail>>,
           \A p \in Writers \cup Adopters :
               pc'[p] = "idle" \/ (pc'[p] = pc[p] /\ seen'[p] = seen[p]),
           ~Midway',
           NEW n, n = Len(ledger),
           Whole => head'.entries <= n /\ durable'.entries <= n,
           Whole /\ Ajar' =>
               /\ head'.entries <= n - 1 /\ durable'.entries <= n - 1
               /\ \A p \in Writers \cup Adopters :
                      Counting(p)' => seen[p].entries <= n - 1
    PROVE  Bounded' /\ Behind'
<1>1. Whole' <=> Whole
  BY DEF Whole
<1>2. SavesBelow(n)' /\ SavesBelow(n - 1)'
  BY DEF Midway, SavesBelow
<1>3. Whole => Below(n)'
  BY DEF CountInv, Bounded, Below, Counting
<1>4. Whole /\ Ajar' => Below(n - 1)'
  BY DEF Below, Counting
<1>5. QED
  BY <1>1, <1>2, <1>3, <1>4 DEF Bounded, Behind

\* After an append that saved its head, ...
LEMMA SaveHeadCounts ==
    ASSUME CountInv, NEW w \in Writers, SaveHead(w)
    PROVE  Bounded' /\ Behind'
<1>1. PICK n : n = Len(ledger)
  OBVIOUS
<1>2. /\ n \in Nat /\ head.entries \in Nat /\ durable.entries \in Nat
      /\ \A p \in Procs : seen[p].entries \in Nat
      /\ w \in Procs /\ \A p \in Writers \cup Adopters : p \in Procs
  BY <1>1, CountTypes DEF CountInv
<1>3. /\ pc[w] = "written" /\ pc'[w] = "idle"
      /\ \A q \in Procs : q # w => pc'[q] = pc[q] /\ seen'[q] = seen[q]
  BY <1>2, OneMoves, OneSees DEF SaveHead, CountInv
<1>4. /\ UNCHANGED <<ledger, openTail>>
      /\ head'.entries = seen[w].entries /\ durable' \in {durable, head}
      /\ damaged' = (damaged \/ seen[w].entries # head.entries + 1)
  BY DEF SaveHead, Replace, Sidecar
<1>5. Midway /\ ~Midway'
  BY <1>2, <1>3 DEF CountInv, Holder, Midway
<1>6. seen[w].entries \in {1, head.entries + 1}
  BY <1>3 DEF CountInv, CountsOn
<1>7. Whole => Below(n) /\ Below(n - 1) /\ seen[w].entries <= n
  BY <1>1, <1>3, <1>5 DEF CountInv, Bounded, SavesBelow
<1>8. Whole /\ Ajar' => seen[w].entries <= n - 1
  <2>1. CASE Whole /\ Ajar
    BY <1>1, <1>3, <2>1 DEF CountInv, Behind, SavesBelow
  <2>2. CASE Whole /\ seen[w].entries # head.entries + 1
    <3>1. seen[w].entries = 1 /\ head.entries # 0 /\ head.entries <= n - 1
      BY <1>2, <1>6, <1>7, <2>2 DEF Below, Counting
    <3>2. QED
      BY <1>2, <3>1
  <2>3. QED
    BY <1>4, <2>1, <2>2 DEF Ajar
<1>9. Whole => /\ head'.entries <= n /\ durable'.entries <= n
               /\ durable'.entries <= n - 1
  BY <1>2, <1>4, <1>7 DEF Below, Counting
<1>10. Whole => \A p \in Writers \cup Adopters :
                    Counting(p)' => seen[p].entries <= n - 1
  BY <1>2, <1>3, <1>7 DEF Below, Counting
<1>11. QED
  BY <1>1, <1>2, <1>3, <1>4, <1>5, <1>8, <1>9, <1>10, SavedCounts

\* ... after an adoption, ...
LEMMA AdoptCounts ==
    ASSUME CountInv, NEW a \in Adopters, AdoptSave(a)
    PROVE  Bounded' /\ Behind'
<1>1. PICK n : n = Len(ledger)
  OBVIOUS
<1>2. /\ n \in Nat /\ head.entries \in Nat /\ durable.entries \in Nat
      /\ \A p \in Procs : seen[p].entries \in Nat
      /\ a \in Procs /\ \A p \in Writers \cup Adopters : p \in Procs
      /\ a \notin Writers
  BY <1>1, CountTypes, LedgerAssumption DEF CountInv
<1>3. /\ pc[a] = "sign" /\ pc'[a] = "idle"
      /\ \A q \in Procs : q # a => pc'[q] = pc[q] /\ seen'[q] = seen[q]
  BY <1>2, OneMoves, OneSees DEF AdoptSave, CountInv
<1>4. /\ UNCHANGED <<ledger, openTail>>
      /\ head'.entries = seen[a].entries
      /\ durable' \in {durable, head}
      /\ "power" \notin DiskFaults => durable' = durable
      /\ damaged' = (damaged \/ seen[a].entries # n)
  BY <1>1 DEF AdoptSave, Replace, Sidecar
<1>5. \A w \in Writers : pc[w] \notin {"write", "written"}
  BY LedgerAssumption DEF AdoptSave, LockFree, CountInv, Holder
<1>6. ~Midway'
  BY <1>2, <1>3, <1>5 DEF Midway
<1>7. Whole => Below(n)
  BY <1>1 DEF CountInv, Bounded
<1>8. Whole => /\ head'.entries <= n /\ durable'.entries <= n
  BY <1>2, <1>3, <1>4, <1>7 DEF Below, Counting
<1>9. ASSUME Whole, Ajar'
      PROVE  /\ head'.entries <= n - 1 /\ durable'.entries <= n - 1
             /\ \A p \in Writers \cup Adopters :
                    Counting(p)' => seen[p].entries <= n - 1
  <2>1. CASE Ajar
    <3>1. Below(n - 1)
      BY <1>1, <1>9, <2>1 DEF CountInv, Behind
    <3>2. QED
      BY <1>2, <1>3, <1>4, <3>1 DEF Below, Counting
  <2>2. CASE ~Ajar
    <3>1. NothingHeals /\ seen[a].entries # n
      BY <1>4, <1>9, <2>2 DEF Ajar
    <3>2. "power" \notin DiskFaults /\ \A p \in Adopters : p = a
      BY <3>1 DEF NothingHeals
    <3>3. seen[a].entries <= n - 1
      BY <1>2, <1>3, <1>7, <1>9, <3>1 DEF Below, Counting
    <3>4. durable.entries <= n - 1
      BY <1>2, <3>2, <3>3 DEF CountInv, NothingSaved
    <3>5. \A p \in Writers \cup Adopters : ~Counting(p)'
      BY <1>2, <1>3, <1>5, <3>2 DEF Counting
    <3>6. QED
      BY <1>4, <3>2, <3>3, <3>4, <3>5
  <2>3. QED
    BY <2>1, <2>2
<1>10. QED
  BY <1>1, <1>2, <1>3, <1>4, <1>6, <1>8, <1>9, SavedCounts

-----------------------------------------------------------------------------
(* Soundness: what an undamaged ledger looks like *)

Sound ==
    ~damaged =>
        /\ Whole /\ ~openTail
        /\ Vouched(ledger, head.head_hash, head.entries)
        /\ Vouched(ledger, durable.head_hash, durable.entries)
        /\ durable.entries <= head.entries
        /\ head.entries = IF Midway THEN Len(ledger) - 1 ELSE Len(ledger)
        /\ \A w \in Writers :
               pc[w] \in {"write", "written"} =>
                   seen[w].head_hash = HashAt(ledger, Len(ledger))
        /\ \A a \in Adopters :
               pc[a] = "sign" =>
                   Vouched(ledger, seen[a].head_hash, seen[a].entries)

\* Of a ledger that is whole the last line is the last record.
LEMMA WholeLast ==
    ASSUME NEW lines \in Seq(Lines), Linked(lines, Len(lines))
    PROVE  LastHash(lines) = HashAt(lines, Len(lines))
<1>1. Len(lines) \in 0..Len(lines) /\ LastAt(lines, Len(lines), Len(lines))
  BY LenProperties DEF LastAt, Linked, Links
<1>2. QED
  BY <1>1, LastHashIs

\* A sidecar that counts nothing vouches for nothing.
LEMMA NoneVouched ==
    ASSUME NEW lines \in Seq(Lines)
    PROVE  Vouched(lines, Genesis, 0)
  BY LenProperties DEF Vouched, Linked, HashAt

\* An append writes the record that continues a sound ledger.
LEMMA WriteSound ==
    ASSUME CountInv, Sound, NEW w \in Writers, NEW e \in Events, WriteLine(w, e)
    PROVE  Sound'
<1> DEFINE h == seen[w].head_hash
           line == Record(e, h)
<1>1. SUFFICES ASSUME ~damaged PROVE Sound'
  BY DEF WriteLine, history, Sound
<1>2. /\ ledger \in Seq(Lines) /\ Len(ledger) \in Nat
      /\ head.entries \in Nat /\ durable.entries \in Nat
      /\ \A p \in Procs : seen[p].entries \in Nat
      /\ w \in Procs /\ w \notin Adopters /\ h \in Hashes
      /\ \A p \in Writers \cup Adopters : p \in Procs
  BY CountTypes, LedgerAssumption DEF CountInv
<1>3. /\ pc[w] = "write" /\ pc'[w] = "written"
      /\ seen'[w].head_hash = RecordHash(e, h)
      /\ \A q \in Procs : q # w => pc'[q] = pc[q] /\ seen'[q] = seen[q]
  <2>1. Step(w, "write", "written") /\ Sees(w, NextHead(w, e))
    BY DEF WriteLine
  <2>2. QED
    BY <1>2, <2>1, OneMoves, OneSees DEF CountInv, NextHead
<1>4. \A u \in Writers : u # w => pc[u] \notin {"write", "written"}
  BY <1>3 DEF CountInv, Holder
<1>5. Midway' /\ ~Midway
  BY <1>3, <1>4 DEF Midway
<1>6. /\ Whole /\ ~openTail /\ h = HashAt(ledger, Len(ledger))
      /\ head.entries = Len(ledger)
  BY <1>1, <1>3, <1>5 DEF Sound
<1>7. /\ ledger' = Append(ledger, line) /\ openTail' = FALSE
      /\ UNCHANGED <<head, durable>>
  BY <1>6 DEF WriteLine, Written, WrittenTo, sidecar
<1>8. line \in Lines /\ Len(ledger') = Len(ledger) + 1
  BY <1>2, <1>7, RecordType, AppendProperties
<1>9. Vouched(ledger', RecordHash(e, h), Len(ledger'))
  <2>1. Vouched(ledger, h, Len(ledger))
    BY <1>2, <1>6 DEF Vouched, Whole
  <2>2. QED
    BY <1>2, <1>7, <1>8, <2>1, AppendVouchedRecord
<1>10. Vouched(ledger', head.head_hash, head.entries)
       /\ Vouched(ledger', durable.head_hash, durable.entries)
  BY <1>1, <1>2, <1>7, <1>8, AppendVouched DEF Sound
<1>11. ASSUME NEW a \in Adopters, pc'[a] = "sign"
       PROVE  Vouched(ledger', seen'[a].head_hash, seen'[a].entries)
  <2>1. pc[a] = "sign" /\ seen'[a] = seen[a] /\ a \in Procs
    BY <1>2, <1>3, <1>11
  <2>2. Vouched(ledger, seen[a].head_hash, seen[a].entries)
    BY <1>1, <2>1 DEF Sound
  <2>3. QED
    BY <1>2, <1>7, <1>8, <2>1, <2>2, AppendVouched
<1>12. Whole' /\ RecordHash(e, h) = HashAt(ledger', Len(ledger'))
  BY <1>9 DEF Vouched, Whole
<1>13. \A u \in Writers :
           pc'[u] \in {"write", "written"} =>
               seen'[u].head_hash = HashAt(ledger', Len(ledger'))
  BY <1>2, <1>3, <1>4, <1>12
<1>14. QED
  BY <1>1, <1>2, <1>5, <1>6, <1>7, <1>8, <1>10, <1>11, <1>12, <1>13 DEF Sound

\* A step that leaves the disk alone leaves it sound.
LEMMA LeavesSound ==
    ASSUME CountInv, Sound, LeavesDisk
    PROVE  Sound'
<1>1. SUFFICES ASSUME ~damaged' PROVE Sound'
  BY DEF Sound
<1>2. /\ UNCHANGED <<ledger, openTail, head, durable>>
      /\ ~damaged /\ (Midway' <=> Midway)
      /\ ledger \in Seq(Lines)
      /\ \A p \in Writers \cup Adopters : p \in Procs
  BY <1>1, CountTypes DEF CountInv, LeavesDisk, disk
<1>3. ASSUME NEW w \in Writers, pc'[w] \in {"write", "written"}
      PROVE  seen'[w].head_hash = HashAt(ledger, Len(ledger))
  <2>1. CASE pc'[w] = pc[w] /\ seen'[w] = seen[w]
    BY <1>2, <1>3, <2>1 DEF Sound
  <2>2. CASE seen'[w].head_hash = LastHash(ledger)
    BY <1>2, <2>2, WholeLast DEF Sound, Whole
  <2>3. QED
    BY <1>2, <1>3, <2>1, <2>2 DEF LeavesDisk, Reads
<1>4. ASSUME NEW a \in Adopters, pc'[a] = "sign"
      PROVE  Vouched(ledger, seen'[a].head_hash, seen'[a].entries)
  <2>1. CASE pc'[a] = pc[a] /\ seen'[a] = seen[a]
    BY <1>2, <1>4, <2>1 DEF Sound
  <2>2. CASE WalkChain(ledger, seen[a]).ok /\ seen'[a] = seen[a]
    <3>1. Linked(ledger, Len(ledger)) /\ Len(ledger) \in Nat
      BY <1>2, <2>2, LenProperties DEF WalkChain
    <3>2. QED
      BY <2>2, <3>1 DEF WalkChain, Vouched
  <2>3. QED
    BY <1>2, <1>4, <2>1, <2>2 DEF LeavesDisk, Reads
<1>5. QED
  BY <1>2, <1>3, <1>4 DEF Sound, Whole

\* An append that saves a head that counts one line more leaves the ledger sound.
LEMMA SaveHeadSound ==
    ASSUME CountInv, Sound, NEW w \in Writers, SaveHead(w)
    PROVE  Sound'
<1>1. SUFFICES ASSUME ~damaged' PROVE Sound'
  BY DEF Sound
<1>2. /\ ledger \in Seq(Lines) /\ Len(ledger) \in Nat
      /\ head.entries \in Nat /\ durable.entries \in Nat
      /\ w \in Procs /\ w \notin Adopters
      /\ \A p \in Writers \cup Adopters : p \in Procs
  BY CountTypes, LedgerAssumption DEF CountInv
<1>3. /\ pc[w] = "written" /\ pc'[w] = "idle"
      /\ \A q \in Procs : q # w => pc'[q] = pc[q] /\ seen'[q] = seen[q]
  BY <1>2, OneMoves, OneSees DEF SaveHead, CountInv
<1>4. \A u \in Writers : pc'[u] \notin {"write", "written"}
  BY <1>2, <1>3 DEF CountInv, Holder
<1>5. Midway /\ ~Midway'
  BY <1>3, <1>4 DEF Midway
<1>6. /\ UNCHANGED <<ledger, openTail>> /\ ~damaged
      /\ head'.head_hash = seen[w].head_hash
      /\ head'.entries = head.entries + 1
      /\ durable' \in {durable, head}
  BY <1>1 DEF SaveHead, Replace, Sidecar
<1>7. /\ Whole /\ head.entries = Len(ledger) - 1
      /\ seen[w].head_hash = HashAt(ledger, Len(ledger))
  BY <1>3, <1>5, <1>6 DEF Sound
<1>8. Vouched(ledger, head'.head_hash, head'.entries) /\ head'.entries = Len(ledger)
  BY <1>2, <1>6, <1>7 DEF Vouched, Whole
<1>9. /\ Vouched(ledger, durable'.head_hash, durable'.entries)
      /\ durable'.entries <= head'.entries
  BY <1>2, <1>6 DEF Sound
<1>10. \A a \in Adopters :
           pc'[a] = "sign" => Vouched(ledger, seen'[a].head_hash, seen'[a].entries)
  BY <1>2, <1>3, <1>6 DEF Sound
<1>11. QED
  BY <1>4, <1>5, <1>6, <1>7, <1>8, <1>9, <1>10 DEF Sound, Whole

\* So does an adoption that signs the whole of it.
LEMMA AdoptSound ==
    ASSUME CountInv, Sound, NEW a \in Adopters, AdoptSave(a)
    PROVE  Sound'
<1>1. SUFFICES ASSUME ~damaged' PROVE Sound'
  BY DEF Sound
<1>2. /\ ledger \in Seq(Lines) /\ Len(ledger) \in Nat
      /\ head.entries \in Nat /\ durable.entries \in Nat
      /\ a \in Procs /\ a \notin Writers
      /\ \A p \in Writers \cup Adopters : p \in Procs
  BY CountTypes, LedgerAssumption DEF CountInv
<1>3. /\ pc[a] = "sign" /\ pc'[a] = "idle"
      /\ \A q \in Procs : q # a => pc'[q] = pc[q] /\ seen'[q] = seen[q]
  BY <1>2, OneMoves, OneSees DEF AdoptSave, CountInv
<1>4. \A w \in Writers : pc'[w] \notin {"write", "written"}
  BY <1>2, <1>3, LedgerAssumption DEF AdoptSave, LockFree, CountInv, Holder
<1>5. ~Midway'
  BY <1>4 DEF Midway
<1>6. /\ UNCHANGED <<ledger, openTail>> /\ ~damaged
      /\ head'.head_hash = seen[a].head_hash
      /\ head'.entries = seen[a].entries /\ seen[a].entries = Len(ledger)
      /\ durable' \in {durable, head}
  BY <1>1 DEF AdoptSave, Replace, Sidecar
<1>7. Vouched(ledger, head'.head_hash, head'.entries)
  BY <1>3, <1>6 DEF Sound
<1>8. /\ Vouched(ledger, durable'.head_hash, durable'.entries)
      /\ durable'.entries <= head'.entries
  BY <1>6 DEF Sound, Vouched
<1>9. \A b \in Adopters :
          pc'[b] = "sign" => Vouched(ledger, seen'[b].head_hash, seen'[b].entries)
  BY <1>2, <1>3, <1>6 DEF Sound
<1>10. QED
  BY <1>4, <1>5, <1>6, <1>7, <1>8, <1>9 DEF Sound, Whole

\* What a power loss leaves of the sidecar, and what a reboot of the processes.
LEMMA PowerLeaves ==
    ASSUME CountInv, NEW k \in KeySettings, PowerLoss(k)
    PROVE  /\ UNCHANGED <<ledger, openTail>>
           /\ head' \in {head, durable, UnreadableHead} /\ durable' = head'
           /\ \A p \in Procs : pc'[p] = "idle"
           /\ \A w \in Writers : pc'[w] = "idle"
           /\ \A a \in Adopters : pc'[a] = "idle"
           /\ ~Midway'
           /\ damaged' = (damaged \/ head'.entries # head.entries \/ Midway)
  BY DEF PowerLoss, Reboot, Midway, Procs

\* A power loss that leaves the count as it was leaves the ledger sound, ...
LEMMA PowerSound ==
    ASSUME CountInv, Sound, NEW k \in KeySettings, PowerLoss(k)
    PROVE  Sound'
<1>1. SUFFICES ASSUME ~damaged' PROVE Sound'
  BY DEF Sound
<1>2. ledger \in Seq(Lines) /\ head.entries \in Nat
  BY CountTypes DEF CountInv
<1>3. ~damaged /\ ~Midway /\ head'.entries = head.entries
  BY <1>1, PowerLeaves DEF CountInv, TypeInv, TypeOK
<1>4. Vouched(ledger, head'.head_hash, head'.entries)
  <2>1. CASE head' = UnreadableHead
    BY <1>2, <2>1, NoneVouched DEF UnreadableHead, MissingHead
  <2>2. CASE head' \in {head, durable}
    BY <1>3, <2>2 DEF Sound
  <2>3. QED
    BY <2>1, <2>2, PowerLeaves
<1>5. QED
  BY <1>2, <1>3, <1>4, PowerLeaves DEF Sound, Whole

\* ... and one that sets it back leaves it behind.
LEMMA PowerCounts ==
    ASSUME CountInv, Sound, NEW k \in KeySettings, PowerLoss(k)
    PROVE  Bounded' /\ Behind'
<1>1. PICK n : n = Len(ledger)
  OBVIOUS
<1>2. /\ n \in Nat /\ head.entries \in Nat /\ durable.entries \in Nat
  BY <1>1, CountTypes DEF CountInv
<1>3. UnreadableHead.entries = 0
  BY DEF UnreadableHead, MissingHead
<1>4. Whole => Below(n) /\ (Midway => Below(n - 1))
  BY <1>1 DEF CountInv, Bounded
<1>5. Whole => head'.entries <= n /\ durable'.entries <= n
  BY <1>2, <1>3, <1>4, PowerLeaves DEF Below
<1>6. ASSUME Whole, Ajar'
      PROVE  head'.entries <= n - 1
  <2>1. CASE Ajar
    <3>1. Below(n - 1)
      BY <1>1, <1>6, <2>1 DEF CountInv, Behind
    <3>2. QED
      BY <1>2, <1>3, <3>1, PowerLeaves DEF Below
  <2>2. CASE ~Ajar
    <3>1. NothingHeals /\ ~damaged /\ (head'.entries # head.entries \/ Midway)
      BY <1>6, <2>2, PowerLeaves DEF Ajar
    <3>2. CASE Midway
      BY <1>2, <1>3, <1>4, <1>6, <3>2, PowerLeaves DEF Below
    <3>3. CASE head'.entries # head.entries
      <4>1. durable.entries <= head.entries /\ head.entries <= n
        BY <1>4, <1>6, <3>1 DEF Sound, Below
      <4>2. head'.entries \in {durable.entries, 0}
        BY <1>3, <3>3, PowerLeaves
      <4>3. QED
        BY <1>2, <3>3, <4>1, <4>2
    <3>4. QED
      BY <3>1, <3>2, <3>3
  <2>3. QED
    BY <2>1, <2>2
<1>7. \A p \in Writers \cup Adopters : pc'[p] = "idle" /\ ~Counting(p)'
  BY PowerLeaves DEF Counting
<1>8. QED
  BY <1>1, <1>2, <1>5, <1>6, <1>7, PowerLeaves, SavedCounts

\* The lock keeps the sidecar as its holder found it.
LEMMA CountsOnStep ==
    ASSUME CountInv, [Next]_vars
    PROVE  CountsOn'
<1>1. TypeInv /\ Holder /\ \A w \in Writers : w \in Procs /\ w \notin Adopters
  BY LedgerAssumption DEF CountInv, Procs
<1>2. CASE LeavesDisk
  <2>1. head' = head
    BY <1>2 DEF LeavesDisk, disk
  <2>2. ASSUME NEW w \in Writers
        PROVE  /\ pc'[w] = "write" => seen'[w].entries \in {0, head.entries}
               /\ pc'[w] = "written" => seen'[w].entries \in {1, head.entries + 1}
    <3>1. CASE pc'[w] = pc[w] /\ seen'[w] = seen[w]
      BY <3>1 DEF CountInv, CountsOn
    <3>2. CASE ~(pc'[w] = pc[w] /\ seen'[w] = seen[w])
      BY <1>1, <1>2, <3>2 DEF LeavesDisk, Reads
    <3>3. QED
      BY <3>1, <3>2
  <2>3. QED
    BY <2>1, <2>2 DEF CountsOn
<1>3. ASSUME NEW w \in Writers, NEW e \in Events, WriteLine(w, e)
      PROVE  CountsOn'
  <2>1. Step(w, "write", "written") /\ Sees(w, NextHead(w, e)) /\ head' = head
    BY <1>3 DEF WriteLine, sidecar
  <2>2. /\ pc[w] = "write" /\ pc'[w] = "written"
        /\ seen'[w].entries = seen[w].entries + 1
        /\ \A q \in Procs : q # w => pc'[q] = pc[q] /\ seen'[q] = seen[q]
    BY <1>1, <2>1, OneMoves, OneSees DEF NextHead
  <2>3. seen'[w].entries \in {1, head.entries + 1}
    BY <2>2, CountTypes, <1>1 DEF CountInv, CountsOn
  <2>4. QED
    BY <1>1, <2>1, <2>2, <2>3 DEF CountInv, CountsOn
<1>4. ASSUME NEW w \in Writers, NEW e \in Events, Spills(w, e)
      PROVE  CountsOn'
  <2>1. /\ Sees(w, NoHead) /\ head' = head /\ \E from : Step(w, from, "idle")
    BY <1>4 DEF Spills, ShortWrite, CloseFlushes, Fail, sidecar
  <2>2. /\ pc'[w] = "idle"
        /\ \A q \in Procs : q # w => pc'[q] = pc[q] /\ seen'[q] = seen[q]
    BY <1>1, <2>1, OneMoves, OneSees
  <2>3. QED
    BY <1>1, <2>1, <2>2 DEF CountInv, CountsOn
<1>5. ASSUME \A w \in Writers : pc'[w] \notin {"write", "written"}
      PROVE  CountsOn'
  BY <1>5 DEF CountsOn
<1>6. ASSUME NEW w \in Writers, SaveHead(w)
      PROVE  CountsOn'
  <2>1. pc[w] = "written" /\ pc'[w] = "idle"
        /\ \A q \in Procs : q # w => pc'[q] = pc[q]
    BY <1>1, <1>6, OneMoves DEF SaveHead
  <2>2. \A u \in Writers : pc'[u] \notin {"write", "written"}
    BY <1>1, <2>1 DEF Holder
  <2>3. QED
    BY <1>5, <2>2
<1>7. ASSUME NEW a \in Adopters, AdoptSave(a)
      PROVE  CountsOn'
  <2>1. \A q \in Procs : q # a => pc'[q] = pc[q]
    BY <1>1, <1>7, OneMoves DEF AdoptSave, Procs
  <2>2. \A u \in Writers : pc'[u] \notin {"write", "written"}
    BY <1>1, <1>7, <2>1, LedgerAssumption DEF AdoptSave, LockFree, Holder
  <2>3. QED
    BY <1>5, <2>2
<1>8. ASSUME NEW k \in KeySettings, PowerLoss(k)
      PROVE  CountsOn'
  BY <1>5, <1>8, PowerLeaves
<1>9. QED
  BY <1>1, <1>2, <1>3, <1>4, <1>6, <1>7, <1>8, StepKinds

\* Without power losses the sidecar that was synced is never needed, nor set.
LEMMA NothingSavedStep ==
    ASSUME CountInv, [Next]_vars
    PROVE  NothingSaved'
<1>1. SUFFICES ASSUME "power" \notin DiskFaults PROVE durable' = durable
  BY DEF CountInv, NothingSaved
<1>2. ASSUME NEW w \in Writers, NEW e \in Events, WriteLine(w, e) \/ Spills(w, e)
      PROVE  durable' = durable
  BY <1>2 DEF WriteLine, Spills, ShortWrite, CloseFlushes, Fail, sidecar
<1>3. ASSUME NEW w \in Writers, SaveHead(w)
      PROVE  durable' = durable
  BY <1>1, <1>3 DEF SaveHead, Replace
<1>4. ASSUME NEW a \in Adopters, AdoptSave(a)
      PROVE  durable' = durable
  BY <1>1, <1>4 DEF AdoptSave, Replace
<1>5. ASSUME NEW k \in KeySettings, PowerLoss(k)
      PROVE  FALSE
  BY <1>1, <1>5 DEF PowerLoss
<1>6. QED
  BY <1>2, <1>3, <1>4, <1>5, StepKinds DEF CountInv, LeavesDisk, disk

VerifyInv == CountInv /\ Sound

\* A line that reaches the disk leaves the counts behind.
LEMMA WriteCounts ==
    ASSUME CountInv, NEW w \in Writers, NEW e \in Events,
           WriteLine(w, e) \/ Spills(w, e)
    PROVE  Bounded' /\ Behind'
<1>1. w \in Procs /\ Unchained \in Lines /\ Record(e, seen[w].head_hash) \in Lines
  BY CountTypes, RecordType DEF CountInv, Lines
<1>2. CASE WriteLine(w, e)
  <2>1. /\ Step(w, "write", "written") /\ Sees(w, NextHead(w, e))
        /\ ledger' = Written(Record(e, seen[w].head_hash)) /\ openTail' = FALSE
        /\ UNCHANGED <<head, durable, damaged>>
    BY <1>2 DEF WriteLine, sidecar, history
  <2>2. /\ pc[w] = "write" /\ pc'[w] = "written"
        /\ seen'[w].entries = seen[w].entries + 1
        /\ \A q \in Procs : q # w => pc'[q] = pc[q] /\ seen'[q] = seen[q]
    BY <1>1, <2>1, OneMoves, OneSees DEF NextHead, CountInv
  <2>3. Ajar' => Ajar
    BY <2>1 DEF Ajar
  <2>4. QED
    BY <1>1, <2>1, <2>2, <2>3, GrowCounts
<1>3. CASE Spills(w, e)
  <2>1. /\ \E from : Step(w, from, "idle")
        /\ Sees(w, NoHead) /\ UNCHANGED <<head, durable>>
        /\ \E line \in {Unchained, Record(e, seen[w].head_hash)} :
               ledger' = Written(line)
    BY <1>3 DEF Spills, ShortWrite, CloseFlushes, Fail, sidecar
  <2>2. pc'[w] = "idle"
        /\ \A q \in Procs : q # w => pc'[q] = pc[q] /\ seen'[q] = seen[q]
    BY <1>1, <2>1, OneMoves, OneSees DEF CountInv
  <2>3. QED
    BY <1>1, <2>1, <2>2, GrowCounts
<1>4. QED
  BY <1>2, <1>3

\* Every step keeps the counts behind and what is undamaged sound.
LEMMA NextVerify == VerifyInv /\ [Next]_vars => VerifyInv'
<1> SUFFICES ASSUME VerifyInv, [Next]_vars PROVE VerifyInv'
  OBVIOUS
<1>1. CountInv /\ Sound /\ TypeInv /\ Holder
  BY DEF VerifyInv, CountInv
<1>2. TypeInv' /\ Holder' /\ CountsOn' /\ NothingSaved'
  BY <1>1, NextTypes, HolderStep, CountsOnStep, NothingSavedStep
<1>3. Bounded' /\ Behind'
  BY <1>1, StepKinds, WriteCounts, SaveHeadCounts, AdoptCounts, PowerCounts,
     LeavesCounts
<1>4. ASSUME NEW w \in Writers, NEW e \in Events, Spills(w, e)
      PROVE  Sound'
  BY <1>4 DEF Spills, ShortWrite, CloseFlushes, Sound
<1>5. Sound'
  BY <1>1, <1>4, StepKinds, WriteSound, SaveHeadSound, AdoptSound, PowerSound,
     LeavesSound
<1>6. QED
  BY <1>2, <1>3, <1>5 DEF VerifyInv, CountInv

\* A new deployment is sound, or its ledger predates hash chaining.
LEMMA InitVerify == Init => VerifyInv
<1> SUFFICES ASSUME Init PROVE VerifyInv
  OBVIOUS
<1>1. TypeInv
  BY InitTypes
<1>2. /\ \A p \in Procs : pc[p] = "idle"
      /\ \A p \in Writers \cup Adopters : p \in Procs
      /\ head.entries = 0 /\ durable.entries = 0
      /\ head.head_hash = Genesis /\ durable.head_hash = Genesis
  BY DEF Init, MissingHead, Procs
<1>3. Holder /\ CountsOn /\ NothingSaved /\ ~Midway
  BY <1>2, LedgerAssumption DEF Init, Holder, CountsOn, NothingSaved, Midway
<1>4. ledger \in Seq(Lines) /\ Len(ledger) \in Nat
  BY <1>1, CountTypes
<1>5. Whole => ledger = <<>> /\ Len(ledger) = 0
  <2>1. CASE ledger = <<Unchained>>
    <3>1. Len(ledger) = 1 /\ ledger[1] = Unchained
      BY <2>1
    <3>2. ~Whole
      BY <3>1 DEF Whole, Linked, Links, Unchained
    <3>3. QED
      BY <3>2
  <2>2. CASE ledger = <<>>
    BY <2>2
  <2>3. QED
    BY <2>1, <2>2 DEF Init
<1>6. Bounded
  BY <1>2, <1>3, <1>5 DEF Bounded, Below, SavesBelow, Counting
<1>7. Behind
  BY <1>5 DEF Behind, Ajar, Init
<1>8. Sound
  <2>1. SUFFICES ASSUME ledger = <<>> PROVE Sound
    BY DEF Sound, Init
  <2>2. Whole /\ Len(ledger) = 0
    BY <2>1 DEF Whole, Linked
  <2>3. Vouched(ledger, Genesis, 0)
    BY <1>4, NoneVouched
  <2>4. QED
    BY <1>2, <1>3, <2>2, <2>3 DEF Sound, Init
<1>9. QED
  BY <1>1, <1>3, <1>6, <1>7, <1>8 DEF VerifyInv, CountInv

\* What the theorems about verification rest on.
LEMMA VerifyInvariant == Spec => []VerifyInv
  BY InitVerify, NextVerify, PTL DEF Spec

-----------------------------------------------------------------------------
(* The verdicts *)

\* While no append is under way, the walk of verify_chain passes exactly when the
\* ledger was never damaged, whatever the disk does to lines and sidecars.
THEOREM VerdictsAreExact ==
    ASSUME NothingHeals
    PROVE  Spec => []VerdictExact
<1>1. VerifyInv => VerdictExact
  <2>1. SUFFICES ASSUME VerifyInv, lock = Nobody
                 PROVE  WalkChain(ledger, head).ok <=> ~damaged
    BY DEF VerdictExact
  <2>2. /\ ~Midway
        /\ Len(ledger) \in Nat /\ head.entries \in Nat /\ damaged \in BOOLEAN
    BY <2>1, LedgerAssumption, CountTypes
       DEF VerifyInv, CountInv, Holder, Midway, TypeInv, TypeOK
  <2>3. CASE ~damaged
    <3>1. /\ Linked(ledger, Len(ledger)) /\ head.entries = Len(ledger)
          /\ head.head_hash = HashAt(ledger, Len(ledger))
      BY <2>1, <2>2, <2>3 DEF VerifyInv, Sound, Whole, Vouched
    <3>2. QED
      BY <2>3, <3>1 DEF WalkChain
  <2>4. CASE damaged
    <3>1. Whole => head.entries <= Len(ledger) - 1
      BY <2>1, <2>4 DEF VerifyInv, CountInv, Behind, Ajar, Below
    <3>2. ~(Whole /\ head.entries = Len(ledger))
      BY <2>2, <3>1
    <3>3. QED
      BY <2>4, <3>2 DEF WalkChain, Whole
  <2>5. QED
    BY <2>2, <2>3, <2>4
<1>2. QED
  BY <1>1, VerifyInvariant, PTL

\* What a verification that began on a damaged ledger comes to: its walk fails.
FoulTells ==
    \A v \in Verifiers : foul[v] =>
        /\ verdict[v] # "ok"
        /\ pc[v] # "anchor"
        /\ pc[v] \in {"load", "walk"} => damaged
        /\ pc[v] = "walk" /\ Whole => seen[v].entries <= Len(ledger) - 1

\* What one that no append overlaps works from: the head of the ledger.
CalmTells ==
    \A v \in Verifiers : ~damaged /\ calm[v] =>
        /\ pc[v] \in {"load", "walk"} => ~Midway
        /\ pc[v] = "walk" =>
               /\ seen[v].entries = Len(ledger)
               /\ seen[v].head_hash = HashAt(ledger, Len(ledger))

\* The ledger only grows, what does not link stays, and so does damage.
LEMMA DamageStays ==
    ASSUME VerifyInv, [Next]_vars
    PROVE  /\ damaged => damaged'
           /\ Whole' => Whole /\ Len(ledger) <= Len(ledger')
<1>1. TypeInv /\ Holder /\ Len(ledger) \in Nat /\ ledger \in Seq(Lines)
      /\ damaged \in BOOLEAN
  BY CountTypes DEF VerifyInv, CountInv, TypeInv, TypeOK
<1>2. ASSUME NEW w \in Writers, NEW e \in Events, WriteLine(w, e) \/ Spills(w, e)
      PROVE  /\ damaged => damaged'
             /\ Whole' => Whole /\ Len(ledger) <= Len(ledger')
  <2>1. damaged => damaged'
    BY <1>2 DEF WriteLine, Spills, ShortWrite, CloseFlushes, history
  <2>2. PICK line \in Lines : ledger' = Written(line)
    <3>1. Unchained \in Lines /\ Record(e, seen[w].head_hash) \in Lines
      BY <1>1, CountTypes, RecordType DEF Lines
    <3>2. QED
      BY <1>2, <3>1 DEF WriteLine, Spills, ShortWrite, CloseFlushes
  <2>3. Whole' => Whole /\ ledger' = Append(ledger, line)
    BY <1>1, <2>2, WritesWhole
  <2>4. QED
    BY <1>1, <2>1, <2>3, AppendProperties
<1>3. ASSUME NEW w \in Writers, SaveHead(w)
      PROVE  (damaged => damaged') /\ ledger' = ledger
  BY <1>3 DEF SaveHead
<1>4. ASSUME NEW a \in Adopters, AdoptSave(a)
      PROVE  (damaged => damaged') /\ ledger' = ledger
  BY <1>4 DEF AdoptSave
<1>5. ASSUME NEW k \in KeySettings, PowerLoss(k)
      PROVE  (damaged => damaged') /\ ledger' = ledger
  BY <1>5 DEF PowerLoss, Reboot
<1>6. LeavesDisk => (damaged => damaged') /\ ledger' = ledger
  BY DEF LeavesDisk, disk
<1>7. ledger' = ledger => (Whole' => Whole /\ Len(ledger) <= Len(ledger'))
  BY <1>1 DEF Whole
<1>8. QED
  BY <1>1, <1>2, <1>3, <1>4, <1>5, <1>6, <1>7, StepKinds

\* A verifier takes a step of its own, or keeps what it has, or is rebooted.
LEMMA VerifierMoves ==
    ASSUME TypeInv, NEW v \in Verifiers, [Next]_vars
    PROVE  \/ VerifyStart(v) \/ WalkLoadsHead(v) \/ WalkLoadsNothing(v)
           \/ VerifyWalkPasses(v) \/ VerifyWalkFails(v) \/ VerifyAnchor(v)
           \/ /\ foul'[v] = foul[v] /\ (calm'[v] => calm[v])
              /\ \/ pc'[v] = pc[v] /\ seen'[v] = seen[v] /\ verdict'[v] = verdict[v]
                 \/ pc'[v] = "idle" /\ verdict'[v] = "none"
<1> USE DEF disk, sidecar, history, verification
<1> DEFINE Keeps == /\ foul'[v] = foul[v] /\ (calm'[v] => calm[v])
                    /\ pc'[v] = pc[v] /\ seen'[v] = seen[v]
                    /\ verdict'[v] = verdict[v]
<1>1. /\ v \in Procs /\ \A p \in Writers \cup Adopters : p \in Procs /\ p # v
  BY LedgerAssumption DEF Procs
<1>2. ASSUME NEW p \in Procs, p # v, NEW from, NEW to, Step(p, from, to),
             seen' = seen \/ \E h : Sees(p, h),
             verdict' = verdict, foul' = foul,
             \/ calm' = calm \/ calm' = [u \in Verifiers |-> FALSE]
             \/ calm' = [u \in Verifiers |-> calm[u] /\ u # p]
      PROVE  Keeps
  <2>1. pc'[v] = pc[v]
    BY <1>1, <1>2, OneMoves
  <2>2. seen'[v] = seen[v]
    BY <1>1, <1>2, OneSees
  <2>3. QED
    BY <1>2, <2>1, <2>2
<1>3. ASSUME NEW w \in Writers, WriterNext(w)
      PROVE  Keeps
  <2>1. w \in Procs /\ w # v
    BY <1>1
  <2>2. CASE Request(w) \/ Acquire(w) \/ Refuse(w) \/ AcquireUnread(w)
    BY <1>2, <2>1, <2>2 DEF Request, Acquire, Refuse, AcquireUnread
  <2>3. CASE \E e \in Events : WriteLine(w, e) \/ CloseFlushes(w, e)
    BY <1>2, <2>1, <2>3 DEF WriteLine, CloseFlushes
  <2>4. CASE SaveHead(w) \/ CloseFails(w)
    BY <1>2, <2>1, <2>4 DEF SaveHead, CloseFails
  <2>5. CASE AppendFails(w)
    BY <1>2, <2>1, <2>5
       DEF AppendFails, RefuseUnread, FailBeforeWrite, FailAfterWrite, FlushFails,
           ShortWrite, Fail
  <2>6. QED
    BY <1>3, <2>2, <2>3, <2>4, <2>5 DEF WriterNext, AppendStep
<1>4. ASSUME NEW a \in Adopters, AdopterNext(a)
      PROVE  Keeps
  <2>1. a \in Procs /\ a # v
    BY <1>1
  <2>2. QED
    BY <1>2, <1>4, <2>1
       DEF AdopterNext, AdoptCheck, WalkLoadsHead, WalkLoadsNothing, AdoptWalk,
           AdoptRefuses, AdoptSave
<1>5. ASSUME NEW u \in Verifiers, u # v, VerifierNext(u)
      PROVE  Keeps
  <2>1. /\ \E from, to : Step(u, from, to)
        /\ seen' = seen \/ \E h : Sees(u, h)
    BY <1>5
       DEF VerifierNext, VerifyStart, WalkLoadsHead, WalkLoadsNothing,
           VerifyWalkPasses, VerifyWalkFails, VerifyAnchor, Conclude
  <2>2. pc'[v] = pc[v] /\ seen'[v] = seen[v]
    BY <1>1, <1>5, <2>1, OneMoves, OneSees DEF Procs
  <2>3. foul'[v] = foul[v] /\ (calm'[v] => calm[v]) /\ verdict'[v] = verdict[v]
    BY <1>5
       DEF VerifierNext, VerifyStart, WalkLoadsHead, WalkLoadsNothing,
           VerifyWalkPasses, VerifyWalkFails, VerifyAnchor, Conclude, TypeInv, TypeOK
  <2>4. QED
    BY <2>2, <2>3
<1>6. ASSUME NEW k \in KeySettings, Restart(k) \/ PowerLoss(k)
      PROVE  /\ foul'[v] = foul[v] /\ calm'[v] = calm[v]
             /\ pc'[v] = "idle" /\ verdict'[v] = "none"
  BY <1>1, <1>6 DEF Restart, PowerLoss, Reboot
<1>7. CASE UNCHANGED vars
  BY <1>7 DEF vars
<1>8. QED
  BY <1>3, <1>4, <1>5, <1>6, <1>7 DEF Next, VerifierNext

\* What holds of a verification keeps holding while it runs.
LEMMA FoulStep ==
    ASSUME NothingHeals
    PROVE  VerifyInv /\ FoulTells /\ [Next]_vars => FoulTells'
<1> SUFFICES ASSUME VerifyInv, FoulTells, [Next]_vars,
                    NEW v \in Verifiers, foul'[v]
             PROVE  /\ verdict'[v] # "ok"
                    /\ pc'[v] # "anchor"
                    /\ pc'[v] \in {"load", "walk"} => damaged'
                    /\ pc'[v] = "walk" /\ Whole' =>
                           seen'[v].entries <= Len(ledger') - 1
  BY DEF FoulTells
<1>1. /\ TypeInv /\ v \in Procs /\ Len(ledger) \in Nat /\ head.entries \in Nat
      /\ seen[v].entries \in Nat
      /\ verdict \in [Verifiers -> {"none", "ok", "bad"}]
      /\ foul \in [Verifiers -> BOOLEAN]
  BY CountTypes DEF VerifyInv, CountInv, TypeInv, TypeOK
<1>1a. TypeInv'
  BY <1>1, NextTypes
<1>2. /\ damaged => damaged'
      /\ Whole' => Whole /\ Len(ledger) <= Len(ledger')
      /\ Len(ledger') \in Nat
  BY <1>1a, DamageStays, LenProperties DEF TypeInv, TypeOK
<1>3. damaged => (Whole => head.entries <= Len(ledger) - 1)
  BY DEF VerifyInv, CountInv, Behind, Ajar, Below
<1>4. CASE VerifyStart(v)
  <2>1. /\ pc'[v] = "load" /\ verdict'[v] = "none"
        /\ foul' = [foul EXCEPT ![v] = damaged] /\ damaged' = damaged
    BY <1>1, <1>4, OneMoves DEF VerifyStart, history
  <2>2. damaged'
    BY <1>1, <2>1
  <2>3. QED
    BY <2>1, <2>2
<1>5. CASE WalkLoadsHead(v)
  <2>1. /\ pc[v] = "load" /\ pc'[v] = "walk"
        /\ seen'[v].entries = head.entries
        /\ UNCHANGED <<ledger, verdict, foul, damaged>>
    BY <1>1, <1>5, OneMoves, OneSees
       DEF WalkLoadsHead, disk, history, verification
  <2>2. damaged /\ verdict[v] # "ok"
    BY <2>1 DEF FoulTells
  <2>3. QED
    BY <1>2, <1>3, <2>1, <2>2
<1>5a. CASE WalkLoadsNothing(v)
  <2>1. /\ pc[v] = "load" /\ pc'[v] = "walk" /\ seen'[v].entries = 0
        /\ UNCHANGED <<ledger, verdict, foul, damaged>>
    BY <1>1, <1>5a, OneMoves, OneSees
       DEF WalkLoadsNothing, NoHead, disk, history, verification
  <2>2. damaged /\ verdict[v] # "ok"
    BY <2>1 DEF FoulTells
  <2>3. Whole => 0 <= Len(ledger) - 1
    BY <1>1, <1>3, <2>2
  <2>4. QED
    BY <1>2, <2>1, <2>2, <2>3
<1>6. CASE VerifyWalkPasses(v)
  <2>1. /\ pc[v] = "walk" /\ foul[v] /\ WalkChain(ledger, seen[v]).ok
    BY <1>6 DEF VerifyWalkPasses, Step, verification
  <2>2. Whole /\ seen[v].entries = Len(ledger)
    BY <2>1 DEF WalkChain, Whole
  <2>3. QED
    BY <1>1, <2>1, <2>2 DEF FoulTells
<1>7. CASE VerifyWalkFails(v)
  <2>1. pc'[v] = "idle" /\ verdict'[v] = "bad"
    BY <1>1, <1>7, OneMoves DEF VerifyWalkFails, Conclude
  <2>2. QED
    BY <2>1
<1>8. CASE VerifyAnchor(v)
  <2>1. pc[v] = "anchor" /\ foul[v]
    BY <1>8 DEF VerifyAnchor, Conclude, Step
  <2>2. QED
    BY <2>1 DEF FoulTells
<1>9. CASE /\ foul'[v] = foul[v]
           /\ pc'[v] = pc[v] /\ seen'[v] = seen[v] /\ verdict'[v] = verdict[v]
  BY <1>1, <1>2, <1>9 DEF FoulTells
<1>10. CASE pc'[v] = "idle" /\ verdict'[v] = "none"
  BY <1>10
<1>11. QED
  BY <1>1, <1>4, <1>5, <1>5a, <1>6, <1>7, <1>8, <1>9, <1>10, VerifierMoves

\* A verification that answers ok did not begin on a damaged ledger, although it
\* reads sidecar, lines and sidecar again without the lock.
THEOREM OkVerdictsAreTrusted ==
    ASSUME NothingHeals
    PROVE  Spec => []OkIsTrusted
<1>1. Init => FoulTells
  BY DEF Init, FoulTells
<1>2. VerifyInv /\ FoulTells /\ [Next]_vars => FoulTells'
  BY FoulStep
<1>3. FoulTells => OkIsTrusted
  BY DEF FoulTells, OkIsTrusted
<1>4. QED
  BY <1>1, <1>2, <1>3, VerifyInvariant, PTL DEF Spec

\* As long as no append overlaps it, it could read the sidecar and nothing is
\* damaged, a verification works from the head of the ledger it will walk.
LEMMA CalmStep == VerifyInv /\ CalmTells /\ [Next]_vars => CalmTells'
<1> SUFFICES ASSUME VerifyInv, CalmTells, [Next]_vars,
                    NEW v \in Verifiers, ~damaged', calm'[v]
             PROVE  /\ pc'[v] \in {"load", "walk"} => ~Midway'
                    /\ pc'[v] = "walk" =>
                           /\ seen'[v].entries = Len(ledger')
                           /\ seen'[v].head_hash = HashAt(ledger', Len(ledger'))
  BY DEF CalmTells
<1>1. /\ TypeInv /\ Holder /\ v \in Procs
      /\ calm \in [Verifiers -> BOOLEAN]
      /\ ~damaged
  BY CountTypes, DamageStays DEF VerifyInv, CountInv, TypeInv, TypeOK
<1>2. ASSUME NEW w \in Writers, NEW e \in Events, WriteLine(w, e) \/ Spills(w, e)
      PROVE  FALSE
  BY <1>2 DEF WriteLine, Spills, ShortWrite, CloseFlushes
<1>3. ledger' = ledger
  <2>1. /\ \A w \in Writers : SaveHead(w) => ledger' = ledger
        /\ \A a \in Adopters : AdoptSave(a) => ledger' = ledger
        /\ \A k \in KeySettings : PowerLoss(k) => ledger' = ledger
        /\ LeavesDisk => ledger' = ledger
    BY DEF SaveHead, AdoptSave, PowerLoss, Reboot, LeavesDisk, disk
  <2>2. QED
    BY <1>1, <1>2, <2>1, StepKinds
<1>4. ~Midway => ~Midway'
  <2>1. ASSUME NEW w \in Writers, SaveHead(w), ~Midway
        PROVE  FALSE
    BY <2>1 DEF SaveHead, Step, Midway
  <2>2. ASSUME NEW a \in Adopters, AdoptSave(a), ~Midway
        PROVE  ~Midway'
    <3>1. \A w \in Writers : w \in Procs /\ w # a
      BY LedgerAssumption DEF Procs
    <3>2. \A w \in Writers : pc'[w] = pc[w]
      BY <1>1, <2>2, <3>1, OneMoves DEF AdoptSave, Procs
    <3>3. QED
      BY <2>2, <3>2 DEF Midway
  <2>3. ASSUME NEW k \in KeySettings, PowerLoss(k)
        PROVE  ~Midway'
    BY <2>3, PowerLeaves DEF VerifyInv
  <2>4. LeavesDisk /\ ~Midway => ~Midway'
    BY DEF LeavesDisk
  <2>5. QED
    BY <1>1, <1>2, <2>1, <2>2, <2>3, <2>4, StepKinds
<1>5. CASE VerifyStart(v)
  <2>1. pc'[v] = "load" /\ calm' = [calm EXCEPT ![v] = \A w \in Writers : pc[w] # "written"]
    BY <1>1, <1>5, OneMoves DEF VerifyStart
  <2>2. ~Midway
    BY <1>1, <2>1 DEF Midway
  <2>3. QED
    BY <1>4, <2>1, <2>2
<1>6. CASE WalkLoadsHead(v)
  <2>1. /\ pc[v] = "load" /\ pc'[v] = "walk" /\ calm[v]
        /\ seen'[v] = [head_hash |-> head.head_hash, entries |-> head.entries]
    BY <1>1, <1>6, OneMoves, OneSees DEF WalkLoadsHead, verification
  <2>2. ~Midway
    BY <1>1, <2>1 DEF CalmTells
  <2>3. /\ head.entries = Len(ledger)
        /\ head.head_hash = HashAt(ledger, Len(ledger))
    BY <1>1, <2>2 DEF VerifyInv, Sound, Vouched
  <2>4. QED
    BY <1>3, <1>4, <2>1, <2>2, <2>3
<1>6a. CASE WalkLoadsNothing(v)
  <2>1. calm' = [u \in Verifiers |-> calm[u] /\ u # v]
    BY <1>6a DEF WalkLoadsNothing
  <2>2. QED
    BY <2>1
<1>7. CASE VerifyWalkPasses(v) \/ VerifyWalkFails(v) \/ VerifyAnchor(v)
  <2>1. \E from, to : Step(v, from, to) /\ to \in {"anchor", "idle"}
    BY <1>7 DEF VerifyWalkPasses, VerifyWalkFails, VerifyAnchor
  <2>2. pc'[v] \notin {"load", "walk"}
    BY <1>1, <2>1, OneMoves
  <2>3. QED
    BY <2>2
<1>8. CASE /\ calm'[v] => calm[v]
           /\ pc'[v] = pc[v] /\ seen'[v] = seen[v]
  BY <1>1, <1>3, <1>4, <1>8 DEF CalmTells
<1>9. CASE pc'[v] = "idle"
  BY <1>9
<1>10. QED
  BY <1>1, <1>5, <1>6, <1>6a, <1>7, <1>8, <1>9, VerifierMoves

\* A verification reports a broken chain only where the ledger is damaged, an
\* append overlapped it, or its walk could not read the sidecar; there is no other
\* way, whatever the disk does.
THEOREM NoFalseAlarms == Spec => NoFalseAlarm
<1> DEFINE P == \A v \in Verifiers : VerifyWalkFails(v) => damaged \/ ~calm[v]
<1>1. Init => CalmTells
  BY DEF Init, CalmTells
<1>2. VerifyInv /\ CalmTells /\ [Next]_vars => CalmTells'
  BY CalmStep
<1>3. VerifyInv /\ CalmTells => P
  <2>1. SUFFICES ASSUME VerifyInv, CalmTells, NEW v \in Verifiers,
                        VerifyWalkFails(v), ~damaged, calm[v]
                 PROVE  FALSE
    BY DEF TypeInv, TypeOK
  <2>2. /\ pc[v] = "walk" /\ ~WalkChain(ledger, seen[v]).ok
    BY <2>1 DEF VerifyWalkFails, Step
  <2>3. /\ Linked(ledger, Len(ledger)) /\ seen[v].entries = Len(ledger)
        /\ seen[v].head_hash = HashAt(ledger, Len(ledger))
    BY <2>1, <2>2 DEF CalmTells, VerifyInv, Sound, Whole
  <2>4. QED
    BY <2>2, <2>3 DEF WalkChain
<1>4. Spec => [][P]_vars
  <2>1. VerifyInv /\ CalmTells /\ [Next]_vars => [P]_vars
    BY <1>3
  <2>2. QED
    BY <1>1, <1>2, <2>1, VerifyInvariant, PTL DEF Spec
<1>5. QED
  BY <1>4 DEF NoFalseAlarm

-----------------------------------------------------------------------------
(* A hash commits to all the lines before it *)

\* The hash of line n is the contents of the first n lines.
Commits(lines, n) ==
    /\ HashAt(lines, n) \in Seq(Events)
    /\ Len(HashAt(lines, n)) = n
    /\ \A i \in 1..n : HashAt(lines, n)[i] = lines[i].content

\* Records with the same content and the same hashes are the same.
LEMMA SameRecord ==
    ASSUME NEW a \in ChainedLines, NEW b \in ChainedLines,
           a.content = b.content, a.prev_hash = b.prev_hash,
           a.record_hash = b.record_hash
    PROVE  a = b
<1>1. a = [chained |-> a.chained, content |-> a.content,
           prev_hash |-> a.prev_hash, record_hash |-> a.record_hash]
  BY DEF ChainedLines
<1>2. b = [chained |-> b.chained, content |-> b.content,
           prev_hash |-> b.prev_hash, record_hash |-> b.record_hash]
  BY DEF ChainedLines
<1>3. a.chained = TRUE /\ b.chained = TRUE
  BY DEF ChainedLines
<1>4. QED
  BY <1>1, <1>2, <1>3

\* A line of a linked prefix is a record.
LEMMA LinkedLine ==
    ASSUME NEW lines \in Seq(Lines), NEW n \in 0..Len(lines), Linked(lines, n),
           NEW i \in 1..n
    PROVE  lines[i] \in ChainedLines /\ Links(lines, i)
<1>1. Links(lines, i) /\ i \in 1..Len(lines)
  BY LenProperties DEF Linked
<1>2. lines[i] \in Lines
  BY <1>1, ElementOfSeq
<1>3. QED
  BY <1>1, <1>2 DEF Lines, Links, Unchained

\* What links commits to everything before it.
LEMMA LinkedCommits ==
    ASSUME NEW lines \in Seq(Lines), NEW n \in 0..Len(lines), Linked(lines, n)
    PROVE  \A m \in 0..n : Commits(lines, m)
<1> DEFINE Bad == {m \in 0..n : ~Commits(lines, m)}
<1>1. SUFFICES ASSUME Bad # {} PROVE FALSE
  OBVIOUS
<1>2. n \in Nat /\ Bad \in SUBSET Nat
  BY LenProperties
<1>3. PICK k \in Bad : \A m \in Bad : k <= m
  BY <1>1, <1>2, LeastNumber
<1>4. CASE k = 0
  <2>1. HashAt(lines, 0) = <<>>
    BY DEF HashAt, Genesis
  <2>2. <<>> \in Seq(Events) /\ Len(<<>>) = 0
    BY EmptySeq
  <2>3. Commits(lines, 0)
    <3>1. \A i \in 1..0 : FALSE
      OBVIOUS
    <3>2. /\ HashAt(lines, 0) \in Seq(Events)
          /\ Len(HashAt(lines, 0)) = 0
      BY <2>1, <2>2
    <3>3. QED
      BY <3>1, <3>2 DEF Commits
  <2>4. QED
    BY <1>3, <1>4, <2>3
<1>5. CASE k # 0
  <2> DEFINE h == HashAt(lines, k - 1)
             c == lines[k].content
  <2>1. k \in 1..n /\ k - 1 \in 0..n /\ k - 1 \notin Bad
    BY <1>2, <1>3, <1>5
  <2>2. Commits(lines, k - 1)
    BY <2>1
  <2>3. lines[k] \in ChainedLines /\ Links(lines, k)
    BY <2>1, LinkedLine
  <2>4. c \in Events /\ HashAt(lines, k) = Append(h, c)
    BY <1>5, <2>3 DEF ChainedLines, Links, HashAt, RecordHash
  <2>5. h \in Seq(Events) /\ Len(h) = k - 1
        /\ \A i \in 1..(k - 1) : h[i] = lines[i].content
    BY <2>2 DEF Commits
  <2>6. /\ Append(h, c) \in Seq(Events) /\ Len(Append(h, c)) = k
        /\ \A i \in 1..(k - 1) : Append(h, c)[i] = lines[i].content
        /\ Append(h, c)[k] = c
    BY <2>1, <2>4, <2>5, AppendProperties
  <2>7. \A i \in 1..k : i \in 1..(k - 1) \/ i = k
    BY <2>1
  <2>8. Commits(lines, k)
    BY <2>4, <2>6, <2>7 DEF Commits
  <2>9. QED
    BY <1>3, <2>8
<1>6. QED
  BY <1>4, <1>5

\* So two ledgers that link and end in the same hash are the same.
LEMMA LinkedUnique ==
    ASSUME NEW lines \in Seq(Lines), NEW others \in Seq(Lines),
           Linked(lines, Len(lines)), Linked(others, Len(others)),
           HashAt(lines, Len(lines)) = HashAt(others, Len(others))
    PROVE  lines = others
<1>1. Len(lines) \in Nat /\ Len(others) \in Nat
  BY LenProperties
<1>2. \A m \in 0..Len(lines) : Commits(lines, m)
  BY <1>1, LinkedCommits
<1>3. \A m \in 0..Len(others) : Commits(others, m)
  BY <1>1, LinkedCommits
<1>4. Len(others) = Len(lines)
  <2>1. Commits(lines, Len(lines)) /\ Commits(others, Len(others))
    BY <1>1, <1>2, <1>3
  <2>2. QED
    BY <2>1 DEF Commits
<1>5. PICK n : n = Len(lines)
  OBVIOUS
<1>6. \A i \in 1..n : lines[i].content = others[i].content
  <2>1. Commits(lines, n) /\ Commits(others, n)
    BY <1>1, <1>2, <1>3, <1>4, <1>5
  <2>2. HashAt(lines, n) = HashAt(others, n)
    BY <1>4, <1>5
  <2>3. QED
    BY <2>1, <2>2 DEF Commits
<1>7. ASSUME NEW m \in 0..n
      PROVE  HashAt(lines, m) = HashAt(others, m)
  <2>1. Commits(lines, m) /\ Commits(others, m)
    BY <1>2, <1>3, <1>4, <1>5
  <2>2. \A i \in 1..m : HashAt(lines, m)[i] = HashAt(others, m)[i]
    BY <1>1, <1>5, <1>6, <2>1 DEF Commits
  <2>3. QED
    BY <2>1, <2>2, SeqEqual DEF Commits
<1>8. ASSUME NEW i \in 1..n
      PROVE  lines[i] = others[i]
  <2>1. /\ lines[i] \in ChainedLines /\ Links(lines, i)
        /\ others[i] \in ChainedLines /\ Links(others, i)
    BY <1>1, <1>4, <1>5, LinkedLine
  <2>2. i \in 0..n /\ i - 1 \in 0..n /\ i # 0
    BY <1>1, <1>5
  <2>3. lines[i].prev_hash = others[i].prev_hash
    BY <1>7, <2>1, <2>2 DEF Links
  <2>4. lines[i].record_hash = others[i].record_hash
    BY <1>7, <2>2 DEF HashAt
  <2>5. lines[i].content = others[i].content
    BY <1>6
  <2>6. QED
    BY <2>1, <2>3, <2>4, <2>5, SameRecord
<1>9. QED
  BY <1>1, <1>4, <1>5, <1>8, SeqEqual

-----------------------------------------------------------------------------
(* What someone may make of the lines of a ledger is a ledger *)

\* What a new record says of itself.
LEMMA RecordIs ==
    ASSUME NEW line, NEW e, NEW h, line = Record(e, h)
    PROVE  /\ line.chained /\ line.content = e /\ line.prev_hash = h
           /\ line.record_hash = RecordHash(e, h)
  BY DEF Record

\* The chain append_audit would have written for other events.
LEMMA ChainIs ==
    ASSUME NEW events \in Seq(Events)
    PROVE  /\ Chain(events) \in Seq(Lines)
           /\ Len(Chain(events)) = Len(events)
           /\ Linked(Chain(events), Len(events))
<1> DEFINE n == Len(events)
           chain == Chain(events)
           before(i) == SubSeq(events, 1, i - 1)
<1>1. n \in Nat /\ DOMAIN events = 1..n
  BY LenProperties
<1>2. \A i \in 1..n : events[i] \in Events
  BY ElementOfSeq
<1>3. ASSUME NEW i \in 1..(n + 1)
      PROVE  /\ before(i) \in Seq(Events) /\ Len(before(i)) = i - 1
             /\ \A j \in 1..(i - 1) : before(i)[j] = events[j]
  <2>1. i - 1 \in Int /\ 1 \in Int /\ \A j \in 1..(i - 1) : events[j] \in Events
    BY <1>1, <1>2
  <2>2. /\ before(i) \in Seq(Events)
        /\ Len(before(i)) = IF 1 <= i - 1 THEN i - 1 - 1 + 1 ELSE 0
        /\ \A j \in 1..(i - 1 - 1 + 1) : before(i)[j] = events[1 + j - 1]
    BY <2>1, SubSeqProperties
  <2>3. QED
    BY <1>1, <2>2
<1>4. \A i \in 1..n : chain[i] = Record(events[i], before(i))
  BY <1>1 DEF Chain
<1>5. ASSUME NEW i \in 1..n
      PROVE  Record(events[i], before(i)) \in Lines
  <2>1. i \in 1..(n + 1)
    BY <1>1
  <2>2. before(i) \in Hashes /\ events[i] \in Events
    BY <1>2, <1>3, <2>1 DEF Hashes
  <2> HIDE DEF before
  <2>3. QED
    BY <2>2, RecordType
<1>6. chain \in [1..n -> Lines]
  BY <1>1, <1>5 DEF Chain
<1>7. chain \in Seq(Lines) /\ Len(chain) = n
  <2>1. chain \in Seq(Lines)
    BY <1>1, <1>6, SeqDef
  <2>2. DOMAIN chain = 1..n /\ DOMAIN chain = 1..Len(chain) /\ Len(chain) \in Nat
    BY <1>6, <2>1, LenProperties
  <2>3. QED
    BY <1>1, <2>1, <2>2
<1> HIDE DEF chain, before
<1>8. ASSUME NEW i \in 1..n
      PROVE  Links(chain, i)
  <2>1. /\ chain[i].chained /\ chain[i].content = events[i]
        /\ chain[i].prev_hash = before(i)
        /\ chain[i].record_hash = RecordHash(events[i], before(i))
    BY <1>4, RecordIs
  <2>2. before(i) = HashAt(chain, i - 1)
    <3>1. CASE i = 1
      <4>1. Len(before(i)) = 0 /\ before(i) \in Seq(Events)
        BY <1>1, <1>3, <3>1
      <4>2. before(i) = <<>>
        BY <4>1, EmptySeq
      <4>3. QED
        BY <3>1, <4>2 DEF HashAt, Genesis
    <3>2. CASE i # 1
      <4>1. i - 1 \in 1..n /\ i - 1 \in 1..(n + 1) /\ i \in 1..(n + 1)
        BY <1>1, <3>2
      <4>2. HashAt(chain, i - 1) = Append(before(i - 1), events[i - 1])
        <5>1. chain[i - 1] = Record(events[i - 1], before(i - 1))
          BY <1>4, <4>1
        <5>2. chain[i - 1].record_hash = RecordHash(events[i - 1], before(i - 1))
          BY <5>1, RecordIs
        <5>3. i - 1 # 0
          BY <1>1, <4>1
        <5>4. QED
          BY <5>2, <5>3 DEF HashAt, RecordHash
      <4>3. PICK s : s = Append(before(i - 1), events[i - 1])
        OBVIOUS
      <4>4. PICK b : b = before(i - 1)
        OBVIOUS
      <4>5. /\ b \in Seq(Events) /\ Len(b) = i - 2
            /\ \A j \in 1..(i - 2) : b[j] = events[j]
        <5>1. /\ before(i - 1) \in Seq(Events) /\ Len(before(i - 1)) = i - 1 - 1
              /\ \A j \in 1..(i - 1 - 1) : before(i - 1)[j] = events[j]
          BY <1>3, <4>1
        <5>2. i - 1 - 1 = i - 2
          BY <1>1
        <5>3. QED
          BY <4>4, <5>1, <5>2
      <4>6. /\ s \in Seq(Events) /\ Len(s) = i - 1
            /\ \A j \in 1..(i - 2) : s[j] = events[j]
            /\ s[i - 1] = events[i - 1]
        BY <1>1, <1>2, <4>1, <4>3, <4>4, <4>5, AppendProperties
      <4>7. \A j \in 1..(i - 1) : s[j] = events[j]
        BY <1>1, <4>1, <4>6
      <4>8. s = before(i)
        BY <1>3, <4>1, <4>6, <4>7, SeqEqual
      <4>9. QED
        BY <4>2, <4>3, <4>8
    <3>3. QED
      BY <3>1, <3>2
  <2>3. QED
    BY <2>1, <2>2 DEF Links
<1>9. QED
  BY <1>7, <1>8 DEF Linked, chain

\* Every ledger one edit away from a chained one is a ledger.
LEMMA ChangedAreLedgers ==
    ASSUME NEW lines \in Seq(Lines), \A i \in 1..Len(lines) : lines[i] \in ChainedLines
    PROVE  Changed(lines) \subseteq Seq(Lines)
<1>1. /\ Len(lines) \in Nat /\ DOMAIN lines = 1..Len(lines)
      /\ \A i \in 1..Len(lines) : lines[i] \in Lines
  BY LenProperties, ElementOfSeq
<1>2. ASSUME NEW m \in Int, NEW n \in Int, 1 <= m, n <= Len(lines)
      PROVE  SubSeq(lines, m, n) \in Seq(Lines)
  <2>1. \A i \in m..n : lines[i] \in Lines
    BY <1>1, <1>2
  <2>2. QED
    BY <2>1, SubSeqProperties
<1>3. Truncated(lines) \subseteq Seq(Lines)
  BY <1>1, <1>2 DEF Truncated
<1>4. Deleted(lines) \subseteq Seq(Lines)
  <2>1. ASSUME NEW i \in 1..Len(lines)
        PROVE  RemoveAt(lines, i) \in Seq(Lines)
    <3>1. SubSeq(lines, 1, i - 1) \in Seq(Lines)
      BY <1>1, <1>2
    <3>2. SubSeq(lines, i + 1, Len(lines)) \in Seq(Lines)
      BY <1>1, <1>2
    <3>3. QED
      BY <3>1, <3>2, ConcatProperties DEF RemoveAt
  <2>2. QED
    BY <1>1, <2>1 DEF Deleted
<1>5. ASSUME NEW some \in Seq(Lines), Len(some) = Len(lines),
             NEW i \in 1..Len(lines), NEW line \in Lines
      PROVE  /\ [some EXCEPT ![i] = line] \in Seq(Lines)
             /\ Len([some EXCEPT ![i] = line]) = Len(lines)
  BY <1>5, ExceptSeq
<1>6. Swapped(lines) \subseteq Seq(Lines)
  <2>1. ASSUME NEW i \in 1..Len(lines), NEW j \in 1..Len(lines)
        PROVE  [lines EXCEPT ![i] = lines[j], ![j] = lines[i]] \in Seq(Lines)
    <3>1. /\ [lines EXCEPT ![i] = lines[j]] \in Seq(Lines)
          /\ Len([lines EXCEPT ![i] = lines[j]]) = Len(lines)
      BY <1>1, <1>5
    <3>2. [[lines EXCEPT ![i] = lines[j]] EXCEPT ![j] = lines[i]] \in Seq(Lines)
      BY <1>1, <1>5, <3>1
    <3>3. QED
      BY <3>2
  <2>2. QED
    BY <1>1, <2>1 DEF Swapped
<1>7. Edited(lines) \subseteq Seq(Lines)
  <2>1. ASSUME NEW i \in 1..Len(lines), NEW e \in Events
        PROVE  [lines EXCEPT ![i].content = e] \in Seq(Lines)
    <3>1. [lines[i] EXCEPT !.content = e] \in Lines
      BY DEF ChainedLines, Lines
    <3>2. [lines EXCEPT ![i] = [lines[i] EXCEPT !.content = e]] \in Seq(Lines)
      BY <1>5, <3>1
    <3>3. QED
      BY <3>2
  <2>2. QED
    BY <1>1, <2>1 DEF Edited
<1>8. Garbled(lines) \subseteq Seq(Lines)
  <2>1. Unchained \in Lines
    BY DEF Lines
  <2>2. QED
    BY <1>1, <1>5, <2>1 DEF Garbled
<1>9. Rewritten(lines) \subseteq Seq(Lines)
  <2>1. ASSUME NEW n \in 0..Len(lines), NEW events \in [1..n -> Events]
        PROVE  Chain(events) \in Seq(Lines)
    <3>1. events \in Seq(Events)
      BY <1>1, SeqDef
    <3>2. QED
      BY <3>1, ChainIs
  <2>2. QED
    BY <2>1 DEF Rewritten
<1>10. QED
  BY <1>3, <1>4, <1>6, <1>7, <1>8, <1>9 DEF Changed

-----------------------------------------------------------------------------
(* Tampering *)

\* An undamaged ledger that nobody is appending to links, and its sidecar is its head.
LEMMA QuietIsSound ==
    ASSUME VerifyInv, Quiet
    PROVE  /\ ledger \in Seq(Lines) /\ Linked(ledger, Len(ledger))
           /\ head.entries = Len(ledger)
           /\ head.head_hash = HashAt(ledger, Len(ledger))
           /\ LastHash(ledger) = HashAt(ledger, Len(ledger))
<1>1. ~Midway /\ ~damaged
  BY LedgerAssumption DEF VerifyInv, CountInv, Holder, Midway, Quiet
<1>2. ledger \in Seq(Lines)
  BY CountTypes DEF VerifyInv, CountInv
<1>3. QED
  BY <1>1, <1>2, WholeLast DEF VerifyInv, Sound, Whole, Vouched

\* No other ledger at all passes the walk against that sidecar, ...
LEMMA NoOtherPasses ==
    ASSUME VerifyInv, Quiet, NEW lines \in Seq(Lines), lines # ledger
    PROVE  ~WalkChain(lines, head).ok
<1>1. SUFFICES ASSUME WalkChain(lines, head).ok PROVE FALSE
  OBVIOUS
<1>2. Linked(lines, Len(lines)) /\ head.head_hash = HashAt(lines, Len(lines))
  BY <1>1 DEF WalkChain
<1>3. QED
  BY <1>2, QuietIsSound, LinkedUnique

\* ... so none that is one change away from the true one does, whatever its length:
\* any edit, deletion or reordering breaks the chain.
THEOREM ChangesBreakTheChain == Spec => []ChangeBreaksChain
<1>1. VerifyInv => ChangeBreaksChain
  <2>1. SUFFICES ASSUME VerifyInv, Quiet, NEW lines \in Changed(ledger)
                 PROVE  ~WalkChain(lines, head).ok
    BY DEF ChangeBreaksChain
  <2>2. ledger \in Seq(Lines) /\ Linked(ledger, Len(ledger)) /\ Len(ledger) \in Nat
    BY <2>1, QuietIsSound, LenProperties
  <2>3. \A i \in 1..Len(ledger) : ledger[i] \in ChainedLines
    BY <2>2, LinkedLine
  <2>4. lines \in Seq(Lines) /\ lines # ledger
    BY <2>1, <2>2, <2>3, ChangedAreLedgers DEF Changed
  <2>5. QED
    BY <2>1, <2>4, NoOtherPasses
<1>2. QED
  BY <1>1, VerifyInvariant, PTL

\* A rewritten ledger with an unsigned sidecar made to match it passes verify_chain
\* only where nothing anchors it: a key that is configured, or the true head the caller knows,
\* tells it from the true one.
THEOREM AnchorsTellRewrites == Spec => []AnchorTellsRewrite
<1>1. VerifyInv => AnchorTellsRewrite
  <2>1. SUFFICES ASSUME VerifyInv, Quiet, NEW lines \in Rewritten(ledger) \ {ledger}
                 PROVE  LET forged == Sidecar(NoKey, LastHash(lines), Len(lines)) IN
                        /\ WalkChain(lines, forged).ok
                        /\ VerifyLedger(lines, forged, key, {}) <=> key = NoKey
                        /\ ~VerifyLedger(lines, forged, key, {LastHash(ledger)})
    BY DEF AnchorTellsRewrite
  <2> DEFINE forged == Sidecar(NoKey, LastHash(lines), Len(lines))
  <2>2. /\ ledger \in Seq(Lines) /\ Linked(ledger, Len(ledger))
        /\ LastHash(ledger) = HashAt(ledger, Len(ledger)) /\ Len(ledger) \in Nat
    BY <2>1, QuietIsSound, LenProperties
  <2>3. PICK events \in UNION {[1..n -> Events] : n \in 0..Len(ledger)} :
            lines = Chain(events)
    BY <2>1 DEF Rewritten
  <2>4. lines \in Seq(Lines) /\ Linked(lines, Len(lines))
    <3>1. events \in Seq(Events)
      BY <2>2, <2>3, SeqDef
    <3>2. QED
      BY <2>3, <3>1, ChainIs
  <2>5. LastHash(lines) = HashAt(lines, Len(lines))
    BY <2>4, WholeLast
  <2>6. /\ forged.head_hash = LastHash(lines) /\ forged.entries = Len(lines)
        /\ forged.mac = NoMac
    BY DEF Sidecar, HeadMac
  <2>7. /\ WalkChain(lines, forged).ok
        /\ WalkChain(lines, forged).head_hash = LastHash(lines)
    BY <2>4, <2>5, <2>6 DEF WalkChain
  <2>8. LastHash(lines) # LastHash(ledger)
    BY <2>1, <2>2, <2>4, <2>5, LinkedUnique
  <2>9. CheckAnchor(WalkChain(lines, forged), forged, key, {}) # "broken"
            <=> key = NoKey
    BY <2>6 DEF CheckAnchor
  <2>10. CheckAnchor(WalkChain(lines, forged), forged, key, {LastHash(ledger)})
             = "broken"
    BY <2>7, <2>8 DEF CheckAnchor
  <2>11. QED
    BY <2>7, <2>9, <2>10 DEF VerifyLedger
<1>2. QED
  BY <1>1, VerifyInvariant, PTL
=============================================================================
