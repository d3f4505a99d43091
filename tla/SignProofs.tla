------------------------------ MODULE SignProofs ------------------------------
(***************************************************************************)
(* What the signing key is applied to and what a keyed ledger keeps, for   *)
(* every set of processes, events and keys, on every disk that does not    *)
(* repeat a failed flush after the lock is gone.  Torn lines are the hard  *)
(* part: the next line is glued to one, which changes a line that is       *)
(* already there.                                                          *)
(***************************************************************************)
EXTENDS VerifyProofs

-----------------------------------------------------------------------------
(* The signing key is never applied to a head it did not produce *)

\* The hash of the n-th line of a linked prefix commits to n records.
HashLengths(lines) ==
    \A n \in 0..Len(lines) : Linked(lines, n) => Len(HashAt(lines, n)) = n

\* The disk writes a line whole or not at all.
NeverTorn == "short" \notin DiskFaults

\* What an adopter is about to sign is a linked prefix.
SignsVouched ==
    \A a \in Adopters : pc[a] = "sign" =>
        Vouched(ledger, seen[a].head_hash, seen[a].entries)

\* What let a writer pass still holds when it writes ...
WritesOnSigned ==
    \A w \in Writers : pc[w] = "write" =>
        /\ Appendable(ledger, head, key)
        /\ key # NoKey =>
               /\ ~openTail
               /\ Vouched(ledger, seen[w].head_hash, seen[w].entries)
               /\ seen[w].entries = Len(ledger)

\* ... and what it saves afterwards is the head of what it wrote, unless that was
\* glued to a torn line.
SavesVouched ==
    \A w \in Writers : pc[w] = "written" =>
        /\ NeverTorn \/ key # NoKey => seen[w].head_hash = LastHash(ledger)
        /\ key # NoKey => Vouched(ledger, seen[w].head_hash, seen[w].entries)

\* What a power loss may bring back is vouched for as well.
DurableVouches ==
    Signed(durable) => Vouched(ledger, durable.head_hash, durable.entries)

SignInv ==
    /\ ChainInv
    /\ VerifyInv
    /\ NeverTorn => ~openTail
    /\ HashLengths(ledger)
    /\ SignedHeadVouches
    /\ DurableVouches
    /\ SignsVouched
    /\ WritesOnSigned
    /\ SavesVouched

\* Below the line it touches, a write changes nothing Linked speaks of.
LEMMA WrittenLinked ==
    ASSUME NEW lines \in Seq(Lines), NEW line \in Lines, NEW open \in BOOLEAN,
           open => lines # <<>>,
           NEW n \in Nat,
           n < IF open THEN Len(lines) ELSE Len(lines) + 1
    PROVE  /\ Linked(WrittenTo(lines, open, line), n) <=> Linked(lines, n)
           /\ HashAt(WrittenTo(lines, open, line), n) = HashAt(lines, n)
<1> DEFINE new == WrittenTo(lines, open, line)
<1>1. \A i \in 1..n : new[i] = lines[i]
  BY WrittenToLines, LenProperties
<1>2. \A i \in 0..n : HashAt(new, i) = HashAt(lines, i)
  BY <1>1 DEF HashAt
<1>3. \A i \in 1..n : Links(new, i) <=> Links(lines, i)
  BY <1>1, <1>2 DEF Links
<1>4. QED
  BY <1>2, <1>3 DEF Linked

\* HashLengths is kept when a line is written, glued to a torn one or not.
LEMMA WrittenHashLengths ==
    ASSUME NEW lines \in Seq(Lines), NEW line \in Lines, NEW open \in BOOLEAN,
           open => lines # <<>>, HashLengths(lines)
    PROVE  HashLengths(WrittenTo(lines, open, line))
<1> DEFINE new == WrittenTo(lines, open, line)
           len == IF open THEN Len(lines) ELSE Len(lines) + 1
<1>1. /\ new \in Seq(Lines) /\ Len(new) = len /\ len \in Nat \ {0}
      /\ new[len] = IF open THEN Unchained ELSE line
      /\ len - 1 \in 0..Len(lines) /\ Len(lines) \in Nat
  BY WrittenToLines, LenProperties
<1>2. ASSUME NEW n \in 0..(len - 1), Linked(new, n)
      PROVE  Len(HashAt(new, n)) = n
  <2>1. n \in Nat /\ n < len /\ n \in 0..Len(lines)
    BY <1>1
  <2>2. Linked(lines, n) /\ HashAt(new, n) = HashAt(lines, n)
    BY <1>2, <2>1, WrittenLinked
  <2>3. QED
    BY <2>1, <2>2 DEF HashLengths
<1>3. ASSUME Linked(new, len)
      PROVE  Len(HashAt(new, len)) = len
  <2>1. Linked(new, len - 1) /\ Links(new, len)
    BY <1>1, <1>3 DEF Linked
  <2>2. Len(HashAt(new, len - 1)) = len - 1
    BY <1>1, <1>2, <2>1
  <2>3. HashAt(new, len) = Append(new[len].prev_hash, new[len].content)
        /\ new[len].prev_hash = HashAt(new, len - 1)
    BY <1>1, <2>1 DEF Links, HashAt, RecordHash
  <2>4. new[len] \in ChainedLines
    <3>1. new[len] \in Lines
      BY <1>1, ElementOfSeq
    <3>2. new[len].chained
      BY <2>1 DEF Links
    <3>3. QED
      BY <3>1, <3>2 DEF Lines, Unchained
  <2>5. new[len].prev_hash \in Seq(Events) /\ new[len].content \in Events
    BY <2>4 DEF ChainedLines, Hashes
  <2>6. QED
    BY <1>1, <2>2, <2>3, <2>5, AppendProperties
<1>4. \A n \in 0..len : n \in 0..(len - 1) \/ n = len
  BY <1>1
<1>5. QED
  BY <1>1, <1>2, <1>3, <1>4 DEF HashLengths

\* What is vouched for stays so when a line is written: a line that is glued to a
\* torn one changes the last line, which no head that could be signed counts.
LEMMA WrittenVouched ==
    ASSUME TypeInv, NEW line \in Lines, ledger' = Written(line),
           NEW h, NEW n \in Nat, Vouched(ledger, h, n),
           openTail /\ Whole => n <= Len(ledger) - 1
    PROVE  Vouched(ledger', h, n)
<1>1. /\ ledger \in Seq(Lines) /\ Len(ledger) \in Nat /\ openTail \in BOOLEAN
      /\ openTail => ledger # <<>>
  BY CountTypes DEF TypeInv, TypeOK
<1>2. n < IF openTail THEN Len(ledger) ELSE Len(ledger) + 1
  BY <1>1 DEF Vouched, Whole
<1>3. n <= Len(ledger')
  BY <1>1, <1>2, WrittenToLines DEF Written
<1>4. Linked(ledger', n) /\ HashAt(ledger', n) = HashAt(ledger, n)
  BY <1>1, <1>2, WrittenLinked DEF Written, Vouched
<1>5. QED
  BY <1>3, <1>4 DEF Vouched

\* A keyed append is let through only on a sidecar that counts every line, and
\* none counts a torn one.
LEMMA KeyedAppendable ==
    ASSUME SignInv, key # NoKey, Appendable(ledger, head, key)
    PROVE  /\ ~openTail
           /\ Vouched(ledger, LastHash(ledger), head.entries)
           /\ head.entries = Len(ledger)
<1>1. /\ ledger \in Seq(Lines) /\ Len(ledger) \in Nat /\ head \in Heads
      /\ head.entries \in Nat /\ key \in Keys
  BY LenProperties DEF SignInv, ChainInv, TypeInv, TypeOK, Heads
<1>2. /\ Linked(ledger, Len(ledger))
      /\ LastHash(ledger) = HashAt(ledger, Len(ledger))
  <2>1. \A i \in DOMAIN ledger : ledger[i].chained
    BY DEF Appendable, LastHashRaises
  <2>2. QED
    BY <1>1, <2>1, AllChainedLinked DEF SignInv, ChainInv, ChainLinks
<1>3. Len(HashAt(ledger, Len(ledger))) = Len(ledger)
  BY <1>1, <1>2 DEF SignInv, HashLengths
<1>4. head.entries = Len(ledger)
  <2>1. CASE Fresh(ledger, head)
    BY <1>2, <1>3, <2>1, EmptySeq DEF Fresh, Genesis
  <2>2. CASE ~Fresh(ledger, head)
    <3>1. /\ head.mac # NoMac /\ MacVerifies(head, key)
          /\ head.head_hash = LastHash(ledger)
      BY <2>2 DEF Appendable
    <3>2. head.mac.key = key
      BY <1>1, <3>1, NoKeyAssumption DEF MacVerifies, HeadMac
    <3>3. Signed(head)
      BY <3>1, <3>2 DEF Signed
    <3>4. /\ head.entries \in 0..Len(ledger) /\ Linked(ledger, head.entries)
          /\ head.head_hash = HashAt(ledger, head.entries)
      BY <1>1, <3>3 DEF SignInv, SignedHeadVouches
    <3>5. Len(HashAt(ledger, head.entries)) = head.entries
      BY <3>4 DEF SignInv, HashLengths
    <3>6. QED
      BY <1>2, <1>3, <3>1, <3>4, <3>5
  <2>3. QED
    BY <2>1, <2>2
<1>5. ~openTail
  <2>1. Whole /\ Ajar => head.entries <= Len(ledger) - 1
    BY DEF SignInv, VerifyInv, CountInv, Behind, Below
  <2>2. QED
    BY <1>1, <1>2, <1>4, <2>1 DEF Whole, Ajar
<1>6. QED
  BY <1>1, <1>2, <1>4, <1>5 DEF Vouched

\* A sidecar saved with a vouched head vouches for it, signed or not.
LEMMA SidecarVouches ==
    ASSUME SignInv, NEW k \in Keys \cup {NoKey}, NEW h, NEW n,
           k # NoKey => Vouched(ledger, h, n), ledger' = ledger,
           Replace(Sidecar(k, h, n))
    PROVE  SignedHeadVouches' /\ DurableVouches'
<1>1. head' = Sidecar(k, h, n) /\ durable' \in {durable, head}
  BY DEF Replace
<1>2. DurableVouches'
  BY <1>1 DEF SignInv, SignedHeadVouches, DurableVouches, Vouched
<1>3. CASE k = NoKey
  <2>1. ~Signed(head')
    BY <1>1, <1>3 DEF Sidecar, HeadMac, Signed
  <2>2. QED
    BY <1>2, <2>1 DEF SignedHeadVouches
<1>4. CASE k # NoKey
  <2>1. head'.head_hash = h /\ head'.entries = n
    BY <1>1 DEF Sidecar
  <2>2. QED
    BY <1>2, <1>4, <2>1 DEF SignedHeadVouches, Vouched
<1>5. QED
  BY <1>3, <1>4

\* A new deployment satisfies the invariant of the signed heads.
LEMMA InitSign == Init => SignInv
<1> SUFFICES ASSUME Init PROVE SignInv
  OBVIOUS
<1>1. ChainInv /\ VerifyInv
  BY InitChain, InitVerify
<1>2. HashLengths(ledger)
  <2>1. CASE ledger = <<>>
    BY <2>1, EmptySeq DEF HashLengths, HashAt, Genesis
  <2>2. CASE ledger = <<Unchained>>
    <3>1. Len(ledger) = 1 /\ ~Linked(ledger, 1)
      BY <2>2 DEF Linked, Links, Unchained
    <3>2. Len(HashAt(ledger, 0)) = 0
      BY EmptySeq DEF HashAt, Genesis
    <3>3. QED
      BY <3>1, <3>2 DEF HashLengths
  <2>3. QED
    BY <2>1, <2>2 DEF Init
<1>3. SignedHeadVouches /\ DurableVouches
  BY DEF Init, SignedHeadVouches, DurableVouches, Signed, MissingHead
<1>4. SignsVouched /\ WritesOnSigned /\ SavesVouched
  BY DEF Init, SignsVouched, WritesOnSigned, SavesVouched, Procs
<1>5. QED
  BY <1>1, <1>2, <1>3, <1>4 DEF SignInv, Init

\* The parts of SignInv that speak of processes survive a step that leaves the
\* files alone and takes no process to a place where something must be vouched.
LEMMA QuietStep ==
    ASSUME SignInv, UNCHANGED <<ledger, openTail, head, durable, key>>,
           \A p \in Procs :
               \/ pc'[p] = pc[p] /\ seen'[p] = seen[p]
               \/ pc'[p] \notin {"sign", "write", "written"}
    PROVE  /\ (NeverTorn => ~openTail') /\ HashLengths(ledger')
           /\ SignedHeadVouches' /\ DurableVouches' /\ SignsVouched'
           /\ WritesOnSigned' /\ SavesVouched'
<1>1. /\ (NeverTorn => ~openTail') /\ HashLengths(ledger')
      /\ SignedHeadVouches' /\ DurableVouches'
  BY DEF SignInv, SignedHeadVouches, DurableVouches
<1>2. SignsVouched'
  BY DEF SignInv, SignsVouched, Procs
<1>3. WritesOnSigned'
  BY DEF SignInv, WritesOnSigned, Procs
<1>4. SavesVouched'
  BY DEF SignInv, SavesVouched, Procs
<1>5. QED
  BY <1>1, <1>2, <1>3, <1>4

\* A process that moves without touching the disk keeps the signed heads.
LEMMA QuietMove ==
    ASSUME SignInv, NEW p \in Procs, NEW from,
           NEW to, to \notin {"sign", "write", "written"}, Step(p, from, to),
           seen' = seen \/ \E h : Sees(p, h),
           UNCHANGED <<ledger, openTail, head, durable, key>>
    PROVE  /\ (NeverTorn => ~openTail') /\ HashLengths(ledger')
           /\ SignedHeadVouches' /\ DurableVouches' /\ SignsVouched'
           /\ WritesOnSigned' /\ SavesVouched'
<1>1. TypeInv
  BY DEF SignInv, ChainInv
<1>2. pc'[p] = to /\ \A q \in Procs : q # p => pc'[q] = pc[q]
  BY <1>1, OneMoves
<1>3. \A q \in Procs : q # p => seen'[q] = seen[q]
  BY <1>1, OneSees
<1>4. QED
  BY <1>2, <1>3, QuietStep

\* No writer is between its check and its save while the lock is free, and
\* none but its holder while it is held.
LEMMA LockExcludes ==
    ASSUME ChainInv
    PROVE  /\ lock = Nobody =>
                  \A w \in Writers : pc[w] \notin {"write", "written"}
           /\ \A w \in Writers : pc[w] \in {"write", "written"} =>
                  \A u \in Writers : u # w => pc[u] \notin {"write", "written"}
  BY LedgerAssumption DEF ChainInv, Holder

\* A line that is written, whole or torn, spoils nothing that is vouched for.
LEMMA WriteKeepsVouched ==
    ASSUME SignInv, NEW w \in Writers, NEW line \in Lines, ledger' = Written(line),
           UNCHANGED <<head, durable>>,
           \A q \in Procs : q # w => pc'[q] = pc[q] /\ seen'[q] = seen[q]
    PROVE  /\ HashLengths(ledger')
           /\ SignedHeadVouches' /\ DurableVouches' /\ SignsVouched'
<1>1. /\ TypeInv /\ ledger \in Seq(Lines) /\ openTail \in BOOLEAN
      /\ openTail => ledger # <<>>
      /\ head.entries \in Nat /\ durable.entries \in Nat
      /\ \A p \in Procs : seen[p].entries \in Nat
  BY CountTypes DEF SignInv, ChainInv, TypeInv, TypeOK
<1>2. HashLengths(ledger')
  BY <1>1, WrittenHashLengths DEF SignInv, Written
<1>3. openTail /\ Whole => Below(Len(ledger) - 1)
  BY DEF SignInv, VerifyInv, CountInv, Behind, Ajar
<1>4. ASSUME NEW s \in {head, durable}, Signed(s)
      PROVE  Vouched(ledger', s.head_hash, s.entries)
  <2>1. Vouched(ledger, s.head_hash, s.entries) /\ s.entries \in Nat
    BY <1>1, <1>4 DEF SignInv, SignedHeadVouches, DurableVouches, Vouched
  <2>2. openTail /\ Whole => s.entries <= Len(ledger) - 1
    BY <1>3 DEF Below
  <2>3. QED
    BY <1>1, <2>1, <2>2, WrittenVouched
<1>5. ASSUME NEW a \in Adopters, pc'[a] = "sign"
      PROVE  Vouched(ledger', seen'[a].head_hash, seen'[a].entries)
  <2>1. a \in Procs /\ pc[a] = "sign" /\ seen'[a] = seen[a]
    BY <1>5, LedgerAssumption DEF Procs
  <2>2. Vouched(ledger, seen[a].head_hash, seen[a].entries)
    BY <2>1 DEF SignInv, SignsVouched
  <2>3. openTail /\ Whole => seen[a].entries <= Len(ledger) - 1
    BY <1>3, <2>1 DEF Below, Counting
  <2>4. QED
    BY <1>1, <2>1, <2>2, <2>3, WrittenVouched
<1>6. QED
  BY <1>2, <1>4, <1>5 DEF SignedHeadVouches, DurableVouches, SignsVouched, Vouched

\* Every step keeps the invariant of the signed heads.
LEMMA NextSign ==
    ASSUME "retried" \notin DiskFaults, SignInv, [Next]_vars
    PROVE  SignInv'
<1> USE DEF disk, sidecar, history, verification, LockFree, Unlock
<1> DEFINE Rest == /\ (NeverTorn => ~openTail') /\ HashLengths(ledger')
                   /\ SignedHeadVouches' /\ DurableVouches' /\ SignsVouched'
                   /\ WritesOnSigned' /\ SavesVouched'
<1>1. ChainInv /\ TypeInv /\ ChainInv' /\ VerifyInv'
  BY NextChain, NextVerify DEF SignInv, ChainInv
<1>2. /\ \A w \in Writers : w \in Procs /\ w \notin Adopters
      /\ \A a \in Adopters : a \in Procs /\ a \notin Writers
      /\ \A v \in Verifiers : v \in Procs
  BY LedgerAssumption DEF Procs
<1>3. /\ ledger \in Seq(Lines) /\ Len(ledger) \in Nat /\ LastsExist(ledger)
      /\ \A p \in Procs : seen[p].head_hash \in Hashes /\ seen[p].entries \in Nat
  BY <1>1, LenProperties DEF TypeInv, TypeOK
<1>4. ASSUME NEW w \in Writers, Request(w)
      PROVE  Rest
  <2>1. /\ Step(w, "idle", "waiting")
        /\ UNCHANGED <<ledger, openTail, head, durable, key, seen>>
    BY <1>4 DEF Request
  <2>2. QED
    BY <1>2, <2>1, QuietMove
<1>5. ASSUME NEW w \in Writers, Refuse(w) \/ RefuseUnread(w)
      PROVE  Rest
  <2>1. /\ Step(w, "waiting", "idle")
        /\ UNCHANGED <<ledger, openTail, head, durable, key, seen>>
    BY <1>5 DEF Refuse, RefuseUnread, Fail
  <2>2. QED
    BY <1>2, <2>1, QuietMove
<1>6. ASSUME NEW w \in Writers, Acquire(w) \/ AcquireUnread(w)
      PROVE  Rest
  <2>0. PICK n : /\ Sees(w, [head_hash |-> LastHash(ledger), entries |-> n])
                 /\ key # NoKey => n = head.entries
    BY <1>6 DEF Acquire, AcquireUnread
  <2>1. /\ Step(w, "waiting", "write")
        /\ Appendable(ledger, head, key)
        /\ UNCHANGED <<ledger, openTail, head, durable, key>>
    BY <1>6 DEF Acquire, AcquireUnread, Appendable, LastHashRaises
  <2>2. /\ pc'[w] = "write"
        /\ seen'[w] = [head_hash |-> LastHash(ledger), entries |-> n]
        /\ \A q \in Procs : q # w => pc'[q] = pc[q] /\ seen'[q] = seen[q]
    BY <1>1, <1>2, <2>0, <2>1, OneMoves, OneSees
  <2>3. key # NoKey =>
            /\ ~openTail
            /\ Vouched(ledger, LastHash(ledger), n)
            /\ n = Len(ledger)
    BY <2>0, <2>1, KeyedAppendable
  <2>4. WritesOnSigned'
    BY <1>2, <2>1, <2>2, <2>3 DEF SignInv, WritesOnSigned
  <2>5. SavesVouched'
    BY <1>2, <2>1, <2>2 DEF SignInv, SavesVouched
  <2>6. SignsVouched'
    BY <1>2, <2>1, <2>2 DEF SignInv, SignsVouched
  <2>7. QED
    BY <2>1, <2>4, <2>5, <2>6 DEF SignInv, SignedHeadVouches, DurableVouches
<1>7. ASSUME NEW w \in Writers, NEW e \in Events, WriteLine(w, e)
      PROVE  Rest
  <2> DEFINE h == seen[w].head_hash
             line == Record(e, h)
  <2>1. /\ Step(w, "write", "written")
        /\ ledger' = Written(line)
        /\ Sees(w, [head_hash |-> RecordHash(e, h),
                    entries |-> seen[w].entries + 1])
        /\ openTail' = FALSE
        /\ UNCHANGED <<head, durable, key>>
    BY <1>7 DEF WriteLine, NextHead
  <2>2. /\ pc[w] = "write" /\ pc'[w] = "written"
        /\ seen'[w] = [head_hash |-> RecordHash(e, h),
                       entries |-> seen[w].entries + 1]
        /\ \A q \in Procs : q # w => pc'[q] = pc[q] /\ seen'[q] = seen[q]
    BY <1>1, <1>2, <2>1, OneMoves, OneSees
  <2>3. line \in Lines /\ h \in Hashes
    BY <1>2, <1>3, RecordType
  <2>4. /\ HashLengths(ledger')
        /\ SignedHeadVouches' /\ DurableVouches' /\ SignsVouched'
    BY <2>1, <2>2, <2>3, WriteKeepsVouched
  <2>5. \A u \in Writers : u # w => pc'[u] \notin {"write", "written"}
    BY <1>1, <1>2, <2>2, LockExcludes
  <2>6. WritesOnSigned'
    BY <2>2, <2>5 DEF WritesOnSigned
  <2>7. NeverTorn \/ key # NoKey => ledger' = Append(ledger, line)
    BY <2>1, <2>2 DEF SignInv, WritesOnSigned, Written, WrittenTo
  <2>8. NeverTorn \/ key # NoKey => LastHash(ledger') = RecordHash(e, h)
    BY <1>3, <2>3, <2>7, AppendLastHash
  <2>9. key # NoKey =>
            Vouched(ledger', RecordHash(e, h), seen[w].entries + 1)
    <3>1. SUFFICES ASSUME key # NoKey
                   PROVE  Vouched(ledger', RecordHash(e, h), seen[w].entries + 1)
      OBVIOUS
    <3>2. Vouched(ledger, h, Len(ledger)) /\ seen[w].entries = Len(ledger)
      BY <2>2, <3>1 DEF SignInv, WritesOnSigned
    <3>3. QED
      BY <1>3, <2>3, <2>7, <3>1, <3>2, AppendVouchedRecord
  <2>10. SavesVouched'
    BY <2>1, <2>2, <2>5, <2>8, <2>9 DEF SavesVouched
  <2>11. QED
    BY <2>1, <2>4, <2>6, <2>10
<1>8. ASSUME NEW w \in Writers, SaveHead(w)
      PROVE  Rest
  <2>1. /\ Step(w, "written", "idle") /\ Sees(w, NoHead)
        /\ Replace(Sidecar(key, seen[w].head_hash, seen[w].entries))
        /\ UNCHANGED <<ledger, openTail, key>>
    BY <1>8 DEF SaveHead
  <2>2. /\ pc[w] = "written" /\ pc'[w] = "idle"
        /\ \A q \in Procs : q # w => pc'[q] = pc[q] /\ seen'[q] = seen[q]
    BY <1>1, <1>2, <2>1, OneMoves, OneSees
  <2>3. \A u \in Writers : pc'[u] \notin {"write", "written"}
    BY <1>1, <1>2, <2>2, LockExcludes
  <2>4. SignedHeadVouches' /\ DurableVouches'
    <3>1. key \in Keys \cup {NoKey}
      BY <1>1 DEF TypeInv, TypeOK
    <3>2. key # NoKey =>
              Vouched(ledger, seen[w].head_hash, seen[w].entries)
      BY <2>2 DEF SignInv, SavesVouched
    <3>3. QED
      BY <2>1, <3>1, <3>2, SidecarVouches
  <2>5. SignsVouched'
    BY <1>2, <2>1, <2>2 DEF SignInv, SignsVouched
  <2>6. QED
    BY <2>1, <2>3, <2>4, <2>5 DEF SignInv, WritesOnSigned, SavesVouched
<1>9. ASSUME NEW w \in Writers, FailBeforeWrite(w) \/ FailAfterWrite(w)
      PROVE  Rest
  <2>1. /\ UNCHANGED <<ledger, openTail, head, durable, key>> /\ Sees(w, NoHead)
        /\ \E from : Step(w, from, "idle")
    BY <1>9 DEF FailBeforeWrite, FailAfterWrite, Fail
  <2>2. QED
    BY <1>2, <2>1, QuietMove
<1>10. ASSUME NEW w \in Writers, NEW e \in Events, ShortWrite(w, e)
       PROVE  Rest
  <2>1. PICK line \in {Unchained, Record(e, seen[w].head_hash)} :
            ledger' = Written(line)
    BY <1>10 DEF ShortWrite
  <2>2. /\ ~NeverTorn /\ Step(w, "write", "idle") /\ Sees(w, NoHead)
        /\ UNCHANGED <<head, durable, key>>
    BY <1>10 DEF NeverTorn, ShortWrite, Fail
  <2>3. /\ pc[w] = "write" /\ pc'[w] = "idle"
        /\ \A q \in Procs : q # w => pc'[q] = pc[q] /\ seen'[q] = seen[q]
    BY <1>1, <1>2, <2>2, OneMoves, OneSees
  <2>4. line \in Lines
    BY <1>2, <1>3, RecordType DEF Lines
  <2>5. \A u \in Writers : pc'[u] \notin {"write", "written"}
    BY <1>1, <1>2, <2>3, LockExcludes
  <2>6. /\ HashLengths(ledger')
        /\ SignedHeadVouches' /\ DurableVouches' /\ SignsVouched'
    BY <2>1, <2>2, <2>3, <2>4, WriteKeepsVouched
  <2>7. QED
    BY <2>2, <2>5, <2>6 DEF WritesOnSigned, SavesVouched
<1>10a. ASSUME NEW w \in Writers,
               FlushFails(w) \/ CloseFails(w) \/ \E e \in Events : CloseFlushes(w, e)
        PROVE  FALSE
  <2>1. pc[w] # "closing"
    BY <1>1 DEF ChainInv, NoneClosing
  <2>2. QED
    BY <1>10a, <2>1 DEF FlushFails, CloseFails, CloseFlushes, Step
<1>11. ASSUME NEW p \in Procs, WalkLoadsHead(p) \/ WalkLoadsNothing(p)
       PROVE  Rest
  <2>1. /\ UNCHANGED <<ledger, openTail, head, durable, key>>
        /\ Step(p, "load", "walk") /\ \E h : Sees(p, h)
    BY <1>11 DEF WalkLoadsHead, WalkLoadsNothing
  <2>2. QED
    BY <1>2, <2>1, QuietMove
<1>12. ASSUME NEW a \in Adopters, AdoptCheck(a)
       PROVE  Rest
  <2>1. /\ UNCHANGED <<ledger, openTail, head, durable, key, seen>>
        /\ Step(a, "idle", "load")
    BY <1>12 DEF AdoptCheck
  <2>2. QED
    BY <1>2, <2>1, QuietMove
<1>13. ASSUME NEW a \in Adopters, AdoptWalk(a)
       PROVE  Rest
  <2>1. /\ UNCHANGED <<ledger, openTail, head, durable, key, seen>>
        /\ Step(a, "walk", "sign") /\ WalkChain(ledger, seen[a]).ok
    BY <1>13 DEF AdoptWalk
  <2>2. /\ pc'[a] = "sign" /\ \A q \in Procs : q # a => pc'[q] = pc[q]
    BY <1>1, <1>2, <2>1, OneMoves
  <2>3. Vouched(ledger, seen[a].head_hash, seen[a].entries)
    <3>1. Linked(ledger, Len(ledger))
      BY <2>1 DEF WalkChain
    <3>2. QED
      BY <1>3, <2>1, <3>1 DEF WalkChain, Vouched
  <2>4. SignsVouched'
    BY <1>2, <2>1, <2>2, <2>3 DEF SignInv, SignsVouched
  <2>5. WritesOnSigned' /\ SavesVouched'
    BY <1>2, <2>1, <2>2 DEF SignInv, WritesOnSigned, SavesVouched
  <2>6. QED
    BY <2>1, <2>4, <2>5 DEF SignInv, SignedHeadVouches, DurableVouches
<1>14. ASSUME NEW a \in Adopters, AdoptRefuses(a)
       PROVE  Rest
  <2>1. /\ UNCHANGED <<ledger, openTail, head, durable, key>>
        /\ Step(a, "walk", "idle") /\ Sees(a, NoHead)
    BY <1>14 DEF AdoptRefuses
  <2>2. QED
    BY <1>2, <2>1, QuietMove
<1>15. ASSUME NEW a \in Adopters, AdoptSave(a)
       PROVE  Rest
  <2>1. /\ Step(a, "sign", "idle") /\ Sees(a, NoHead) /\ lock = Nobody
        /\ Replace(Sidecar(key, seen[a].head_hash, seen[a].entries))
        /\ UNCHANGED <<ledger, openTail, key>>
    BY <1>15 DEF AdoptSave
  <2>2. /\ pc[a] = "sign" /\ pc'[a] = "idle"
        /\ \A q \in Procs : q # a => pc'[q] = pc[q] /\ seen'[q] = seen[q]
    BY <1>1, <1>2, <2>1, OneMoves, OneSees
  <2>3. \A w \in Writers : pc'[w] \notin {"write", "written"}
    BY <1>1, <1>2, <2>1, <2>2, LockExcludes
  <2>4. SignedHeadVouches' /\ DurableVouches'
    <3>1. key \in Keys \cup {NoKey}
      BY <1>1 DEF TypeInv, TypeOK
    <3>2. Vouched(ledger, seen[a].head_hash, seen[a].entries)
      BY <2>2 DEF SignInv, SignsVouched
    <3>3. QED
      BY <2>1, <3>1, <3>2, SidecarVouches
  <2>5. SignsVouched'
    BY <1>2, <2>1, <2>2 DEF SignInv, SignsVouched
  <2>6. QED
    BY <2>1, <2>3, <2>4, <2>5 DEF SignInv, WritesOnSigned, SavesVouched
<1>16. ASSUME NEW v \in Verifiers, VerifyStart(v) \/ VerifyWalkPasses(v)
       PROVE  Rest
  <2>1. /\ UNCHANGED <<ledger, openTail, head, durable, key, seen>>
        /\ Step(v, "idle", "load") \/ Step(v, "walk", "anchor")
    BY <1>16 DEF VerifyStart, VerifyWalkPasses
  <2>2. QED
    BY <1>2, <2>1, QuietMove
<1>17. ASSUME NEW v \in Verifiers, VerifyWalkFails(v) \/ VerifyAnchor(v)
       PROVE  Rest
  <2>1. /\ UNCHANGED <<ledger, openTail, head, durable, key>> /\ Sees(v, NoHead)
        /\ \E from : Step(v, from, "idle")
    BY <1>17 DEF VerifyWalkFails, VerifyAnchor, Conclude
  <2>2. QED
    BY <1>2, <2>1, QuietMove
<1>18. ASSUME NEW k \in KeySettings, Restart(k) \/ PowerLoss(k)
       PROVE  Rest
  <2>1. UNCHANGED <<ledger, openTail>> /\ \A p \in Procs : pc'[p] = "idle"
    BY <1>18 DEF Restart, PowerLoss, Reboot
  <2>2. SignedHeadVouches' /\ DurableVouches'
    <3>1. ~Signed(UnreadableHead)
      BY DEF Signed, UnreadableHead, MissingHead
    <3>2. {head', durable'} \subseteq {head, durable, UnreadableHead}
      BY <1>18 DEF Restart, PowerLoss
    <3>3. QED
      BY <2>1, <3>1, <3>2 DEF SignInv, SignedHeadVouches, DurableVouches, Vouched
  <2>3. QED
    BY <1>2, <2>1, <2>2 DEF SignInv, SignsVouched, WritesOnSigned, SavesVouched
<1>19. ASSUME UNCHANGED vars
       PROVE  Rest
  BY <1>19, QuietStep DEF vars
<1>20. Rest
  BY <1>2, <1>4, <1>5, <1>6, <1>7, <1>8, <1>9, <1>10, <1>10a, <1>11, <1>12,
     <1>13, <1>14, <1>15, <1>16, <1>17, <1>18, <1>19
     DEF Next, WriterNext, AppendStep, AppendFails, AdopterNext, VerifierNext
<1>21. QED
  BY <1>1, <1>20 DEF SignInv

\* The invariant of the signed heads holds throughout.
LEMMA SignInvariant ==
    ASSUME "retried" \notin DiskFaults
    PROVE  Spec => []SignInv
<1>1. SignInv /\ [Next]_vars => SignInv'
  BY NextSign
<1>2. QED
  BY InitSign, <1>1, PTL DEF Spec

\* Which steps change the ledger or what was acknowledged.
LEMMA LedgerMoves ==
    ASSUME SignInv, [Next]_vars
    PROVE  \/ \E w \in Writers, e \in Events : WriteLine(w, e) \/ ShortWrite(w, e)
           \/ \E w \in Writers : SaveHead(w)
           \/ UNCHANGED <<ledger, acked>>
<1> USE DEF disk, sidecar, history, verification
<1>1. \A w \in Writers, e \in Events : ~CloseFlushes(w, e)
  BY DEF SignInv, ChainInv, NoneClosing, CloseFlushes, Step
<1>2. QED
  BY <1>1
     DEF Next, vars, WriterNext, AppendStep, AppendFails, AdopterNext,
         VerifierNext, Request, Acquire, Refuse, AcquireUnread, RefuseUnread,
         CloseFails, FailBeforeWrite, FailAfterWrite, FlushFails, Fail,
         AdoptCheck, WalkLoadsHead, WalkLoadsNothing, AdoptWalk, AdoptRefuses,
         AdoptSave, VerifyStart, VerifyWalkPasses, VerifyWalkFails, VerifyAnchor, Conclude,
         Restart, PowerLoss, Reboot

\* A sidecar with a valid MAC always names a linked prefix of the ledger: the key
\* is applied to no other head, by no append, adoption or restart.
THEOREM SignedHeadsAreTrue ==
    ASSUME "retried" \notin DiskFaults
    PROVE  Spec => []SignedHeadVouches
<1>1. SignInv => SignedHeadVouches
  BY DEF SignInv
<1>2. QED
  BY SignInvariant, <1>1, PTL

\* With a key configured the ledger grows only on top of a head this key signed
\* (or as a new ledger): what the check saw still holds when the line is written,
\* torn lines and power losses included.
THEOREM KeyedLedgerGrowsOnSignedHeads ==
    ASSUME "retried" \notin DiskFaults
    PROVE  Spec => OnlyExtendsSignedHead
<1> DEFINE P == key # NoKey /\ ledger' # ledger =>
                    \/ Fresh(ledger, head)
                    \/ /\ Signed(head) /\ head.mac.key = key
                       /\ head.head_hash = LastHash(ledger)
<1>1. SignInv /\ [Next]_vars => P
  <2>1. SUFFICES ASSUME SignInv, [Next]_vars, key # NoKey, ledger' # ledger
                 PROVE  \/ Fresh(ledger, head)
                        \/ /\ Signed(head) /\ head.mac.key = key
                           /\ head.head_hash = LastHash(ledger)
    OBVIOUS
  <2>2. PICK w \in Writers : pc[w] = "write"
    BY <2>1, LedgerMoves DEF WriteLine, ShortWrite, Fail, SaveHead, Step
  <2>3. Appendable(ledger, head, key)
    BY <2>1, <2>2 DEF SignInv, WritesOnSigned
  <2>4. CASE /\ head.mac # NoMac /\ MacVerifies(head, key)
             /\ head.head_hash = LastHash(ledger)
    <3>1. head.mac.key = key
      BY <2>1, <2>4 DEF MacVerifies, HeadMac
    <3>2. QED
      BY <2>4, <3>1 DEF Signed
  <2>5. QED
    BY <2>1, <2>3, <2>4 DEF Appendable
<1>2. Spec => [][P]_vars
  <2>1. SignInv /\ [Next]_vars => [P]_vars
    BY <1>1
  <2>2. QED
    BY SignInvariant, <2>1, PTL DEF Spec
<1>3. QED
  BY <1>2 DEF OnlyExtendsSignedHead

\* The hashes of the records in the ledger: an append that returned is lost when its
\* hash is not among them.
Recorded(lines) == {lines[i].record_hash : i \in ChainedIn(lines)}

\* Appending a line removes no record.
LEMMA AppendKeepsRecords ==
    ASSUME NEW lines \in Seq(Lines), NEW line \in Lines
    PROVE  Recorded(lines) \subseteq Recorded(Append(lines, line))
<1> DEFINE new == Append(lines, line)
<1>1. /\ DOMAIN lines = 1..Len(lines) /\ DOMAIN new = 1..(Len(lines) + 1)
      /\ Len(lines) \in Nat /\ \A i \in 1..Len(lines) : new[i] = lines[i]
  BY AppendProperties, LenProperties
<1>2. ASSUME NEW i \in ChainedIn(lines)
      PROVE  i \in ChainedIn(new) /\ new[i].record_hash = lines[i].record_hash
  BY <1>1, <1>2 DEF ChainedIn
<1>3. QED
  BY <1>2 DEF Recorded

\* A head that is vouched for and counts a line at all names a record.
LEMMA VouchedRecorded ==
    ASSUME NEW lines \in Seq(Lines), NEW h, NEW n \in Nat \ {0}, Vouched(lines, h, n)
    PROVE  h \in Recorded(lines)
<1>1. n \in 1..n /\ n \in DOMAIN lines
  BY LenProperties DEF Vouched
<1>2. Links(lines, n)
  BY <1>1 DEF Vouched, Linked
<1>3. n \in ChainedIn(lines) /\ h = lines[n].record_hash
  BY <1>1, <1>2 DEF Vouched, HashAt, Links, ChainedIn
<1>4. QED
  BY <1>3 DEF Recorded

\* With a key configured no step loses an append that has returned or is just
\* returning: a torn line is never glued to, because the line it spoils or the
\* count that is missing stops the next keyed append.
THEOREM KeyedLedgerKeepsAcked ==
    ASSUME "retried" \notin DiskFaults
    PROVE  Spec => KeyedKeepsAcked
<1> DEFINE P == key # NoKey => LostAcks' \subseteq LostAcks
<1>1. SignInv /\ [Next]_vars => P
  <2>1. SUFFICES ASSUME SignInv, [Next]_vars, key # NoKey
                 PROVE  LostAcks' \subseteq LostAcks
    OBVIOUS
  <2>2. LostAcks = acked \ Recorded(ledger)
    BY DEF LostAcks, Recorded
  <2>3. LostAcks' = acked' \ Recorded(ledger')
    BY DEF LostAcks, Recorded
  <2>4. /\ ledger \in Seq(Lines) /\ head.entries \in Nat
        /\ \A w \in Writers : seen[w].head_hash \in Hashes /\ seen[w].entries \in Nat
    BY <2>1, CountTypes DEF SignInv, ChainInv
  <2>5. ASSUME NEW w \in Writers, NEW e \in Events, WriteLine(w, e) \/ ShortWrite(w, e)
        PROVE  Recorded(ledger) \subseteq Recorded(ledger') /\ acked' = acked
    <3>1. pc[w] = "write" /\ acked' = acked
      BY <2>5 DEF WriteLine, ShortWrite, Fail, Step, history
    <3>2. PICK line \in {Unchained, Record(e, seen[w].head_hash)} :
              ledger' = Written(line)
      BY <2>5 DEF WriteLine, ShortWrite
    <3>3. ledger' = Append(ledger, line)
      BY <2>1, <3>1, <3>2 DEF SignInv, WritesOnSigned, Written, WrittenTo
    <3>4. line \in Lines
      BY <2>4, RecordType DEF Lines
    <3>5. QED
      BY <2>4, <3>1, <3>3, <3>4, AppendKeepsRecords
  <2>6. ASSUME NEW w \in Writers, SaveHead(w)
        PROVE  /\ ledger' = ledger
               /\ acked' \subseteq acked \cup Recorded(ledger)
    <3>1. /\ pc[w] = "written" /\ ledger' = ledger
          /\ acked' = acked \cup {seen[w].head_hash}
      BY <2>6 DEF SaveHead, Step
    <3>2. Vouched(ledger, seen[w].head_hash, seen[w].entries)
      BY <2>1, <3>1 DEF SignInv, SavesVouched
    <3>3. seen[w].entries \in {1, head.entries + 1}
      BY <2>1, <3>1 DEF SignInv, VerifyInv, CountInv, CountsOn
    <3>4. seen[w].head_hash \in Recorded(ledger)
      BY <2>4, <3>2, <3>3, VouchedRecorded
    <3>5. QED
      BY <3>1, <3>4
  <2>7. QED
    BY <2>1, <2>2, <2>3, <2>5, <2>6, LedgerMoves
<1>2. Spec => [][P]_vars
  <2>1. SignInv /\ [Next]_vars => [P]_vars
    BY <1>1
  <2>2. QED
    BY SignInvariant, <2>1, PTL DEF Spec
<1>3. QED
  BY <1>2 DEF KeyedKeepsAcked

-----------------------------------------------------------------------------
(* The ledger implements the abstract log *)

\* The disk may lose the sidecar or refuse to read it, but writes a line whole or not
\* at all: a torn line takes a record out of the log.
WholeLines == DiskFaults \subseteq {"unread", "power"}

\* A new deployment is an empty log.
LEMMA InitLog == Init => AbstractLog!Init
<1> SUFFICES ASSUME Init PROVE AbstractLog!Init
  OBVIOUS
<1>1. LastHash(ledger) = <<>>
  <2>1. ledger \in Seq(Lines) /\ 0 \in 0..Len(ledger)
    BY InitTypes, LenProperties DEF TypeInv, TypeOK
  <2>2. LastAt(ledger, Len(ledger), 0)
    <3>1. CASE ledger = <<>>
      BY <3>1 DEF LastAt
    <3>2. CASE ledger = <<Unchained>>
      BY <3>2 DEF LastAt, Unchained
    <3>3. QED
      BY <3>1, <3>2 DEF Init
  <2>3. QED
    BY <2>1, <2>2, LastHashIs DEF HashAt, Genesis
<1>2. acked = {} /\ (~Appendable(ledger, head, key)) \in BOOLEAN
  BY DEF Init
<1>3. QED
  BY <1>1, <1>2 DEF AbstractLog!Init

\* Every step is a step of the abstract log, or none.
LEMMA NextLog ==
    ASSUME WholeLines, SignInv, [Next]_vars
    PROVE  [AbstractLog!Next]_(AbstractLog!vars)
<1> USE DEF disk, sidecar, history, verification
<1> DEFINE open == Appendable(ledger, head, key)
<1>1. CASE \E w \in Writers, e \in Events : WriteLine(w, e)
  <2>1. PICK w \in Writers, e \in Events : WriteLine(w, e)
    BY <1>1
  <2>2. pc[w] = "write" /\ acked' = acked
        /\ ledger' = Append(ledger, Record(e, seen[w].head_hash))
    BY <2>1 DEF WriteLine, Step, Written, WrittenTo, SignInv, WholeLines, NeverTorn
  <2>3. open
    BY <2>2 DEF SignInv, WritesOnSigned
  <2>4. seen[w].head_hash = LastHash(ledger) /\ seen[w].head_hash \in Hashes
        /\ ledger \in Seq(Lines)
    BY <2>2 DEF SignInv, ChainInv, Continues, TypeInv, TypeOK, Procs
  <2>5. LastHash(ledger') = Append(LastHash(ledger), e)
    BY <2>2, <2>4, AppendLastHash DEF RecordHash
  <2>6. AbstractLog!Extend(e)
    BY <2>2, <2>3, <2>5 DEF AbstractLog!Extend
  <2>7. QED
    BY <2>6 DEF AbstractLog!Next
<1>2. CASE \E w \in Writers : SaveHead(w)
  <2>1. PICK w \in Writers : SaveHead(w)
    BY <1>2
  <2>2. /\ pc[w] = "written" /\ ledger' = ledger
        /\ acked' = acked \cup {seen[w].head_hash}
    BY <2>1 DEF SaveHead, Step
  <2>3. seen[w].head_hash = LastHash(ledger)
    BY <2>2 DEF SignInv, SavesVouched, WholeLines, NeverTorn
  <2>4. AbstractLog!Acknowledge
    BY <2>2, <2>3 DEF AbstractLog!Acknowledge
  <2>5. QED
    BY <2>4 DEF AbstractLog!Next
<1>3. CASE /\ ~ \E w \in Writers, e \in Events : WriteLine(w, e)
           /\ ~ \E w \in Writers : SaveHead(w)
  <2>1. UNCHANGED <<ledger, acked>>
    <3>1. \A w \in Writers, e \in Events : ~ShortWrite(w, e)
      BY DEF WholeLines, ShortWrite
    <3>2. QED
      BY <1>3, <3>1, LedgerMoves
  <2>2. LastHash(ledger') = LastHash(ledger)
    BY <2>1
  <2>3. CASE open' <=> open
    BY <2>1, <2>2, <2>3 DEF AbstractLog!vars
  <2>4. CASE open' <=> ~open
    BY <2>1, <2>2, <2>4 DEF AbstractLog!Next, AbstractLog!SealOrUnseal
  <2>5. QED
    BY <2>3, <2>4
<1>4. QED
  BY <1>1, <1>2, <1>3

\* Every behaviour of the ledger is one of the append-only log: events are added
\* one at a time while it is open, and an append that returns certifies them all.
THEOREM LedgerImplementsAuditLog ==
    ASSUME WholeLines
    PROVE  Spec => ImplementsAuditLog
<1>1. SignInv /\ [Next]_vars => [AbstractLog!Next]_(AbstractLog!vars)
  BY NextLog
<1>2. Spec => []SignInv
  BY SignInvariant DEF WholeLines
<1>3. QED
  BY InitLog, <1>1, <1>2, PTL
     DEF Spec, ImplementsAuditLog, AbstractLog!Spec
=============================================================================
