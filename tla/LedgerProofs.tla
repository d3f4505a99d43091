----------------------------- MODULE LedgerProofs -----------------------------
(***************************************************************************)
(* Theorems about Ledger for every set of processes, events and keys, and  *)
(* for any number of lines, failures and restarts.                         *)
(***************************************************************************)
EXTENDS Ledger, SequenceTheorems, TLAPS

-----------------------------------------------------------------------------
(* Lemmas about ledgers *)

\* Every prefix of the ledger has a last record (or none, which counts as 0).
LastsExist(lines) ==
    \A n \in 0..Len(lines) : \E i \in 0..n : LastAt(lines, n, i)

\* The last record is the one LastAt describes: there is no second.
LEMMA LastHashIs ==
    ASSUME NEW lines \in Seq(Lines), NEW i \in 0..Len(lines),
           LastAt(lines, Len(lines), i)
    PROVE  LastHash(lines) = HashAt(lines, i)
<1> DEFINE c == CHOOSE j \in 0..Len(lines) : LastAt(lines, Len(lines), j)
<1>1. c \in 0..Len(lines) /\ LastAt(lines, Len(lines), c)
  OBVIOUS
<1>2. c = i
  BY <1>1 DEF LastAt
<1>3. QED
  BY <1>2 DEF LastHash

\* A hash recorded in the ledger is a hash.
LEMMA HashAtType ==
    ASSUME NEW lines \in Seq(Lines), NEW i \in 0..Len(lines),
           i > 0 => lines[i].chained
    PROVE  HashAt(lines, i) \in Hashes
<1>1. CASE i = 0
  BY <1>1 DEF HashAt, Genesis, Hashes
<1>2. CASE i > 0
  <2>1. lines[i] \in Lines /\ lines[i].chained
    BY <1>2, ElementOfSeq
  <2>2. lines[i] \in ChainedLines
    BY <2>1 DEF Lines, Unchained
  <2>3. lines[i].record_hash \in Hashes
    BY <2>2 DEF ChainedLines
  <2>4. QED
    BY <1>2, <2>3 DEF HashAt
<1>3. QED
  BY <1>1, <1>2

\* So the hash an append continues from is one too.
LEMMA LastHashType ==
    ASSUME NEW lines \in Seq(Lines), LastsExist(lines)
    PROVE  LastHash(lines) \in Hashes
<1>1. PICK i \in 0..Len(lines) : LastAt(lines, Len(lines), i)
  BY DEF LastsExist
<1>2. HashAt(lines, i) \in Hashes
  BY <1>1, HashAtType DEF LastAt
<1>3. QED
  BY <1>1, <1>2, LastHashIs

\* What append_audit writes is a chained line.
LEMMA RecordType ==
    ASSUME NEW e \in Events, NEW h \in Hashes
    PROVE  /\ Record(e, h) \in Lines
           /\ Record(e, h).chained
           /\ RecordHash(e, h) \in Hashes
  BY AppendProperties DEF Record, RecordHash, Lines, ChainedLines, Hashes

\* What a write does: either a line more, or the open last line spoilt.
LEMMA WrittenToLines ==
    ASSUME NEW lines \in Seq(Lines), NEW line \in Lines, NEW open \in BOOLEAN,
           open => lines # <<>>
    PROVE  LET new == WrittenTo(lines, open, line)
               len == IF open THEN Len(lines) ELSE Len(lines) + 1
           IN  /\ new \in Seq(Lines)
               /\ Len(new) = len
               /\ len \in Nat \ {0}
               /\ len - 1 \in 0..Len(lines)
               /\ new[len] = IF open THEN Unchained ELSE line
               /\ \A i \in 1..(len - 1) : new[i] = lines[i]
<1>1. CASE open
  <2>1. Len(lines) \in 1..Len(lines)
    BY <1>1, EmptySeq, LenProperties
  <2>2. Unchained \in Lines
    BY DEF Lines
  <2>3. QED
    BY <1>1, <2>1, <2>2, ExceptSeq DEF WrittenTo
<1>2. CASE ~open
  BY <1>2, AppendProperties, LenProperties DEF WrittenTo
<1>3. QED
  BY <1>1, <1>2

\* Below the line it touches, a write changes nothing LastAt speaks of.
LEMMA WrittenToLastAt ==
    ASSUME NEW lines \in Seq(Lines), NEW line \in Lines, NEW open \in BOOLEAN,
           open => lines # <<>>,
           NEW n \in Nat,
           n < IF open THEN Len(lines) ELSE Len(lines) + 1,
           NEW i \in 0..n
    PROVE  /\ LastAt(WrittenTo(lines, open, line), n, i) <=> LastAt(lines, n, i)
           /\ HashAt(WrittenTo(lines, open, line), i) = HashAt(lines, i)
<1>1. \A k \in 1..n : WrittenTo(lines, open, line)[k] = lines[k]
  BY WrittenToLines, LenProperties
<1>2. QED
  BY <1>1 DEF LastAt, HashAt

\* LastsExist is kept when a line is written, glued to a torn one or not.
LEMMA WrittenToLastsExist ==
    ASSUME NEW lines \in Seq(Lines), NEW line \in Lines, NEW open \in BOOLEAN,
           open => lines # <<>>, LastsExist(lines)
    PROVE  LastsExist(WrittenTo(lines, open, line))
<1> DEFINE new == WrittenTo(lines, open, line)
           len == IF open THEN Len(lines) ELSE Len(lines) + 1
<1>1. /\ new \in Seq(Lines) /\ Len(new) = len /\ len \in Nat \ {0}
      /\ len - 1 \in 0..Len(lines)
  BY WrittenToLines
<1>2. ASSUME NEW n \in 0..(len - 1)
      PROVE  \E i \in 0..n : LastAt(new, n, i)
  <2>1. PICK i \in 0..n : LastAt(lines, n, i)
    BY <1>1, <1>2, LenProperties DEF LastsExist
  <2>2. LastAt(new, n, i)
    BY <1>1, <2>1, WrittenToLastAt
  <2>3. QED
    BY <2>2
<1>3. \E i \in 0..len : LastAt(new, len, i)
  <2>1. CASE new[len].chained
    <3>1. LastAt(new, len, len)
      BY <1>1, <2>1 DEF LastAt
    <3>2. QED
      BY <1>1, <3>1
  <2>2. CASE ~new[len].chained
    <3>1. PICK i \in 0..(len - 1) : LastAt(new, len - 1, i)
      BY <1>1, <1>2
    <3>2. LastAt(new, len, i)
      BY <1>1, <2>2, <3>1 DEF LastAt
    <3>3. QED
      BY <1>1, <3>2
  <2>3. QED
    BY <2>1, <2>2
<1>4. \A n \in 0..len : n \in 0..(len - 1) \/ n = len
  BY <1>1
<1>5. QED
  BY <1>1, <1>2, <1>3, <1>4 DEF LastsExist

\* A write keeps the chain together if its record continues from the last one.
LEMMA WrittenToChainedTogether ==
    ASSUME NEW lines \in Seq(Lines), NEW open \in BOOLEAN,
           open => lines # <<>>, LastsExist(lines), ChainedTogether(lines),
           NEW e \in Events,
           NEW line \in {Unchained, Record(e, LastHash(lines))}
    PROVE  ChainedTogether(WrittenTo(lines, open, line))
<1> DEFINE new == WrittenTo(lines, open, line)
           len == IF open THEN Len(lines) ELSE Len(lines) + 1
<1>1. LastHash(lines) \in Hashes
  BY LastHashType
<1>2. line \in Lines
  BY <1>1, RecordType DEF Lines
<1>3. /\ new \in Seq(Lines) /\ Len(new) = len /\ len \in Nat \ {0}
      /\ new[len] = IF open THEN Unchained ELSE line
      /\ \A i \in 1..(len - 1) : new[i] = lines[i]
      /\ len - 1 \in 0..Len(lines)
  BY <1>2, WrittenToLines
<1>4. SUFFICES ASSUME NEW i \in 1..len, new[i].chained
               PROVE  /\ new[i].record_hash =
                             RecordHash(new[i].content, new[i].prev_hash)
                      /\ \A j \in 0..(i - 1) :
                             LastAt(new, i - 1, j) =>
                                 new[i].prev_hash = HashAt(new, j)
  BY <1>3, LenProperties DEF ChainedTogether
<1>5. \A j \in 0..(i - 1) :
          /\ LastAt(new, i - 1, j) <=> LastAt(lines, i - 1, j)
          /\ HashAt(new, j) = HashAt(lines, j)
  BY <1>2, <1>3, WrittenToLastAt
<1>6. CASE i < len
  <2>1. i \in 1..Len(lines) /\ new[i] = lines[i]
    BY <1>3, <1>6, LenProperties
  <2>2. QED
    BY <1>4, <1>5, <2>1, LenProperties DEF ChainedTogether
<1>7. CASE i = len
  <2>1. ~open /\ new[i] = Record(e, LastHash(lines))
    BY <1>3, <1>4, <1>7 DEF Unchained
  <2>2. i - 1 = Len(lines)
    BY <1>7, <2>1, LenProperties
  <2>3. \A j \in 0..(i - 1) :
            LastAt(lines, i - 1, j) => LastHash(lines) = HashAt(lines, j)
    BY <2>2, LastHashIs
  <2>4. QED
    BY <1>5, <2>1, <2>3 DEF Record
<1>8. QED
  BY <1>3, <1>4, <1>6, <1>7

-----------------------------------------------------------------------------
(* Types *)

TypeInv ==
    /\ TypeOK
    /\ LastsExist(ledger)
    /\ openTail => ledger # <<>>

\* The sidecars that are loaded and saved are sidecars.
LEMMA HeadTypes ==
    ASSUME NEW k \in Keys \cup {NoKey}, NEW h \in Hashes, NEW n \in Nat
    PROVE  /\ Sidecar(k, h, n) \in Heads
           /\ MissingHead \in Heads
           /\ UnreadableHead \in Heads
           /\ NoHead \in [head_hash : Hashes, entries : Nat]
<1>1. Genesis \in Hashes
  BY EmptySeq DEF Genesis, Hashes
<1>2. HeadMac(k, h, n) \in Macs
  BY DEF HeadMac, Macs, NoMac
<1>3. NoMac \in Macs
  BY DEF Macs
<1>4. QED
  BY <1>1, <1>2, <1>3 DEF Sidecar, MissingHead, UnreadableHead, NoHead, Heads

\* Every new deployment is well typed.
LEMMA InitTypes == Init => TypeInv
<1> SUFFICES ASSUME Init PROVE TypeInv
  OBVIOUS
<1>1. ledger \in Seq(Lines) /\ LastsExist(ledger) /\ openTail = FALSE
  <2>1. Unchained \in Lines /\ ~Unchained.chained
    BY DEF Lines, Unchained
  <2>2. CASE ledger = <<>>
    BY <2>2, EmptySeq DEF Init, LastsExist, LastAt
  <2>3. CASE ledger = <<Unchained>>
    <3>1. ledger \in Seq(Lines) /\ Len(ledger) = 1 /\ ledger[1] = Unchained
      BY <2>1, <2>3
    <3>2. \A n \in 0..1 : LastAt(ledger, n, 0)
      BY <2>1, <3>1 DEF LastAt
    <3>3. QED
      BY <3>1, <3>2 DEF Init, LastsExist
  <2>4. QED
    BY <2>2, <2>3 DEF Init
<1>2. key \in Keys \cup {NoKey}
  BY LedgerAssumption DEF Init
<1>3. /\ head \in Heads /\ durable \in Heads
      /\ NoHead \in [head_hash : Hashes, entries : Nat]
  <2>1. <<>> \in Hashes
    BY EmptySeq DEF Hashes
  <2>2. QED
    BY <1>2, <2>1, HeadTypes DEF Init
<1>4. QED
  BY <1>1, <1>2, <1>3 DEF Init, TypeInv, TypeOK, PCs, Hashes

\* Whatever line is written, ledger and seen stay in their types.
LEMMA WriteTypes ==
    ASSUME TypeInv, NEW line \in Lines
    PROVE  /\ Written(line) \in Seq(Lines)
           /\ LastsExist(Written(line))
           /\ Written(line) # <<>>
<1>1. ledger \in Seq(Lines) /\ openTail \in BOOLEAN
      /\ (openTail => ledger # <<>>) /\ LastsExist(ledger)
  BY DEF TypeInv, TypeOK
<1>2. Written(line) \in Seq(Lines) /\ Len(Written(line)) \in Nat \ {0}
  BY <1>1, WrittenToLines DEF Written
<1>3. QED
  BY <1>1, <1>2, WrittenToLastsExist, EmptySeq DEF Written

\* Every action moves one process between two of the places, or all to "idle".
LEMMA MoveTypes ==
    ASSUME TypeInv, NEW p \in Procs, NEW from \in PCs, NEW to \in PCs,
           Step(p, from, to)
    PROVE  pc' \in [Procs -> PCs]
  BY DEF Step, TypeInv, TypeOK

\* Recording what a process has seen keeps seen in its type.
LEMMA SeesTypes ==
    ASSUME TypeInv, NEW p \in Procs,
           NEW h \in [head_hash : Hashes, entries : Nat], Sees(p, h)
    PROVE  seen' \in [Procs -> [head_hash : Hashes, entries : Nat]]
  BY DEF Sees, TypeInv, TypeOK

\* Replacing the sidecar leaves a sidecar, and a durable one, on the disk.
LEMMA ReplaceTypes ==
    ASSUME TypeInv, NEW h \in Hashes, NEW n \in Nat, Replace(Sidecar(key, h, n))
    PROVE  head' \in Heads /\ durable' \in Heads
<1>1. Sidecar(key, h, n) \in Heads
  BY HeadTypes DEF TypeInv, TypeOK
<1>2. QED
  BY <1>1 DEF Replace, TypeInv, TypeOK

\* Every step keeps every variable in its type.
LEMMA NextTypes == TypeInv /\ [Next]_vars => TypeInv'
<1> SUFFICES ASSUME TypeInv, [Next]_vars PROVE TypeInv'
  OBVIOUS
<1> USE DEF disk, sidecar, history, verification, LockFree, Unlock
<1>0. \A p \in Procs : seen[p] \in [head_hash : Hashes, entries : Nat]
  BY DEF TypeInv, TypeOK
<1>1. NoHead \in [head_hash : Hashes, entries : Nat]
  <2>1. NoKey \in Keys \cup {NoKey} /\ <<>> \in Hashes /\ 0 \in Nat
    BY EmptySeq DEF Hashes
  <2>2. QED
    BY <2>1, HeadTypes
<1>2. /\ \A w \in Writers : w \in Procs
      /\ \A a \in Adopters : a \in Procs
      /\ \A v \in Verifiers : v \in Procs
      /\ {"idle", "waiting", "write", "written", "closing", "load", "walk",
          "sign", "anchor"} \subseteq PCs
  BY DEF Procs, PCs
<1>3. \A w \in Writers, e \in Events :
          /\ Record(e, seen[w].head_hash) \in Lines
          /\ RecordHash(e, seen[w].head_hash) \in Hashes
  BY <1>0, <1>2, RecordType
<1>4. ASSUME NEW w \in Writers, Request(w)
      PROVE  TypeInv'
  <2>1. pc' \in [Procs -> PCs]
    BY <1>2, <1>4, MoveTypes DEF Request
  <2>2. QED
    BY <1>4, <2>1 DEF Request, TypeInv, TypeOK
<1>5. ASSUME NEW w \in Writers, Acquire(w)
      PROVE  TypeInv'
  <2>1. pc' \in [Procs -> PCs]
    BY <1>2, <1>5, MoveTypes DEF Acquire
  <2>2. LastHash(ledger) \in Hashes /\ head.entries \in Nat
    BY LastHashType DEF TypeInv, TypeOK, Heads
  <2>3. seen' \in [Procs -> [head_hash : Hashes, entries : Nat]]
    BY <1>2, <1>5, <2>2, SeesTypes DEF Acquire
  <2>4. QED
    BY <1>5, <2>1, <2>3 DEF Acquire, TypeInv, TypeOK
<1>5a. ASSUME NEW w \in Writers, AcquireUnread(w)
       PROVE  TypeInv'
  <2>1. pc' \in [Procs -> PCs]
    BY <1>2, <1>5a, MoveTypes DEF AcquireUnread
  <2>2. LastHash(ledger) \in Hashes /\ 0 \in Nat
    BY LastHashType DEF TypeInv, TypeOK
  <2>3. seen' \in [Procs -> [head_hash : Hashes, entries : Nat]]
    BY <1>2, <1>5a, <2>2, SeesTypes DEF AcquireUnread
  <2>4. QED
    BY <1>5a, <2>1, <2>3 DEF AcquireUnread, TypeInv, TypeOK
<1>6. ASSUME NEW w \in Writers, Refuse(w)
      PROVE  TypeInv'
  <2>1. pc' \in [Procs -> PCs]
    BY <1>2, <1>6, MoveTypes DEF Refuse
  <2>2. QED
    BY <1>6, <2>1 DEF Refuse, TypeInv, TypeOK
<1>7. ASSUME NEW w \in Writers, NEW e \in Events, WriteLine(w, e)
      PROVE  TypeInv'
  <2>1. pc' \in [Procs -> PCs]
    BY <1>2, <1>7, MoveTypes DEF WriteLine
  <2>2. /\ ledger' \in Seq(Lines) /\ LastsExist(ledger') /\ ledger' # <<>>
    BY <1>3, <1>7, WriteTypes DEF WriteLine
  <2>3. seen[w].entries + 1 \in Nat
    BY <1>0, <1>2
  <2>4. seen' \in [Procs -> [head_hash : Hashes, entries : Nat]]
    BY <1>2, <1>3, <1>7, <2>3, SeesTypes DEF WriteLine, NextHead
  <2>5. QED
    BY <1>7, <2>1, <2>2, <2>4 DEF WriteLine, TypeInv, TypeOK
<1>8. ASSUME NEW w \in Writers, SaveHead(w)
      PROVE  TypeInv'
  <2>1. pc' \in [Procs -> PCs]
    BY <1>2, <1>8, MoveTypes DEF SaveHead
  <2>2. seen' \in [Procs -> [head_hash : Hashes, entries : Nat]]
    BY <1>1, <1>2, <1>8, SeesTypes DEF SaveHead
  <2>3. head' \in Heads /\ durable' \in Heads
    BY <1>0, <1>2, <1>8, ReplaceTypes DEF SaveHead
  <2>4. acked' \subseteq Hashes
    BY <1>0, <1>2, <1>8 DEF SaveHead, TypeInv, TypeOK
  <2>5. QED
    BY <1>8, <2>1, <2>2, <2>3, <2>4 DEF SaveHead, TypeInv, TypeOK
<1>9. ASSUME NEW w \in Writers, NEW from \in PCs, NEW to \in PCs,
             Fail(w, from, to)
      PROVE  /\ pc' \in [Procs -> PCs] /\ lock' \in Writers \cup {Nobody}
             /\ faults' \in Nat
             /\ UNCHANGED <<head, durable, key, verdict, foul, calm, acked,
                            restarts>>
  <2>1. pc' \in [Procs -> PCs]
    BY <1>2, <1>9, MoveTypes DEF Fail
  <2>2. QED
    BY <1>9, <2>1 DEF Fail, TypeInv, TypeOK
<1>10. ASSUME NEW w \in Writers, FailBeforeWrite(w)
       PROVE  TypeInv'
  <2>1. seen' \in [Procs -> [head_hash : Hashes, entries : Nat]]
    BY <1>1, <1>2, <1>10, SeesTypes DEF FailBeforeWrite
  <2>2. Fail(w, "write", "idle") /\ "write" \in PCs /\ "idle" \in PCs
    BY <1>2, <1>10 DEF FailBeforeWrite
  <2>3. QED
    BY <1>9, <1>10, <2>1, <2>2 DEF FailBeforeWrite, TypeInv, TypeOK
<1>10a. ASSUME NEW w \in Writers, RefuseUnread(w)
        PROVE  TypeInv'
  <2>1. Fail(w, "waiting", "idle") /\ "waiting" \in PCs /\ "idle" \in PCs
    BY <1>2, <1>10a DEF RefuseUnread
  <2>2. QED
    BY <1>9, <1>10a, <2>1 DEF RefuseUnread, TypeInv, TypeOK
<1>11. ASSUME NEW w \in Writers, NEW e \in Events, ShortWrite(w, e)
       PROVE  TypeInv'
  <2>1. seen' \in [Procs -> [head_hash : Hashes, entries : Nat]]
    BY <1>1, <1>2, <1>11, SeesTypes DEF ShortWrite
  <2>2. Fail(w, "write", "idle") /\ "write" \in PCs /\ "idle" \in PCs
    BY <1>2, <1>11 DEF ShortWrite
  <2>3. Unchained \in Lines
    BY DEF Lines
  <2>4. /\ ledger' \in Seq(Lines) /\ LastsExist(ledger') /\ ledger' # <<>>
    BY <1>3, <1>11, <2>3, WriteTypes DEF ShortWrite
  <2>5. QED
    BY <1>9, <1>11, <2>1, <2>2, <2>4 DEF ShortWrite, TypeInv, TypeOK
<1>12. ASSUME NEW w \in Writers, FailAfterWrite(w)
       PROVE  TypeInv'
  <2>1. seen' \in [Procs -> [head_hash : Hashes, entries : Nat]]
    BY <1>1, <1>2, <1>12, SeesTypes DEF FailAfterWrite
  <2>2. Fail(w, "written", "idle") /\ "written" \in PCs /\ "idle" \in PCs
    BY <1>2, <1>12 DEF FailAfterWrite
  <2>3. QED
    BY <1>9, <1>12, <2>1, <2>2 DEF FailAfterWrite, TypeInv, TypeOK
<1>13. ASSUME NEW w \in Writers, FlushFails(w)
       PROVE  TypeInv'
  <2>1. Fail(w, "write", "closing") /\ "write" \in PCs /\ "closing" \in PCs
    BY <1>2, <1>13 DEF FlushFails
  <2>2. QED
    BY <1>9, <1>13, <2>1 DEF FlushFails, TypeInv, TypeOK
<1>14. ASSUME NEW w \in Writers, NEW e \in Events, CloseFlushes(w, e)
       PROVE  TypeInv'
  <2>1. pc' \in [Procs -> PCs]
    BY <1>2, <1>14, MoveTypes DEF CloseFlushes
  <2>2. seen' \in [Procs -> [head_hash : Hashes, entries : Nat]]
    BY <1>1, <1>2, <1>14, SeesTypes DEF CloseFlushes
  <2>3. /\ ledger' \in Seq(Lines) /\ LastsExist(ledger') /\ ledger' # <<>>
    BY <1>3, <1>14, WriteTypes DEF CloseFlushes
  <2>4. QED
    BY <1>14, <2>1, <2>2, <2>3 DEF CloseFlushes, TypeInv, TypeOK
<1>15. ASSUME NEW w \in Writers, CloseFails(w)
       PROVE  TypeInv'
  <2>1. pc' \in [Procs -> PCs]
    BY <1>2, <1>15, MoveTypes DEF CloseFails
  <2>2. seen' \in [Procs -> [head_hash : Hashes, entries : Nat]]
    BY <1>1, <1>2, <1>15, SeesTypes DEF CloseFails
  <2>3. QED
    BY <1>15, <2>1, <2>2 DEF CloseFails, TypeInv, TypeOK
<1>16. ASSUME NEW p \in Procs, WalkLoadsHead(p)
       PROVE  TypeInv'
  <2>1. pc' \in [Procs -> PCs]
    BY <1>2, <1>16, MoveTypes DEF WalkLoadsHead
  <2>2. head.head_hash \in Hashes /\ head.entries \in Nat
    BY DEF TypeInv, TypeOK, Heads
  <2>3. seen' \in [Procs -> [head_hash : Hashes, entries : Nat]]
    BY <1>16, <2>2, SeesTypes DEF WalkLoadsHead
  <2>4. QED
    BY <1>16, <2>1, <2>3 DEF WalkLoadsHead, TypeInv, TypeOK
<1>16a. ASSUME NEW p \in Procs, WalkLoadsNothing(p)
        PROVE  TypeInv'
  <2>1. pc' \in [Procs -> PCs]
    BY <1>2, <1>16a, MoveTypes DEF WalkLoadsNothing
  <2>2. seen' \in [Procs -> [head_hash : Hashes, entries : Nat]]
    BY <1>1, <1>2, <1>16a, SeesTypes DEF WalkLoadsNothing
  <2>3. calm' \in [Verifiers -> BOOLEAN]
    BY <1>16a DEF WalkLoadsNothing, TypeInv, TypeOK
  <2>4. QED
    BY <1>16a, <2>1, <2>2, <2>3 DEF WalkLoadsNothing, TypeInv, TypeOK
<1>17. ASSUME NEW a \in Adopters, AdoptCheck(a)
       PROVE  TypeInv'
  <2>1. pc' \in [Procs -> PCs]
    BY <1>2, <1>17, MoveTypes DEF AdoptCheck
  <2>2. QED
    BY <1>17, <2>1 DEF AdoptCheck, TypeInv, TypeOK
<1>18. ASSUME NEW a \in Adopters, AdoptWalk(a)
       PROVE  TypeInv'
  <2>1. pc' \in [Procs -> PCs]
    BY <1>2, <1>18, MoveTypes DEF AdoptWalk
  <2>2. QED
    BY <1>18, <2>1 DEF AdoptWalk, TypeInv, TypeOK
<1>19. ASSUME NEW a \in Adopters, AdoptRefuses(a)
       PROVE  TypeInv'
  <2>1. pc' \in [Procs -> PCs]
    BY <1>2, <1>19, MoveTypes DEF AdoptRefuses
  <2>2. seen' \in [Procs -> [head_hash : Hashes, entries : Nat]]
    BY <1>1, <1>2, <1>19, SeesTypes DEF AdoptRefuses
  <2>3. QED
    BY <1>19, <2>1, <2>2 DEF AdoptRefuses, TypeInv, TypeOK
<1>20. ASSUME NEW a \in Adopters, AdoptSave(a)
       PROVE  TypeInv'
  <2>1. pc' \in [Procs -> PCs]
    BY <1>2, <1>20, MoveTypes DEF AdoptSave
  <2>2. seen' \in [Procs -> [head_hash : Hashes, entries : Nat]]
    BY <1>1, <1>2, <1>20, SeesTypes DEF AdoptSave
  <2>3. head' \in Heads /\ durable' \in Heads
    BY <1>0, <1>2, <1>20, ReplaceTypes DEF AdoptSave
  <2>4. QED
    BY <1>20, <2>1, <2>2, <2>3 DEF AdoptSave, TypeInv, TypeOK
<1>21. ASSUME NEW v \in Verifiers, VerifyStart(v)
       PROVE  TypeInv'
  <2>1. pc' \in [Procs -> PCs]
    BY <1>2, <1>21, MoveTypes DEF VerifyStart
  <2>2. verdict' \in [Verifiers -> {"none", "ok", "bad"}]
        /\ foul' \in [Verifiers -> BOOLEAN]
        /\ calm' \in [Verifiers -> BOOLEAN]
    BY <1>21 DEF VerifyStart, TypeInv, TypeOK
  <2>3. QED
    BY <1>21, <2>1, <2>2 DEF VerifyStart, TypeInv, TypeOK
<1>22. ASSUME NEW v \in Verifiers, VerifyWalkPasses(v)
       PROVE  TypeInv'
  <2>1. pc' \in [Procs -> PCs]
    BY <1>2, <1>22, MoveTypes DEF VerifyWalkPasses
  <2>2. QED
    BY <1>22, <2>1 DEF VerifyWalkPasses, TypeInv, TypeOK
<1>23. ASSUME NEW v \in Verifiers, NEW from \in PCs, NEW ok,
              Step(v, from, "idle"), Conclude(v, ok)
       PROVE  TypeInv'
  <2>1. pc' \in [Procs -> PCs]
    BY <1>2, <1>23, MoveTypes
  <2>2. seen' \in [Procs -> [head_hash : Hashes, entries : Nat]]
    BY <1>1, <1>2, <1>23, SeesTypes DEF Conclude
  <2>3. verdict' \in [Verifiers -> {"none", "ok", "bad"}]
    BY <1>23 DEF Conclude, TypeInv, TypeOK
  <2>4. QED
    BY <1>23, <2>1, <2>2, <2>3 DEF Conclude, TypeInv, TypeOK
<1>24. ASSUME NEW v \in Verifiers, VerifyWalkFails(v) \/ VerifyAnchor(v)
       PROVE  TypeInv'
  BY <1>2, <1>23, <1>24 DEF VerifyWalkFails, VerifyAnchor
<1>25. ASSUME NEW k \in KeySettings, Restart(k) \/ PowerLoss(k)
       PROVE  TypeInv'
  <2>1. Reboot(k)
    BY <1>25 DEF Restart, PowerLoss
  <2>2. pc' \in [Procs -> PCs]
    BY <1>2, <2>1 DEF Reboot
  <2>3. k \in Keys \cup {NoKey}
    BY LedgerAssumption
  <2>4. head' \in Heads /\ durable' \in Heads
    <3>1. UnreadableHead \in Heads
      <4>1. NoKey \in Keys \cup {NoKey} /\ <<>> \in Hashes /\ 0 \in Nat
        BY EmptySeq DEF Hashes
      <4>2. QED
        BY <4>1, HeadTypes
    <3>2. QED
      BY <1>25, <3>1 DEF Restart, PowerLoss, TypeInv, TypeOK
  <2>5. QED
    BY <1>1, <2>1, <2>2, <2>3, <2>4 DEF Reboot, TypeInv, TypeOK
<1>26. CASE UNCHANGED vars
  BY <1>26 DEF vars, TypeInv, TypeOK
<1>27. QED
  BY <1>2, <1>4, <1>5, <1>5a, <1>6, <1>7, <1>8, <1>10, <1>10a, <1>11, <1>12,
     <1>13, <1>14, <1>15, <1>16, <1>16a, <1>17, <1>18, <1>19, <1>20, <1>21,
     <1>22, <1>24, <1>25, <1>26
     DEF Next, WriterNext, AppendStep, AppendFails, AdopterNext, VerifierNext

\* Every variable keeps its type, in every behaviour.
THEOREM TypeCorrect == Spec => []TypeOK
<1>1. Spec => []TypeInv
  BY InitTypes, NextTypes, PTL DEF Spec
<1>2. TypeInv => TypeOK
  BY DEF TypeInv
<1>3. QED
  BY <1>1, <1>2, PTL

-----------------------------------------------------------------------------
(* The chain never forks, if a failed flush is not repeated after the lock *)
(* is gone.  The lock protects what Acquire read until WriteLine uses it.  *)

\* The lock is held by the writer, if any, that is past the check of an append.
Holder == \A w \in Writers : pc[w] \in {"write", "written"} <=> lock = w

\* What the writer is about to continue from is still the last record.
Continues ==
    \A w \in Writers : pc[w] = "write" => seen[w].head_hash = LastHash(ledger)

NoneClosing == \A w \in Writers : pc[w] # "closing"

ChainInv ==
    /\ TypeInv
    /\ Holder
    /\ NoneClosing
    /\ Continues
    /\ ChainLinks

\* A new deployment satisfies the invariant of the chain.
LEMMA InitChain == Init => ChainInv
<1> SUFFICES ASSUME Init PROVE ChainInv
  OBVIOUS
<1>1. TypeInv
  BY InitTypes
<1>2. Holder /\ NoneClosing /\ Continues
  BY LedgerAssumption DEF Init, Holder, NoneClosing, Continues, Procs
<1>3. ChainLinks
  BY DEF Init, ChainLinks, ChainedTogether, Unchained
<1>4. QED
  BY <1>1, <1>2, <1>3 DEF ChainInv

\* A step of an adopter or a verifier disturbs nothing a writer relies on.
LEMMA OthersKeepChain ==
    ASSUME ChainInv, NEW p \in Adopters \cup Verifiers, NEW from, NEW to,
           Step(p, from, to), UNCHANGED <<ledger, lock>>,
           seen' = seen \/ \E h : Sees(p, h)
    PROVE  Holder' /\ NoneClosing' /\ Continues' /\ ChainLinks'
<1>1. \A w \in Writers : w # p /\ pc'[w] = pc[w] /\ seen'[w] = seen[w]
  BY LedgerAssumption DEF Step, Sees, ChainInv, TypeInv, TypeOK, Procs
<1>2. QED
  BY <1>1 DEF ChainInv, Holder, NoneClosing, Continues, ChainLinks

\* Every step keeps the invariant of the chain, when no flush is retried.
LEMMA NextChain ==
    ASSUME "retried" \notin DiskFaults, ChainInv, [Next]_vars
    PROVE  ChainInv'
<1> USE DEF disk, sidecar, history, verification, LockFree, Unlock
<1>1. TypeInv'
  BY NextTypes DEF ChainInv
<1>2. /\ \A w \in Writers : w \in Procs /\ w # Nobody
      /\ pc \in [Procs -> PCs]
      /\ seen \in [Procs -> [head_hash : Hashes, entries : Nat]]
  BY LedgerAssumption DEF Procs, ChainInv, TypeInv, TypeOK
<1>3. ASSUME NEW w \in Writers, NEW from, NEW to, Step(w, from, to)
      PROVE  /\ pc[w] = from /\ pc'[w] = to
             /\ \A u \in Writers : u # w => pc'[u] = pc[u]
  BY <1>2, <1>3 DEF Step
<1>4. ASSUME NEW w \in Writers, NEW h, Sees(w, h)
      PROVE  seen'[w] = h /\ \A u \in Writers : u # w => seen'[u] = seen[u]
  BY <1>2, <1>4 DEF Sees
<1>5. ASSUME NEW w \in Writers,
             Request(w) \/ Refuse(w) \/ RefuseUnread(w)
      PROVE  Holder' /\ NoneClosing' /\ Continues' /\ ChainLinks'
  <2>1. /\ pc[w] \notin {"write", "written"}
        /\ pc'[w] \notin {"write", "written", "closing"}
        /\ \A u \in Writers : u # w => pc'[u] = pc[u]
    <3>1. CASE Request(w)
      BY <1>3, <3>1 DEF Request
    <3>2. CASE Refuse(w)
      BY <1>3, <3>2 DEF Refuse
    <3>3. CASE RefuseUnread(w)
      BY <1>3, <3>3 DEF RefuseUnread, Fail
    <3>4. QED
      BY <1>5, <3>1, <3>2, <3>3
  <2>2. UNCHANGED <<ledger, lock, seen>>
    BY <1>5 DEF Request, Refuse, RefuseUnread, Fail
  <2>3. QED
    BY <2>1, <2>2 DEF ChainInv, Holder, NoneClosing, Continues, ChainLinks
<1>6. ASSUME NEW w \in Writers, Acquire(w) \/ AcquireUnread(w)
      PROVE  Holder' /\ NoneClosing' /\ Continues' /\ ChainLinks'
  <2>1. /\ pc'[w] = "write" /\ lock = Nobody /\ lock' = w
        /\ \A u \in Writers : u # w => pc'[u] = pc[u]
        /\ UNCHANGED ledger
        /\ seen'[w].head_hash = LastHash(ledger)
    BY <1>3, <1>4, <1>6 DEF Acquire, AcquireUnread
  <2>2. \A u \in Writers : u # w => pc'[u] \notin {"write", "written"}
    BY <1>2, <2>1 DEF ChainInv, Holder
  <2>3. QED
    BY <2>1, <2>2 DEF ChainInv, Holder, NoneClosing, Continues, ChainLinks
<1>7. ASSUME NEW w \in Writers, NEW from, NEW to, Step(w, from, to),
             from \in {"write", "written"}, to \notin {"write", "closing"},
             \/ (to = "written" /\ lock' = lock)
             \/ (to = "idle" /\ lock' = Nobody)
      PROVE  /\ Holder' /\ NoneClosing'
             /\ \A u \in Writers : pc'[u] # "write"
  BY <1>2, <1>3, <1>7 DEF ChainInv, Holder, NoneClosing
<1>8. ASSUME NEW w \in Writers, NEW e \in Events, NEW line,
             line \in {Unchained, Record(e, seen[w].head_hash)},
             pc[w] = "write", ledger' = Written(line)
      PROVE  ChainLinks'
  <2>1. line \in {Unchained, Record(e, LastHash(ledger))}
    BY <1>8 DEF ChainInv, Continues
  <2>2. QED
    BY <1>8, <2>1, WrittenToChainedTogether
       DEF ChainInv, TypeInv, TypeOK, ChainLinks, Written
<1>9. ASSUME NEW w \in Writers, NEW e \in Events, WriteLine(w, e)
      PROVE  Holder' /\ NoneClosing' /\ Continues' /\ ChainLinks'
  <2>1. Step(w, "write", "written") /\ lock' = lock
    BY <1>9 DEF WriteLine
  <2>2. Holder' /\ NoneClosing' /\ \A u \in Writers : pc'[u] # "write"
    BY <1>7, <2>1
  <2>3. ChainLinks'
    BY <1>3, <1>8, <1>9 DEF WriteLine
  <2>4. QED
    BY <2>2, <2>3 DEF Continues
<1>10. ASSUME NEW w \in Writers, NEW e \in Events, ShortWrite(w, e)
       PROVE  Holder' /\ NoneClosing' /\ Continues' /\ ChainLinks'
  <2>1. Holder' /\ NoneClosing' /\ \A u \in Writers : pc'[u] # "write"
    BY <1>7, <1>10 DEF ShortWrite, Fail
  <2>2. ChainLinks'
    BY <1>3, <1>8, <1>10 DEF ShortWrite, Fail
  <2>3. QED
    BY <2>1, <2>2 DEF Continues
<1>11. ASSUME NEW w \in Writers,
              SaveHead(w) \/ FailBeforeWrite(w) \/ FailAfterWrite(w)
       PROVE  Holder' /\ NoneClosing' /\ Continues' /\ ChainLinks'
  <2>1. Holder' /\ NoneClosing' /\ \A u \in Writers : pc'[u] # "write"
    BY <1>7, <1>11 DEF SaveHead, FailBeforeWrite, FailAfterWrite, Fail
  <2>2. UNCHANGED ledger
    BY <1>11 DEF SaveHead, FailBeforeWrite, FailAfterWrite
  <2>3. QED
    BY <2>1, <2>2 DEF ChainInv, Continues, ChainLinks
<1>12. ASSUME NEW w \in Writers, FlushFails(w)
       PROVE  FALSE
  BY <1>12 DEF FlushFails
<1>13. ASSUME NEW w \in Writers,
              CloseFails(w) \/ \E e \in Events : CloseFlushes(w, e)
       PROVE  FALSE
  <2>1. pc[w] = "closing"
    BY <1>13 DEF CloseFlushes, CloseFails, Step
  <2>2. QED
    BY <2>1 DEF ChainInv, NoneClosing
<1>14. ASSUME NEW a \in Adopters, AdopterNext(a)
       PROVE  Holder' /\ NoneClosing' /\ Continues' /\ ChainLinks'
  BY <1>14, OthersKeepChain
     DEF AdopterNext, AdoptCheck, WalkLoadsHead, WalkLoadsNothing, AdoptWalk,
         AdoptRefuses, AdoptSave
<1>15. ASSUME NEW v \in Verifiers, VerifierNext(v)
       PROVE  Holder' /\ NoneClosing' /\ Continues' /\ ChainLinks'
  BY <1>15, OthersKeepChain
     DEF VerifierNext, VerifyStart, WalkLoadsHead, WalkLoadsNothing,
         VerifyWalkPasses, VerifyWalkFails, VerifyAnchor, Conclude
<1>16. ASSUME NEW k \in KeySettings, Restart(k) \/ PowerLoss(k)
       PROVE  Holder' /\ NoneClosing' /\ Continues' /\ ChainLinks'
  <2>1. UNCHANGED ledger /\ lock' = Nobody
        /\ \A w \in Writers : pc'[w] = "idle"
    BY <1>2, <1>16 DEF Restart, PowerLoss, Reboot
  <2>2. QED
    BY <1>2, <2>1 DEF ChainInv, Holder, NoneClosing, Continues, ChainLinks
<1>17. ASSUME UNCHANGED vars
       PROVE  Holder' /\ NoneClosing' /\ Continues' /\ ChainLinks'
  BY <1>17 DEF vars, ChainInv, Holder, NoneClosing, Continues, ChainLinks
<1>18. Holder' /\ NoneClosing' /\ Continues' /\ ChainLinks'
  BY <1>5, <1>6, <1>9, <1>10, <1>11, <1>12, <1>13, <1>14, <1>15, <1>16, <1>17
     DEF Next, WriterNext, AppendStep, AppendFails
<1>19. QED
  BY <1>1, <1>18 DEF ChainInv

\* However many writers append, fail, tear lines and restart, the chain in the
\* ledger never forks: every record names the last record before it.
THEOREM ChainNeverForks ==
    ASSUME "retried" \notin DiskFaults
    PROVE  Spec => []ChainLinks
<1>1. ChainInv /\ [Next]_vars => ChainInv'
  BY NextChain
<1>2. ChainInv => ChainLinks
  BY DEF ChainInv
<1>3. QED
  BY InitChain, <1>1, <1>2, PTL DEF Spec

-----------------------------------------------------------------------------
(* Linked prefixes, and what one process's step leaves alone *)

\* The sidecar fields h and n name a linked prefix of the ledger.
Vouched(lines, h, n) ==
    n <= Len(lines) /\ Linked(lines, n) /\ h = HashAt(lines, n)

\* In a chain without a gap every line links to the one before it.
LEMMA AllChainedLinked ==
    ASSUME NEW lines \in Seq(Lines), ChainedTogether(lines),
           \A i \in DOMAIN lines : lines[i].chained
    PROVE  /\ Linked(lines, Len(lines))
           /\ LastHash(lines) = HashAt(lines, Len(lines))
<1>1. Len(lines) \in Nat /\ DOMAIN lines = 1..Len(lines)
  BY LenProperties
<1>2. \A n \in 0..Len(lines) : LastAt(lines, n, n)
  BY <1>1 DEF LastAt
<1>3. LastHash(lines) = HashAt(lines, Len(lines))
  BY <1>1, <1>2, LastHashIs
<1>4. ASSUME NEW i \in 1..Len(lines)
      PROVE  Links(lines, i)
  <2>1. i - 1 \in 0..(i - 1) /\ LastAt(lines, i - 1, i - 1)
    BY <1>1, <1>2
  <2>2. QED
    BY <1>1, <2>1 DEF ChainedTogether, Links
<1>5. QED
  BY <1>3, <1>4 DEF Linked

\* A linked prefix stays one when a line is appended.
LEMMA AppendLinked ==
    ASSUME NEW lines \in Seq(Lines), NEW line \in Lines,
           NEW n \in 0..Len(lines)
    PROVE  /\ Linked(Append(lines, line), n) <=> Linked(lines, n)
           /\ HashAt(Append(lines, line), n) = HashAt(lines, n)
<1>1. \A i \in 1..n : Append(lines, line)[i] = lines[i]
  BY AppendProperties, LenProperties
<1>2. \A i \in 0..n : HashAt(Append(lines, line), i) = HashAt(lines, i)
  BY <1>1 DEF HashAt
<1>3. \A i \in 1..n : Links(Append(lines, line), i) <=> Links(lines, i)
  BY <1>1, <1>2 DEF Links
<1>4. QED
  BY <1>2, <1>3, LenProperties DEF Linked

\* A head that vouches for a ledger vouches for it with a line more.
LEMMA AppendVouched ==
    ASSUME NEW lines \in Seq(Lines), NEW line \in Lines,
           NEW h, NEW n \in Nat, Vouched(lines, h, n)
    PROVE  Vouched(Append(lines, line), h, n)
<1>1. n \in 0..Len(lines)
  BY LenProperties DEF Vouched
<1>2. QED
  BY <1>1, AppendLinked, AppendProperties, LenProperties DEF Vouched

\* After a record is appended it is the last one, and the ledger is longer by it.
LEMMA AppendLastHash ==
    ASSUME NEW lines \in Seq(Lines), NEW e \in Events, NEW h \in Hashes
    PROVE  LET new == Append(lines, Record(e, h)) IN
           /\ LastHash(new) = RecordHash(e, h)
           /\ HashAt(new, Len(lines) + 1) = RecordHash(e, h)
<1> DEFINE new == Append(lines, Record(e, h))
           n == Len(lines) + 1
<1>1. Record(e, h) \in Lines /\ Record(e, h).chained
  BY RecordType
<1>2. new \in Seq(Lines) /\ Len(new) = n /\ new[n] = Record(e, h)
  BY <1>1, AppendProperties
<1>3. n \in 1..n /\ n \in 0..Len(new)
  BY <1>2, LenProperties
<1>4. LastAt(new, Len(new), n)
  BY <1>1, <1>2, <1>3 DEF LastAt
<1>5. HashAt(new, n) = RecordHash(e, h)
  BY <1>2, <1>3 DEF HashAt, Record
<1>6. QED
  BY <1>2, <1>3, <1>4, <1>5, LastHashIs

\* A record that continues a vouched whole ledger extends what is vouched for.
LEMMA AppendVouchedRecord ==
    ASSUME NEW lines \in Seq(Lines), NEW e \in Events, NEW h \in Hashes,
           Vouched(lines, h, Len(lines))
    PROVE  Vouched(Append(lines, Record(e, h)), RecordHash(e, h), Len(lines) + 1)
<1> DEFINE new == Append(lines, Record(e, h))
           n == Len(lines) + 1
<1>1. Record(e, h) \in Lines /\ Len(lines) \in Nat
  BY RecordType, LenProperties
<1>2. Len(new) = n /\ new[n] = Record(e, h)
  BY <1>1, AppendProperties
<1>3. Linked(new, Len(lines)) /\ HashAt(new, Len(lines)) = h
  BY <1>1, AppendLinked DEF Vouched
<1>4. Links(new, n)
  BY <1>1, <1>2, <1>3 DEF Links, Record
<1>5. HashAt(new, n) = RecordHash(e, h)
  BY AppendLastHash
<1>6. \A i \in 1..n : i \in 1..Len(lines) \/ i = n
  BY <1>1
<1>7. QED
  BY <1>1, <1>2, <1>3, <1>4, <1>5, <1>6 DEF Vouched, Linked

\* What one process's step leaves of the others.
LEMMA OneMoves ==
    ASSUME TypeInv, NEW p \in Procs, NEW from, NEW to, Step(p, from, to)
    PROVE  /\ pc[p] = from /\ pc'[p] = to
           /\ \A q \in Procs : q # p => pc'[q] = pc[q]
  BY DEF TypeInv, TypeOK, Step

\* Recording what p has seen leaves what the others have seen alone.
LEMMA OneSees ==
    ASSUME TypeInv, NEW p \in Procs, NEW h, Sees(p, h)
    PROVE  /\ seen'[p] = h
           /\ \A q \in Procs : q # p => seen'[q] = seen[q]
  BY DEF TypeInv, TypeOK, Sees
=============================================================================
