------------------------------ MODULE HashChain ------------------------------
(***************************************************************************)
(* The data the audit ledger is made of, and the pure checks store.py      *)
(* makes on it: record hashes, the head sidecar and its MAC, the walk that *)
(* verify_chain and adopt_unsigned_ledger start from, the anchor check and *)
(* the test every append has to pass.                                      *)
(*                                                                         *)
(* A hash is modelled by what it commits to.  SHA-256 over the content and *)
(* the previous hash becomes the sequence of all the contents chained so   *)
(* far, so two hashes are equal exactly when what they commit to is equal  *)
(* (no collisions).  The HMAC likewise becomes the triple it is computed   *)
(* from.  A ledger line is either chained or not; the code treats a line   *)
(* that is not JSON and a legacy record without hashes alike, up to the    *)
(* wording of the reason, so both are the value Unchained.                 *)
(***************************************************************************)
EXTENDS Naturals, Sequences

CONSTANTS
    Events,     \* contents of ledger records
    Keys,       \* signing keys an operator may configure
    NoKey       \* no signing key configured

ASSUME NoKeyAssumption == NoKey \notin Keys

-----------------------------------------------------------------------------
(* Hashes and records *)

Hashes == Seq(Events)
Genesis == <<>>

RecordHash(content, prev_hash) == Append(prev_hash, content)

Unchained == [chained |-> FALSE]
ChainedLines == [chained : {TRUE}, content : Events,
                 prev_hash : Hashes, record_hash : Hashes]
Lines == ChainedLines \cup {Unchained}

Record(content, prev_hash) ==
    [chained |-> TRUE, content |-> content, prev_hash |-> prev_hash,
     record_hash |-> RecordHash(content, prev_hash)]

-----------------------------------------------------------------------------
(* The head an append continues from: the last record that has a hash.     *)

LastAt(lines, n, i) ==
    /\ i \in 0..n
    /\ i > 0 => lines[i].chained
    /\ \A j \in (i+1)..n : ~lines[j].chained

HashAt(lines, i) == IF i = 0 THEN Genesis ELSE lines[i].record_hash

LastHash(lines) ==
    HashAt(lines, CHOOSE i \in 0..Len(lines) : LastAt(lines, Len(lines), i))

\* Mutant: a keyed ledger skips the lines it cannot chain, like an unkeyed one.
LastHashSkips(lines, key) == FALSE

\* With a key configured _last_hash raises on the first line it cannot chain.
LastHashRaises(lines, key) ==
    key # NoKey /\ \E i \in DOMAIN lines : ~lines[i].chained

-----------------------------------------------------------------------------
(* Writing a line.  Where the last line has no newline the two become one  *)
(* line, which is not JSON.                                                *)

WrittenTo(lines, open, line) ==
    IF open THEN [lines EXCEPT ![Len(lines)] = Unchained]
    ELSE Append(lines, line)

ChainedIn(lines) == {i \in DOMAIN lines : lines[i].chained}

\* Every record's hash is right, and it names the last record before it.
ChainedTogether(lines) ==
    \A i \in DOMAIN lines : lines[i].chained =>
        /\ lines[i].record_hash =
               RecordHash(lines[i].content, lines[i].prev_hash)
        /\ \A j \in 0..(i - 1) :
               LastAt(lines, i - 1, j) => lines[i].prev_hash = HashAt(lines, j)

-----------------------------------------------------------------------------
(* The head sidecar (ledger_head.json) and its MAC *)

NoMac == [key |-> NoKey, head_hash |-> Genesis, entries |-> 0]
Macs == [key : Keys, head_hash : Hashes, entries : Nat] \cup {NoMac}

HeadMac(key, head_hash, entries) ==
    IF key = NoKey THEN NoMac
    ELSE [key |-> key, head_hash |-> head_hash, entries |-> entries]

Heads == [exists : BOOLEAN, head_hash : Hashes, entries : Nat, mac : Macs]
MissingHead ==
    [exists |-> FALSE, head_hash |-> Genesis, entries |-> 0, mac |-> NoMac]
UnreadableHead == [MissingHead EXCEPT !.exists = TRUE]

\* Mutant: the sidecar counts one line too many.
SidecarAhead(key, head_hash, entries) ==
    [exists |-> TRUE, head_hash |-> head_hash, entries |-> entries + 1,
     mac |-> HeadMac(key, head_hash, entries + 1)]

Sidecar(key, head_hash, entries) ==
    [exists |-> TRUE, head_hash |-> head_hash, entries |-> entries,
     mac |-> HeadMac(key, head_hash, entries)]

MacVerifies(head, key) == head.mac = HeadMac(key, head.head_hash, head.entries)

\* A sidecar that carries a MAC one of the keys produced over its own fields.
Signed(head) == head.mac # NoMac /\ MacVerifies(head, head.mac.key)

Fresh(lines, head) ==
    ~head.exists /\ head.entries = 0 /\ LastHash(lines) = Genesis

\* Mutant: the sidecar's MAC verifies, but its head need not be the last line.
AppendableAnyHead(lines, head, key) ==
    /\ ~LastHashRaises(lines, key)
    /\ \/ key = NoKey
       \/ Fresh(lines, head)
       \/ head.mac # NoMac /\ MacVerifies(head, key)

\* Mutant: there is a MAC, but nobody checks that the key produced it.
AppendableAnyMac(lines, head, key) ==
    /\ ~LastHashRaises(lines, key)
    /\ \/ key = NoKey
       \/ Fresh(lines, head)
       \/ head.mac # NoMac /\ head.head_hash = LastHash(lines)

\* _last_hash does not raise and _require_appendable lets the append through.
Appendable(lines, head, key) ==
    /\ ~LastHashRaises(lines, key)
    /\ \/ key = NoKey
       \/ Fresh(lines, head)
       \/ /\ head.mac # NoMac
          /\ MacVerifies(head, key)
          /\ head.head_hash = LastHash(lines)

-----------------------------------------------------------------------------
(* Verification *)

\* Mutant: the linkage is checked, the hash is not recomputed.
LinksUnhashed(lines, i) ==
    /\ lines[i].chained
    /\ lines[i].prev_hash = HashAt(lines, i - 1)

\* Line i is a record, names the line before it, and its hash recomputes.
Links(lines, i) ==
    /\ lines[i].chained
    /\ lines[i].prev_hash = HashAt(lines, i - 1)
    /\ lines[i].record_hash = RecordHash(lines[i].content, lines[i].prev_hash)

\* The first n lines all link: what the walk accepts.
Linked(lines, n) == \A i \in 1..n : Links(lines, i)

\* Mutant: the walk is not compared with the sidecar.
WalkChainAlone(lines, head) ==
    LET len == Len(lines)
    IN  [ok |-> Linked(lines, len), entries |-> len,
         head_hash |-> LastHash(lines), broken_at |-> 0]

WalkChain(lines, head) ==
    LET len == Len(lines)
        bad == CHOOSE i \in 1..len : Linked(lines, i - 1) /\ ~Links(lines, i)
    IN  IF Linked(lines, len)
        THEN [ok |-> /\ head.head_hash = HashAt(lines, len)
                     /\ head.entries = len,
              entries |-> len, head_hash |-> HashAt(lines, len), broken_at |-> 0]
        ELSE [ok |-> FALSE,
              entries |-> bad, head_hash |-> HashAt(lines, bad - 1),
              broken_at |-> bad]

Anchors == {"none", "expected_head", "hmac", "broken"}

\* Mutant: a sidecar without a MAC counts as unanchored, even with a key.
CheckAnchorLenient(walk, head, key, expected) ==
    IF expected # {} THEN
        IF walk.head_hash \in expected THEN "expected_head" ELSE "broken"
    ELSE IF head.mac = NoMac THEN "none"
    ELSE IF key # NoKey /\ MacVerifies(head, key) THEN "hmac" ELSE "broken"

\* expected is a set with the head hash the caller passed, or the empty set.
CheckAnchor(walk, head, key, expected) ==
    IF expected # {} THEN
        IF walk.head_hash \in expected THEN "expected_head" ELSE "broken"
    ELSE IF key = NoKey THEN "none"
    ELSE IF head.mac # NoMac /\ MacVerifies(head, key) THEN "hmac" ELSE "broken"

\* verify_chain without the reconciliation of reviews.json.
VerifyLedger(lines, head, key, expected) ==
    LET walk == WalkChain(lines, head)
    IN  walk.ok /\ CheckAnchor(walk, head, key, expected) # "broken"
=============================================================================
