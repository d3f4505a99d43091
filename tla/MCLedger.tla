------------------------------- MODULE MCLedger -------------------------------
(***************************************************************************)
(* Model checking of Ledger, and of what verification makes of ledgers     *)
(* that were changed behind its back.                                      *)
(***************************************************************************)
EXTENDS Ledger, SequencesExt

Symmetry == Permutations(Writers) \cup Permutations(Events)

-----------------------------------------------------------------------------
(* Every ledger one edit away from the one on the disk *)

Truncated(lines) == {SubSeq(lines, 1, n) : n \in 0..(Len(lines) - 1)}
Deleted(lines) == {RemoveAt(lines, i) : i \in DOMAIN lines}
Swapped(lines) ==
    {[lines EXCEPT ![i] = lines[j], ![j] = lines[i]] : i, j \in DOMAIN lines}
Edited(lines) ==
    {[lines EXCEPT ![i].content = e] : i \in DOMAIN lines, e \in Events}
Garbled(lines) == {[lines EXCEPT ![i] = Unchained] : i \in DOMAIN lines}

\* A chain as append_audit would have written it for other events: the hash that an
\* append continues from commits to the events before it.
Chain(events) ==
    [i \in DOMAIN events |-> Record(events[i], SubSeq(events, 1, i - 1))]
Rewritten(lines) ==
    {Chain(events) : events \in UNION {[1..n -> Events] : n \in 0..Len(lines)}}

Changed(lines) ==
    (Truncated(lines) \cup Deleted(lines) \cup Swapped(lines) \cup Edited(lines)
        \cup Garbled(lines) \cup Rewritten(lines)) \ {lines}

Quiet == lock = Nobody /\ ~damaged

\* No truncated, shortened, reordered, edited, garbled or rewritten ledger passes
\* the walk of verify_chain against the sidecar of the true one ("Any edit,
\* deletion, or reordering breaks the chain", store.py:10).
ChangeBreaksChain ==
    Quiet => \A lines \in Changed(ledger) : ~WalkChain(lines, head).ok

\* A rewritten ledger with an unsigned sidecar made to match it passes verify_chain
\* only where nothing anchors it: not when a key is configured, because the sidecar
\* has no MAC of it, and not when the caller knows the true head.  (With an earlier
\* head that was signed, put back with the lines up to it, the key finds no fault.)
AnchorTellsRewrite ==
    Quiet => \A lines \in Rewritten(ledger) \ {ledger} :
        LET forged == Sidecar(NoKey, LastHash(lines), Len(lines)) IN
        /\ WalkChain(lines, forged).ok
        /\ VerifyLedger(lines, forged, key, {}) <=> key = NoKey
        /\ ~VerifyLedger(lines, forged, key, {LastHash(ledger)})
=============================================================================
