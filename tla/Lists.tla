-------------------------------- MODULE Lists --------------------------------
(***************************************************************************)
(* Sorting and filtering, by position: an element comes after as many      *)
(* elements as come before it.  (SortSeq and SelectSeq say the same by     *)
(* what they compute, which leaves nothing to reason about.)               *)
(***************************************************************************)
EXTENDS Integers, FiniteSets, Sequences

\* The elements of a set, each after those that come before it.
InOrder(S, before(_, _)) ==
    [k \in 1..Cardinality(S) |->
        CHOOSE i \in S : Cardinality({j \in S : before(j, i)}) = k - 1]

\* What a sequence holds at some of its positions, in its order.
Picked(seq, positions) ==
    LET at == InOrder(positions, <)
    IN  [k \in DOMAIN at |-> seq[at[k]]]
=============================================================================
