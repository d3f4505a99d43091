------------------------------ MODULE MCReviews ------------------------------
(* Model checking of Reviews. *)
EXTENDS Reviews

Symmetry == Permutations(Workers) \cup Permutations(Ids)
=============================================================================
