--------------------------- MODULE MCHybridSearch ---------------------------
(* Two documents of the caller and one of somebody else. *)
EXTENDS HybridSearch, TLC

CONSTANTS d1, d2, d3, alice, bob

MCOwner == (d1 :> alice) @@ (d2 :> alice) @@ (d3 :> bob)

\* The caller's documents are alike.
Alike == Permutations({d1, d2})
=============================================================================
