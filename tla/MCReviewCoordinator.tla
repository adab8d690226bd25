------------------------- MODULE MCReviewCoordinator -------------------------
(* Two panels over one chain: at a time, or one after the other.             *)
EXTENDS ReviewCoordinator, TLC

Symmetry == Permutations(Panel)
=============================================================================
