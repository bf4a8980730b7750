------------------------- MODULE MCPublisherService -------------------------
(* Instances of PublisherService for TLC.                                  *)
EXTENDS PublisherService, TLC

CONSTANTS a1, a2, o1

Symmetry == Permutations(Attempts)
=============================================================================
