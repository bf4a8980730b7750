------------------------ MODULE MCReplacementSession ------------------------
(* Instances of ReplacementSession for TLC.                                *)
EXTENDS ReplacementSession, TLC

CONSTANTS t1, t2, t3, x1, x2

Symmetry == Permutations(Tx \ BoundTx) \cup Permutations(Foreign)
=============================================================================
