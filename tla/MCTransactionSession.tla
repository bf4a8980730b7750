------------------------ MODULE MCTransactionSession ------------------------
(* Instances of TransactionSession for TLC.                                *)
EXTENDS TransactionSession, TLC

CONSTANTS t1, t2, f1, f2

Symmetry == Permutations(Tx)
=============================================================================
