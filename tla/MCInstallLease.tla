--------------------------- MODULE MCInstallLease ---------------------------
(* Instances of InstallLease for TLC.                                      *)
EXTENDS InstallLease, TLC

CONSTANTS p1, p2, p3, i1, m1, m2

Symmetry == Permutations(Proc) \cup Permutations(Maint)
=============================================================================
