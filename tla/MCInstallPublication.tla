------------------------ MODULE MCInstallPublication ------------------------
(***************************************************************************)
(* InstallPublication for TLC: two plans, so that a request can name the   *)
(* wrong one.                                                              *)
(***************************************************************************)
EXTENDS InstallPublication

TwoPlans == {"p1", "p2"}
TwoFiles == {"f1", "f2"}
BothRoutes == {"lab", "child"}
=============================================================================
