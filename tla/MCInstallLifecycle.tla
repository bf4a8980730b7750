------------------------- MODULE MCInstallLifecycle -------------------------
(* Instances of InstallLifecycle for TLC.                                  *)
EXTENDS InstallLifecycle

CONSTANTS t1, t2, u1

(* Up to the names of the transactions, every choice.                      *)
EverySource == {{}, {t1}, {t1, t2}}
=============================================================================
