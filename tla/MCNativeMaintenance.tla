------------------------ MODULE MCNativeMaintenance ------------------------
(* Native custody on small installations.                                  *)
EXTENDS NativeMaintenance

AllOps == {"repair", "move", "uninstall"}

=============================================================================
