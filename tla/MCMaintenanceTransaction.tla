---------------------- MODULE MCMaintenanceTransaction ----------------------
(***************************************************************************)
(* Instances of MaintenanceTransaction for TLC.                            *)
(***************************************************************************)
EXTENDS MaintenanceTransaction

AllOps == {"repair", "move", "uninstall"}

=============================================================================
