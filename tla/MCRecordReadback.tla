-------------------------- MODULE MCRecordReadback --------------------------
(* Instances of RecordReadback for TLC: the record r and the directory d   *)
(* that holds it, below the volume v.                                      *)
EXTENDS RecordReadback, TLC

CONSTANTS v, d, r

Parents == v :> None @@ d :> None @@ r :> d
TheRecord == <<r>>
TheFile == <<d>>
=============================================================================
