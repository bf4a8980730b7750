-------------------------- MODULE PublicationPhases --------------------------
(***************************************************************************)
(* What the protected publication of an installation promises, whatever    *)
(* interrupts it.  It belongs to one plan for good: the one that took its  *)
(* lease or stored its snapshot first.  Its evidence goes through seven    *)
(* phases one at a time.  Until a candidate tree is staged its owner may   *)
(* put the snapshot aside and start again; afterwards nothing goes back.   *)
(***************************************************************************)
EXTENDS Naturals

CONSTANTS Plan, NoPlan

VARIABLES
    phase,  \* 0 none, 1 reviewed, 2 staged, 3 prepared, 4 visible,
            \* 5 recorded, 6 completed, 7 installed
    owner   \* the plan of the publication

Init == phase = 0 /\ owner = NoPlan

Reserve(p) == phase = 0 /\ owner = NoPlan /\ owner' = p /\ phase' = phase

Review(p) ==
    /\ phase = 0 /\ owner \in {NoPlan, p}
    /\ phase' = 1 /\ owner' = p

Restart == phase = 1 /\ phase' = 0 /\ owner' = owner

Advance ==
    /\ phase \in 1 .. 6
    /\ phase' = phase + 1
    /\ owner' = owner

Next == Restart \/ Advance \/ \E p \in Plan : Reserve(p) \/ Review(p)

Spec == Init /\ [][Next]_<<phase, owner>>
=============================================================================
