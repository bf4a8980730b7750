---------------------- MODULE MCPublisherRegistration ----------------------
(***************************************************************************)
(* PublisherRegistration for TLC: a laboratory and a client-admitting      *)
(* registration ask for the same name.                                     *)
(***************************************************************************)
EXTENDS PublisherRegistration

TwoControllers == {"c1", "c2"}
Operators == [c \in TwoControllers |->
                IF c = "c1" THEN Op ELSE {"register", "provision"}]
TwoRequests == {"lab", "admitted"}
LabRequest == {"lab"}
OneEnvelope == {"e1"}
=============================================================================
