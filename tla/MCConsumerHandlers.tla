------------------------- MODULE MCConsumerHandlers -------------------------
(***************************************************************************)
(* Instances of ConsumerHandlers for TLC: the services of the code and the *)
(* topics of each (LOW differs from MEDIUM in its name only).              *)
(***************************************************************************)
EXTENDS ConsumerHandlers

MCServices == {"webhook", "userAuth"}
MCTopicsOf == [webhook |-> {"MEDIUM"}, userAuth |-> {"user_auth"}]
=============================================================================
