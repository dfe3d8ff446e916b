---------------------------- MODULE MCApiServer ----------------------------
(***************************************************************************)
(* Instances of ApiServer for TLC: a request to the log routes beside one  *)
(* to any kind of route; "level" stands for "search", which differs from   *)
(* it in having no level to check.                                         *)
(***************************************************************************)
EXTENDS ApiServer

CONSTANTS r1, r2

MCMayAsk == [r \in Requests |->
               IF r = r1 THEN {"logs", "level"}
               ELSE {"logs", "dates", "welcome", "events"}]
=============================================================================
