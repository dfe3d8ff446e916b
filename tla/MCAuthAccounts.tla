--------------------------- MODULE MCAuthAccounts ---------------------------
(***************************************************************************)
(* Instances of AuthAccounts for TLC: requests and emails are alike.       *)
(***************************************************************************)
EXTENDS AuthAccounts, TLC

Symmetry == Permutations(Requests) \cup Permutations(Emails)
=============================================================================
