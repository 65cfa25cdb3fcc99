---------------------------- MODULE MCOAuthToken ----------------------------
(***************************************************************************)
(* Instances of AuthorizedCalls for TLC, with 5/3 s as the unit of time.   *)
(***************************************************************************)
EXTENDS AuthorizedCalls
=============================================================================
