---------------------------- MODULE MCClaimOrder ----------------------------
(***************************************************************************)
(* ClaimOrder on a small instance.                                         *)
(***************************************************************************)
EXTENDS ClaimOrder
=============================================================================
