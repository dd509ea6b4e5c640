---------------------------- MODULE MCAIMatching ----------------------------
(***************************************************************************)
(* AIMatching on a small instance: the second call meets the limits, the   *)
(* expired reservation and the stored suggestions of the first.            *)
(***************************************************************************)
EXTENDS AIMatching
=============================================================================
