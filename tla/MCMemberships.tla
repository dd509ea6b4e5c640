--------------------------- MODULE MCMemberships ---------------------------
(***************************************************************************)
(* Memberships on a small instance.  Requests are interchangeable, and so  *)
(* are the users other than the founder.                                   *)
(***************************************************************************)
EXTENDS Memberships, TLC

MembershipSymmetry == Permutations(Requests) \cup Permutations(Users \ {Founder})
=============================================================================
