----------------------------- MODULE MCSessions -----------------------------
(***************************************************************************)
(* Sessions on a small instance: two requests at once are two rotations of *)
(* one token, or a rotation and whatever revokes its session; the third    *)
(* token replaces the first or opens a session of its own.                 *)
(***************************************************************************)
EXTENDS Sessions
=============================================================================
