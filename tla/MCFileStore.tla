---------------------------- MODULE MCFileStore ----------------------------
(***************************************************************************)
(* FileStore on small instances.  Liveness is checked, so no symmetry is   *)
(* declared.                                                               *)
(***************************************************************************)
EXTENDS FileStore
=============================================================================
