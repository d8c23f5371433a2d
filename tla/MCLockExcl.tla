----------------------------- MODULE MCLockExcl -----------------------------
(***************************************************************************)
(* Three processes, which two holders and a dead one need.                 *)
(***************************************************************************)
EXTENDS LockExcl
=============================================================================
