--------------------------- MODULE MCLockDispatch ---------------------------
(* The module TLC checks LockDispatch by itself in. *)
EXTENDS LockDispatch
=============================================================================
