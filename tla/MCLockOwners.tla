---------------------------- MODULE MCLockOwners ----------------------------
(* The module TLC checks LockOwners in. *)
EXTENDS LockOwners
=============================================================================
