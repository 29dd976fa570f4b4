---------------------------- MODULE MCHostPerms ----------------------------
(* The module TLC checks the links of HostPerms in. *)
EXTENDS HostPerms
=============================================================================
