----------------------------- MODULE LockOwners -----------------------------
(***************************************************************************)
(* The lock owners of a mount whose locks LockService passes through, with *)
(* what each of them was told: a history beside the state of LockService.  *)
(***************************************************************************)
EXTENDS LockService

CONSTANTS Owners   \* processes that have the file open

VARIABLES granted  \* granted[o][b]: the kind of lock o was told it has on byte b

ownerVars == <<lockVars, granted>>

OwnersInit == LockInit /\ granted = [o \in Owners |-> NoLocks]

\* setlk_shim passes the owner on with the request, and the filesystem, whose
\* whole implementation is file_lock::setlk, has no use for it.
OwnerSetlk(o, raw, sleep) ==
  /\ Setlk(raw, sleep)
  /\ granted' = IF Granted(raw) THEN [granted EXCEPT ![o] = Apply(@, raw)] ELSE granted

OwnersNext ==
  \/ \E o \in Owners, raw \in Requests, sleep \in BOOLEAN : OwnerSetlk(o, raw, sleep)
  \/ \E raw \in Requests : (Getlk(raw) \/ HostSetlk(raw)) /\ UNCHANGED granted

OwnersSpec == OwnersInit /\ [][OwnersNext]_ownerVars

=============================================================================
