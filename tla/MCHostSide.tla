----------------------------- MODULE MCHostSide -----------------------------
(***************************************************************************)
(* Model checking of the shims that answer requests, and of what comes to  *)
(* and from the host for them: record locks, attributes and times,         *)
(* extended attributes, modes and owners, and directory buffers.  The      *)
(* modules share no state, so a behaviour is about one of them, its        *)
(* subject, and the others stay as they are.                               *)
(***************************************************************************)
EXTENDS Shims, LockService, AttrService, XattrRead, HostPerms, DirListing

VARIABLES subject

vars == <<subject, shimVars, lockVars, attrVars, xattrVars, permVars, listingVars>>

\* The other components are in one initial state each.
Init ==
  /\ subject \in {"shims", "locks", "attributes", "xattrs", "permissions", "listing"}
  /\ ShimInit /\ LockInit /\ AttrInit /\ XattrInit /\ PermInit /\ ListingInit
  /\ subject # "shims" => ~faulty
  /\ subject # "attributes" => store = "memory" /\ attr.atime = EPOCH
  /\ subject # "permissions" => root
  /\ subject # "listing" => entries = {}

About(s) == subject = s /\ UNCHANGED subject

Next ==
  \/ /\ About("shims") /\ ShimNext
     /\ UNCHANGED <<lockVars, attrVars, xattrVars, permVars, listingVars>>
  \/ /\ About("locks") /\ LockNext
     /\ UNCHANGED <<shimVars, attrVars, xattrVars, permVars, listingVars>>
  \/ /\ About("attributes") /\ AttrNext
     /\ UNCHANGED <<shimVars, lockVars, xattrVars, permVars, listingVars>>
  \/ /\ About("xattrs") /\ XattrNext
     /\ UNCHANGED <<shimVars, lockVars, attrVars, permVars, listingVars>>
  \/ /\ About("permissions") /\ PermNext
     /\ UNCHANGED <<shimVars, lockVars, attrVars, xattrVars, listingVars>>
  \/ /\ About("listing") /\ ListingNext
     /\ UNCHANGED <<shimVars, lockVars, attrVars, xattrVars, permVars>>

\* The fairness of ShimSpec and of ListingSpec, for the subject.
Fairness ==
  /\ \A r \in Reqs : WF_shimVars(subject = "shims" /\ ReqNext(r))
  /\ WF_listingVars(subject = "listing" /\ ReadPage)

Spec == Init /\ [][Next]_vars /\ Fairness
=============================================================================
