----------------------------- MODULE HostPerms -----------------------------
(***************************************************************************)
(* The helpers of passthrough.rs that change the mode and the owner of a   *)
(* file of the host, on a file and a symbolic link to it: chmod_path,      *)
(* chown_path, set_ownership_*, and the check before a caller's times are  *)
(* set.  A helper is one system call.                                      *)
(***************************************************************************)
EXTENDS Naturals, FiniteSetsExt

Nodes == {"file", "link"}
Ids == 0..2               \* of users and of groups: 0 is root
Daemon == 1               \* getuid() and getgid()
Writers == SUBSET {"group", "other"}

VARIABLES
  root,    \* whether the daemon may give files away
  host,    \* host[n]: its user and group, and who but the owner may write it
  change,  \* the last call: the helper, the path, the caller's ids, whether it failed,
           \* and the nodes it changed
  times    \* the last check: the caller, the file's ids, what is set, the answer

permVars == <<root, host, change, times>>

PermTypeOK ==
  /\ root \in BOOLEAN
  /\ host \in [Nodes -> [uid : Ids, gid : Ids, writers : Writers]]
  /\ change \in [op : {"none", "chmod", "chown", "ownership"}, path : Nodes,
                 uid : Ids, gid : Ids, err : BOOLEAN, touched : SUBSET Nodes]

NoChange == [op |-> "none", path |-> "file", uid |-> Daemon, gid |-> Daemon, err |-> FALSE,
             touched |-> {}]

PermInit ==
  /\ root \in BOOLEAN
  /\ host = [n \in Nodes |-> [uid |-> Daemon, gid |-> Daemon, writers |-> {}]]
  /\ change = NoChange
  /\ times = {}

Changed(o, n, u, g, failed) ==
  /\ change' = [op |-> o, path |-> n, uid |-> u, gid |-> g, err |-> failed,
                touched |-> {m \in Nodes : host'[m] # host[m]}]
  /\ times' = {}
  /\ UNCHANGED root

-----------------------------------------------------------------------------

\* std::fs::set_permissions is chmod(2), which follows links.
chmod_path(n, w) ==
  /\ host' = [host EXCEPT !["file"].writers = w]
  /\ Changed("chmod", n, Daemon, Daemon, FALSE)

\* The id an optional id stands for: none, -1, leaves the old one.
IdOr(id, old) == IF id = {} THEN old ELSE CHOOSE i \in id : TRUE

\* lchown(2)
chown_path(n, u, g) ==
  /\ host' = IF root THEN [host EXCEPT ![n].uid = IdOr(u, @), ![n].gid = IdOr(g, @)] ELSE host
  /\ Changed("chown", n, Daemon, Daemon, ~root)

\* What the daemon creates is its own.
Made(n) == [host EXCEPT ![n] = [@ EXCEPT !.uid = Daemon, !.gid = Daemon]]

\* Mutant of Give: the user and the group in two calls.
GiveTwice(n, u, g, err) ==
  LET skip == u = Daemon /\ g = Daemon
      gid == IF err = "none" THEN g ELSE Daemon
  IN /\ host' = IF skip THEN Made(n)
                ELSE [Made(n) EXCEPT !["file"] = [@ EXCEPT !.uid = u, !.gid = gid]]
     /\ Changed("ownership", n, u, g, ~skip /\ err = "EIO")

\* n was created; then, unless the caller's ids are the daemon's (skip), it is
\* given away by one system call, which follows links and so is on the file.
\* EPERM is no error.
Give(n, u, g, err) ==
  LET skip == u = Daemon /\ g = Daemon
  IN /\ host' = IF skip \/ err # "none" THEN Made(n)
                ELSE [Made(n) EXCEPT !["file"] = [@ EXCEPT !.uid = u, !.gid = g]]
     /\ Changed("ownership", n, u, g, ~skip /\ err = "EIO")

\* What the system call may return: EPERM only to who may not give away.
Outcomes == IF root THEN {"none", "EIO"} ELSE {"none", "EPERM", "EIO"}

\* fchown(2) on a descriptor, which is of a file, and chown(2) on a path.
set_ownership_fd(u, g, err) == Give("file", u, g, err)
set_ownership_path(n, u, g, err) == Give(n, u, g, err)

MayWrite(uid, gid, f) ==
  \/ gid = f.gid /\ "group" \in f.writers
  \/ "other" \in f.writers

\* set: how the times are set, of "now" (within ten milliseconds of it) and
\* "explicit".  The owner has returned before the write bit of owners is read.
utimens_permission_check(uid, gid, f, set) ==
  \/ uid = 0 \/ uid = f.uid \/ set = {}
  \/ set = {"now"} /\ MayWrite(uid, gid, f)

CheckTimes(uid, gid, set) ==
  /\ times' = {[uid |-> uid, file |-> host["file"], set |-> set,
                allowed |-> utimens_permission_check(uid, gid, host["file"], set)]}
  /\ change' = NoChange
  /\ UNCHANGED <<root, host>>

OptionalIds == kSubset(0, Ids) \cup kSubset(1, Ids)

PermNext ==
  \/ \E n \in Nodes : \/ \E w \in Writers : chmod_path(n, w)
                      \/ \E u, g \in OptionalIds : chown_path(n, u, g)
  \/ \E u, g \in Ids, err \in Outcomes :
       \/ set_ownership_fd(u, g, err)
       \/ \E n \in Nodes : set_ownership_path(n, u, g, err)
  \/ \E u, g \in Ids, set \in SUBSET {"now", "explicit"} : CheckTimes(u, g, set)

PermSpec == PermInit /\ [][PermNext]_permVars

-----------------------------------------------------------------------------
(* Properties *)

\* Giving a new file to its caller leaves it with the user and the group of
\* the caller, or, where the daemon may not, with both of the daemon, never
\* with one of each; where it fails otherwise, the caller is told
\* (set_ownership_fd, "ignores EPERM so unprivileged mounts continue to work").
\* A new symbolic link is not given away, whatever is answered: chown(2) goes
\* to the file it leads to, and the link stays the daemon's.
OwnerWhole ==
  change.op = "ownership" /\ ~change.err =>
    LET owner == [n \in Nodes |-> <<host[n].uid, host[n].gid>>]
        own == <<Daemon, Daemon>>
        callers == <<change.uid, change.gid>>
    IN /\ change.path = "file" => owner["file"] = callers \/ (~root /\ owner["file"] = own)
       /\ change.path = "link" =>
            /\ owner["link"] = own
            /\ root => owner["file"] = callers \/ (callers = own /\ "file" \notin change.touched)

\* "others may set both times to the current time only if they have write
\* access; setting an explicit time requires the owner or root"
\* (utimens_permission_check): when some of the times is neither, too.
ExplicitByOwner ==
  \A t \in times : t.allowed /\ t.uid \notin {0, t.file.uid} /\ t.set # {} =>
    t.set = {"now"} /\ t.file.writers # {}

\* "Change permissions of a path without following symlinks" (chmod_path):
\* it changes the node its path names and no other.
ChmodNoFollow == change.op = "chmod" => change.touched \subseteq {change.path}

\* The helpers change owners as a whole, and times for who may change them.
PermsRight == PermTypeOK /\ OwnerWhole /\ ExplicitByOwner
=============================================================================
