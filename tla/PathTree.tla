------------------------------ MODULE PathTree ------------------------------
(***************************************************************************)
(* The paths that PathNodeFs (path_fs.rs) hands to the filesystem behind   *)
(* it: every callback takes the `operations` lock, finds the path of its   *)
(* node by following parents through the Namespace, and calls the inner    *)
(* filesystem with it.  Callbacks that change names hold the lock          *)
(* exclusively, and change the inner filesystem first, the Namespace then. *)
(*                                                                         *)
(* A tree of directories, with hard links to files.  A node is its object: *)
(* how numbers are given to objects is PathFs's subject.                   *)
(***************************************************************************)
EXTENDS Naturals, Sequences, FiniteSets, Functions

CONSTANTS Dirs, Files,   \* the objects the filesystem may come to have
          Components,
          Workers

Root == "root"
Nobody == "nobody"
Objects == Dirs \cup Files
Dentries == (Dirs \cup {Root}) \X Components

\* Finitely many objects at a time; the root is not one of those that come and go.
ASSUME PathTreeAssumption ==
  /\ IsFiniteSet(Objects) /\ Dirs \cap Files = {} /\ Root \notin Objects
  /\ Nobody \notin Workers

VARIABLES
  known,   \* the objects the kernel has an inode of
  host,    \* host[o]: the names of the object in the inner filesystem
  alias,   \* Namespace.aliases; by_name is its inverse
  readers, writer,   \* who holds PathNodeFs.operations
  pc,      \* pc[w]: "idle", "locked", "inside" the inner filesystem, "changed"
           \* by it, or "refused"
  job      \* job[w]: a callback on a node, or a change of names

pathTreeVars == <<known, host, alias, readers, writer, pc, job>>

-----------------------------------------------------------------------------
(* What each callback hands on: a path that must be there, an optional one, *)
(* or "/"                                                                   *)

AttrCalls == [getattr |-> "optional", setattr |-> "optional", readlink |-> "path"]

FileCalls == [open |-> "path", read |-> "optional", write |-> "optional", flush |-> "optional",
              release |-> "optional", fsync |-> "optional", opendir |-> "path"]

DirCalls == [releasedir |-> "optional", fsyncdir |-> "optional", statfs |-> "root"]

XattrCalls == [setxattr |-> "path", getxattr |-> "path", listxattr |-> "path",
               removexattr |-> "path", access |-> "path"]

DataCalls == [fallocate |-> "optional", lseek |-> "optional", getlk |-> "optional",
              setlk |-> "optional"]

\* A callback is as good as another that hands on the same.
NodeCalls == Range(AttrCalls) \cup Range(FileCalls) \cup Range(DirCalls)
               \cup Range(XattrCalls) \cup Range(DataCalls)

\* The changes: mknod, mkdir, symlink and create; unlink and rmdir; rename; link.
Changes == [op : {"create", "remove", "rename", "link"}, from : Dentries, to : Dentries,
            node : Objects]
NoJob == [op |-> "none"]

PathTreeTypeOK ==
  /\ known \subseteq Objects
  /\ host \in [Objects -> SUBSET Dentries] /\ alias \in [Objects -> SUBSET Dentries]
  /\ pc \in [Workers -> {"idle", "locked", "inside", "changed", "refused"}]
  /\ readers = {w \in Workers : job[w].op = "call"}
  /\ writer \in Workers \cup {Nobody}
  /\ \A w \in Workers : (writer = w) <=> job[w].op \notin {"none", "call"}

PathTreeInit ==
  /\ known = {}
  /\ host = [o \in Objects |-> {}] /\ alias = [o \in Objects |-> {}]
  /\ readers = {} /\ writer = Nobody
  /\ pc = [w \in Workers |-> "idle"] /\ job = [w \in Workers |-> NoJob]

-----------------------------------------------------------------------------
(* Namespace *)

\* The object that has a name; an option.
Named(names, d) == {o \in Objects : d \in names[o]}

\* Where a path can go: the object it starts from, then one for each component.
Routes(k) == [0..k -> Objects \cup {Root}]

FirstAlias(names, o) == CHOOSE d \in names[o] : TRUE

\* The route from the root to o on which everything is where its first alias says.
Ascends(names, o, k, c) ==
  /\ c[k] = o /\ c[0] = Root
  /\ \A i \in 1..k : c[i] # Root /\ names[c[i]] # {} /\ FirstAlias(names, c[i])[1] = c[i - 1]

\* path_for, an option: the first alias, and its parent's path before it.
path_for(names, o) ==
  UNION {{[i \in 1..k |-> FirstAlias(names, c[i])[2]] :
            c \in {c \in Routes(k) : Ascends(names, o, k, c)}} : k \in 0..Cardinality(Objects)}

\* Where a path leads in the inner filesystem.
Follows(o, path, c) ==
  /\ c[0] = o
  /\ \A i \in 1..Len(path) : c[i] # Root /\ <<c[i - 1], path[i]>> \in host[c[i]]

Walk(o, path) == {c[Len(path)] : c \in {c \in Routes(Len(path)) : Follows(o, path, c)}}

Renamed(names, from, to) ==
  LET source == Named(names, from)
      unnamed(o) == names[o] \ {from, to}
  IN IF source = {} \/ source = Named(names, to) THEN names
     ELSE [o \in Objects |-> IF o \in source THEN unnamed(o) \cup {to} ELSE unnamed(o)]

\* What the callback then does to the Namespace: insert, remove, the end of
\* rename, or add_alias.
NsChange(c) ==
  CASE c.op = "rename" -> Renamed(alias, c.from, c.to)
    [] c.op = "remove" -> [alias EXCEPT ![c.node] = @ \ {c.from}]
    [] c.op = "create" -> IF Named(alias, c.to) # {} THEN alias
                          ELSE [alias EXCEPT ![c.node] = @ \cup {c.to}]
    [] OTHER -> [alias EXCEPT ![c.node] = @ \cup {c.to}]

-----------------------------------------------------------------------------
(* A callback on a node *)

\* Mutant of Start: the read lock is not waited for.
StartUnlocked(w, arg, o) ==
  /\ pc[w] = "idle"
  /\ readers' = readers \cup {w}
  /\ pc' = [pc EXCEPT ![w] = "locked"]
  /\ job' = [job EXCEPT ![w] = [op |-> "call", arg |-> arg, node |-> o, path |-> {}]]
  /\ UNCHANGED <<known, host, alias, writer>>

\* read_lock(&self.operations)
Start(w, arg, o) ==
  /\ pc[w] = "idle" /\ writer = Nobody
  /\ readers' = readers \cup {w}
  /\ pc' = [pc EXCEPT ![w] = "locked"]
  /\ job' = [job EXCEPT ![w] = [op |-> "call", arg |-> arg, node |-> o, path |-> {}]]
  /\ UNCHANGED <<known, host, alias, writer>>

\* node_path, and ENOENT where there must be one
Locate(w) ==
  LET path == IF job[w].arg = "root" THEN {<<>>} ELSE path_for(alias, job[w].node)
  IN /\ pc[w] = "locked" /\ job[w].op = "call"
     /\ job' = [job EXCEPT ![w].path = path]
     /\ pc' = [pc EXCEPT ![w] = IF job[w].arg = "path" /\ path = {} THEN "refused" ELSE "inside"]
     /\ UNCHANGED <<known, host, alias, readers, writer>>

\* The callback returns, and the guard goes.
Finish(w) ==
  /\ pc[w] \in {"inside", "refused"}
  /\ readers' = readers \ {w}
  /\ writer' = IF writer = w THEN Nobody ELSE writer
  /\ pc' = [pc EXCEPT ![w] = "idle"]
  /\ job' = [job EXCEPT ![w] = NoJob]
  /\ UNCHANGED <<known, host, alias>>

-----------------------------------------------------------------------------
(* A callback that changes names *)

\* write_lock(&self.operations)
StartChange(w, c) ==
  /\ pc[w] = "idle" /\ writer = Nobody /\ readers = {}
  /\ writer' = w
  /\ pc' = [pc EXCEPT ![w] = "locked"]
  /\ job' = [job EXCEPT ![w] = c]
  /\ UNCHANGED <<known, host, alias, readers>>

Empty(o) == \A u \in Objects : \A d \in host[u] : d[1] # o

\* d is o or one of the directories above it: it is in every set that has o and,
\* with an object, the directories the object has its names in.
Below(o, d) ==
  \A S \in SUBSET (Objects \cup {Root}) :
    o \in S /\ (\A u \in S \ {Root} : \A e \in host[u] : e[1] \in S) => d \in S

\* What the inner filesystem lets through of a change, whose directories it
\* gets as paths (from and to), and what it makes of it.
InnerChange(c, from, to) ==
  CASE c.op = "create" ->
         /\ c.node \notin known /\ Named(host, to) = {}
         /\ host' = [host EXCEPT ![c.node] = {to}]
    [] c.op = "remove" ->
         /\ Named(host, from) = {c.node} /\ Empty(c.node)
         /\ host' = [host EXCEPT ![c.node] = @ \ {from}]
    [] c.op = "link" ->
         /\ c.node \in Files /\ host[c.node] # {} /\ Named(host, to) = {}
         /\ host' = [host EXCEPT ![c.node] = @ \cup {to}]
    [] c.op = "rename" ->
         /\ Named(host, from) = {c.node} /\ ~Below(to[1], c.node)
         /\ \A old \in Named(host, to) : Empty(old) /\ (old \in Dirs <=> c.node \in Dirs)
         /\ host' = Renamed(host, from, to)

\* self.path(parent)?, and the inner call with the paths of the directories.
Change(w) ==
  LET c == job[w]
      dirs(d) == {<<e, d[2]>> : e \in UNION {Walk(Root, p) : p \in path_for(alias, d[1])}}
  IN /\ pc[w] = "locked" /\ c.op \notin {"none", "call"}
     /\ \/ \E from \in dirs(c.from), to \in dirs(c.to) :
             /\ InnerChange(c, from, to)
             /\ known' = known \cup {c.node}
             /\ pc' = [pc EXCEPT ![w] = "changed"]
        \/ /\ pc' = [pc EXCEPT ![w] = "refused"]
           /\ UNCHANGED <<known, host>>
     /\ UNCHANGED <<alias, readers, writer, job>>

Record(w) ==
  /\ pc[w] = "changed"
  /\ alias' = NsChange(job[w])
  /\ pc' = [pc EXCEPT ![w] = "inside"]
  /\ UNCHANGED <<known, host, readers, writer, job>>

\* The kernel forgets an inode without a name that no callback is about; its
\* object is gone.
ForgetNode(o) ==
  /\ o \in known /\ host[o] = {} /\ alias[o] = {}
  /\ \A w \in Workers : job[w].op # "none" => job[w].node # o
  /\ known' = known \ {o}
  /\ UNCHANGED <<host, alias, readers, writer, pc, job>>

\* The kernel changes names of directories it has; link and create have no
\* source, remove no target.
Asked == {c \in Changes :
            /\ {c.from[1], c.to[1]} \subseteq known \cup {Root}
            /\ c.op # "rename" => c.from = c.to
            /\ c.op # "create" => c.node \in known}

PathTreeNext ==
  \/ \E w \in Workers :
       \/ \E arg \in NodeCalls, o \in known : Start(w, arg, o)
       \/ \E c \in Asked : StartChange(w, c)
       \/ Locate(w) \/ Change(w) \/ Record(w) \/ Finish(w)
  \/ \E o \in Objects : ForgetNode(o)

PathTreeSpec == PathTreeInit /\ [][PathTreeNext]_pathTreeVars

-----------------------------------------------------------------------------
(* Properties *)

\* While the inner filesystem works with a path, the path leads to the node
\* the kernel asked about, whatever is renamed meanwhile, the directories above
\* it too ("moving directory updates descendant paths without rewriting
\* children"); and it works without one only for an object without a name ("An
\* optional path is absent after the last known name of an open file has been
\* unlinked").
PathRight ==
  \A w \in Workers : job[w].op = "call" =>
    /\ pc[w] = "inside" /\ job[w].arg # "root" =>
         IF job[w].path = {} THEN host[job[w].node] = {}
         ELSE \A p \in job[w].path : Walk(Root, p) = {job[w].node}
    /\ pc[w] = "refused" => host[job[w].node] = {}

\* The Namespace has the names that the inner filesystem has, but for the time
\* between the two halves of a change, under the exclusive lock.
NamesAgree ==
  alias = host \/ (writer # Nobody /\ pc[writer] = "changed")

\* The adapter's tree is the filesystem's, and so are the paths taken from it.
PathsExact == PathTreeTypeOK /\ PathRight /\ NamesAgree
=============================================================================
