------------------------------- MODULE PathFs -------------------------------
(***************************************************************************)
(* The path adapter (path_fs.rs: PathNodeFs, Namespace, BasicSink,         *)
(* PlusSink) as the filesystem behind the runtime.                         *)
(*                                                                         *)
(* A path-based filesystem keeps objects under names (`store`); the        *)
(* adapter gives each name it hears of an inode.  Its Namespace is         *)
(* Runtime's `names` (by_name) with `aliases` and `keys`; entry_for,       *)
(* readdirplus accounting, the replies and the kernel are Runtime's        *)
(* actions.  There is one directory, the root.                             *)
(*                                                                         *)
(* Requests that change the directory hold the `operations` lock for       *)
(* writing and are one step; what else may run meanwhile (forget, the      *)
(* drop of a NodeRef) commutes with it.  lookup inserts in one critical    *)
(* section of the namespace, so it is one step as well.  A listing holds   *)
(* the lock for reading over many steps.                                   *)
(***************************************************************************)
EXTENDS Runtime

CONSTANTS
  Parallel,    \* whether the kernel runs lookups and listings of a directory
               \* in parallel (ParallelDirectoryOperations)
  MaxObjects   \* bound: objects ever in the store

ASSUME ObjectsAssumption ==
  /\ Parallel \in BOOLEAN
  /\ MaxObjects \in Nat /\ Cardinality(Names) <= MaxObjects

VARIABLES
  store,      \* store[n]: the object named n in the inner filesystem, 0 if none
  objects,    \* the number of objects ever in the store, names the next
  file,       \* file[o]: the first of the objects that are one file.  Hard links
              \* made through the mount are names of one object; nothing tells
              \* the mount that two names it found were links of one file, so
              \* these are two objects
  aliases,    \* Namespace.aliases: aliases[i], the names of inode number i
  keys,       \* Namespace.keys: keys[r], the number given to the node of key r;
              \* a key is the number of its record
  object,     \* history: object[r], the object that record r was inserted for
  inserted,   \* inserted[t]: the dentries a listing of t has inserted
  fresh       \* fresh[t]: the dentry it has just inserted for an entry that
              \* is not yet accepted, or none: a sequence of at most one

nsVars == <<names, aliases, keys, object>>
storeVars == <<store, objects, file>>
listVars == <<inserted, fresh>>
pathVars == <<storeVars, aliases, keys, object, listVars>>
allVars == <<vars, pathVars>>

PathTypeOK ==
  /\ TypeOK
  /\ store \in [Names -> 0..MaxObjects]
  /\ objects \in 0..MaxObjects
  /\ file \in [1..MaxObjects -> 1..MaxObjects]
  /\ aliases \in [Inos -> SUBSET Names]
  /\ keys \in [1..records -> Inos]
  /\ object \in [1..records -> 0..MaxObjects]
  /\ inserted \in [Threads -> Seq(Names)]
  /\ fresh \in [Threads -> Seq(Names)]

\* The inner filesystem starts with any of the names, any of which may be hard
\* links of one file; none has an inode.
PathInit ==
  /\ Init
  /\ objects = Cardinality(Names)
  /\ store \in [Names -> 0..objects]
  /\ \A n, m \in Names : store[n] = store[m] /\ store[n] # 0 => n = m
  /\ \A n \in Names : store[n] > 1 => \E m \in Names : store[m] = store[n] - 1
  /\ file \in [1..MaxObjects -> 1..MaxObjects]
  /\ \A o \in 1..MaxObjects :
       /\ file[o] <= o /\ file[file[o]] = file[o]
       /\ file[o] # o => \E n, m \in Names : store[n] = o /\ store[m] = file[o]
  /\ aliases = [i \in Inos |-> {}]
  /\ keys = [r \in {1} |-> ROOT]
  /\ object = [r \in {1} |-> 0]
  /\ inserted = [t \in Threads |-> <<>>]
  /\ fresh = [t \in Threads |-> <<>>]

-----------------------------------------------------------------------------
(* Namespace *)

\* The id Namespace::insert returns for name n.
NsId(n) == IF names[n] # 0 THEN names[n] ELSE Allocated
NsRecord(n) == IF names[n] # 0 THEN map[names[n]].record ELSE records + 1

\* Namespace::insert for a name of object o: a known dentry is left as it is.
NsInsert(n, o) ==
  IF names[n] # 0
    THEN UNCHANGED <<tableVars, nsVars>>
    ELSE /\ Insert(ROOT)
         /\ names' = [names EXCEPT ![n] = Allocated]
         /\ aliases' = [aliases EXCEPT ![Allocated] = @ \cup {n}]
         /\ keys' = [r \in 1..(records + 1) |-> IF r = records + 1 THEN Allocated ELSE keys[r]]
         /\ object' = [r \in 1..(records + 1) |-> IF r = records + 1 THEN o ELSE object[r]]

\* Mutant of NsRemove: the node's other aliases go too.
NsRemoveAll(n) ==
  IF names[n] = 0
    THEN UNCHANGED <<tableVars, nsVars>>
    ELSE /\ RemoveLink(names[n])
         /\ names' = [names EXCEPT ![n] = 0]
         /\ aliases' = [aliases EXCEPT ![names[n]] = {}]
         /\ UNCHANGED <<keys, object>>

\* Mutant of NsRemove: remove_link is forgotten.
NsRemoveOnly(n) ==
  IF names[n] = 0
    THEN UNCHANGED <<tableVars, nsVars>>
    ELSE /\ names' = [names EXCEPT ![n] = 0]
         /\ aliases' = [aliases EXCEPT ![names[n]] = @ \ {n}]
         /\ UNCHANGED <<tableVars, keys, object>>

\* Namespace::remove, and remove_link on the node it returns, under its lock.
NsRemove(n) ==
  IF names[n] = 0
    THEN UNCHANGED <<tableVars, nsVars>>
    ELSE /\ RemoveLink(names[n])
         /\ names' = [names EXCEPT ![n] = 0]
         /\ aliases' = [aliases EXCEPT ![names[n]] = @ \ {n}]
         /\ UNCHANGED <<keys, object>>

\* path_for: with one directory, a node has a path when it has an alias.
HasPath(i) == i = ROOT \/ aliases[i] # {}

\* node_path: through the key in the node t has leased.
HasNodePath(t) == HasPath(keys[ref[t].record])

-----------------------------------------------------------------------------
(* The two locks *)

\* t holds `operations` for reading, in a listing.
Listing(t) ==
  \/ pc[t] \in {"rdp", "rdp_plus", "rdp_add", "rdp_end"}
  \/ pc[t] = "rdp_undo" /\ inserted[t] # <<>>

\* write_lock(&self.operations), and the kernel's lock on the directory.
WriteLock == MayWrite /\ \A u \in Threads : ~Listing(u)

\* Lookups and listings: the kernel's lock is shared, or with Parallel off
\* they exclude one another.
ReadLock == MayRead /\ (Parallel \/ \A u \in Threads : op[u] \notin DirReaders)

\* The kernel holds an inode for the object named n, as it does when it asks
\* to rename or unlink it: it has looked n up.
KernelHas(n) == \E i \in Inos : klookup[i] > 0 /\ object[kident[i].record] = store[n]

-----------------------------------------------------------------------------
(* lookup, and the requests that change the directory *)

LookupName(t, n, o) ==
  /\ store[n] # 0
  /\ Start(t, o, NsId(n), NsRecord(n), 0, "entry")
  /\ NsInsert(n, store[n])
  /\ UNCHANGED <<storeVars, listVars, handleVars, kernelVars>>

PathLookup(t, n) == ReadLock /\ LookupName(t, n, "lookup")

\* Without the directory lock: see Revalidate.
PathRevalidate(t, n) == KernelHas(n) /\ LookupName(t, n, "revalidate")

\* mknod, mkdir, symlink.
PathMknod(t, n) ==
  /\ WriteLock
  /\ store[n] = 0
  /\ objects < MaxObjects
  /\ objects' = objects + 1
  /\ store' = [store EXCEPT ![n] = objects + 1]
  /\ Start(t, "mknod", NsId(n), NsRecord(n), 0, "entry")
  /\ NsInsert(n, objects + 1)
  /\ UNCHANGED <<file, listVars, handleVars, kernelVars>>

\* unlink, rmdir
RemoveEntry(t, n) ==
  /\ pc[t] = "idle"
  /\ WriteLock
  /\ store[n] # 0 /\ KernelHas(n)
  /\ store' = [store EXCEPT ![n] = 0]
  /\ NsRemove(n)
  /\ UNCHANGED <<objects, file, listVars, handleVars, kernelVars, threadVars>>

\* Mutant of PathRename: the name of the source is left in the namespace.
RenameKeepsSource(t, n, m) ==
  /\ pc[t] = "idle"
  /\ WriteLock
  /\ n # m
  /\ store[n] # 0 /\ store[n] # store[m] /\ names[n] # 0 /\ names[m] = 0
  /\ store' = [store EXCEPT ![m] = store[n], ![n] = 0]
  /\ names' = [names EXCEPT ![m] = names[n]]
  /\ aliases' = [aliases EXCEPT ![names[n]] = @ \cup {m}]
  /\ AddLink(names[n])
  /\ UNCHANGED <<keys, object, objects, file, listVars, handleVars, kernelVars, threadVars>>

\* The inner filesystem's rename, which does nothing when both names are of one
\* file.  If the mount took them for two, it has moved the one onto the other;
\* n, still there, is then a name it knows nothing of: a new object.
InnerRename(n, m) ==
  LET one == store[m] # 0 /\ file[store[n]] = file[store[m]]
  IN \/ store[n] = store[m] /\ UNCHANGED storeVars
     \/ /\ ~one
        /\ store' = [store EXCEPT ![m] = store[n], ![n] = 0]
        /\ UNCHANGED <<objects, file>>
     \/ /\ one /\ store[n] # store[m]
        /\ objects < MaxObjects
        /\ objects' = objects + 1
        /\ store' = [store EXCEPT ![m] = store[n], ![n] = objects + 1]
        /\ file' = [file EXCEPT ![objects + 1] = file[store[n]]]

\* reparent() changes nothing with one directory.
PathRename(t, n, m) ==
  LET source == names[n]
      replaced == names[m]
  IN /\ pc[t] = "idle"
     /\ WriteLock
     /\ n # m
     /\ store[n] # 0 /\ KernelHas(n)
     /\ store[m] # 0 => KernelHas(m)
     /\ InnerRename(n, m)
     /\ IF source = 0 \/ source = replaced
          THEN UNCHANGED <<tableVars, nsVars>>
          ELSE /\ IF replaced # 0 THEN RemoveLink(replaced) ELSE UNCHANGED tableVars
               /\ names' = [names EXCEPT ![m] = source, ![n] = 0]
               /\ aliases' = [i \in Inos |->
                                IF i = source THEN (aliases[i] \ {n}) \cup {m}
                                ELSE IF i = replaced THEN aliases[i] \ {m}
                                ELSE aliases[i]]
               /\ UNCHANGED <<keys, object>>
     /\ UNCHANGED <<listVars, handleVars, kernelVars, threadVars>>

\* The source is any path of the node; ENOENT if it has none.
PathLink(t, i, n) ==
  /\ WriteLock
  /\ klookup[i] > 0
  /\ store[n] = 0
  /\ \E a \in aliases[i] :
       /\ store[a] # 0
       /\ store' = [store EXCEPT ![n] = store[a]]
  /\ names' = [names EXCEPT ![n] = i]
  /\ aliases' = [aliases EXCEPT ![i] = @ \cup {n}]
  /\ AddLink(i)
  /\ Start(t, "link", i, map[i].record, 0, "entry")
  /\ UNCHANGED <<objects, file, keys, object, listVars, handleVars, kernelVars>>

-----------------------------------------------------------------------------
(* readdir and readdirplus.  The lease on the directory handle is left to  *)
(* Runtime and HandleTable.                                                *)

List(t, o) ==
  /\ ReadLock
  /\ StartOnNode(t, o, ROOT, 0, "rdp")
  /\ UNCHANGED pathVars

\* The names t has emitted and whose entries were accepted.
Emitted(t) == {n \in Names : \E a \in 1..Len(buffer[t]) : buffer[t][a].ino = names[n]}

\* The inner filesystem emits an entry: add_enumerated_node.
PathEmit(t, n) ==
  /\ pc[t] = "rdp"
  /\ store[n] # 0
  /\ n \notin Emitted(t)
  /\ Len(buffer[t]) < Cardinality(Names)
  /\ NsInsert(n, store[n])
  /\ id' = [id EXCEPT ![t] = NsId(n)]
  /\ want' = [want EXCEPT ![t] = NsRecord(n)]
  /\ fresh' = [fresh EXCEPT ![t] = IF names[n] = 0 THEN <<n>> ELSE <<>>]
  /\ Goto(t, IF op[t] = "readdirplus" THEN "rdp_plus" ELSE "rdp_add")
  /\ UNCHANGED <<storeVars, inserted, handleVars, kernelVars, op, gen, fh, buffer>>

\* output.add returned true: the dentry is put on the list for a roll-back.
Accept(t) ==
  /\ IF op[t] = "readdirplus"
       THEN PlusRetain(t)
       ELSE /\ pc[t] = "rdp_add"
            /\ Goto(t, "rdp")
            /\ UNCHANGED <<tableVars, fsVars, handleVars, kernelVars, requestVars>>
  /\ inserted' = [inserted EXCEPT ![t] = @ \o fresh[t]]
  /\ fresh' = [fresh EXCEPT ![t] = <<>>]
  /\ UNCHANGED <<storeVars, aliases, keys, object>>

\* output.add returned false: rollback_dentry, if the entry was new.
Refuse(t) ==
  /\ pc[t] = "rdp_end"
  /\ fresh[t] # <<>>
  /\ NsRemove(fresh[t][1])
  /\ fresh' = [fresh EXCEPT ![t] = <<>>]
  /\ UNCHANGED <<storeVars, inserted, handleVars, kernelVars, threadVars>>

\* The inner listing failed: the inserted dentries go, the last one first,
\* before the error reaches the runtime and its own roll-back (PlusUndo).
Rollback(t) ==
  /\ pc[t] = "rdp_undo"
  /\ inserted[t] # <<>>
  /\ NsRemove(inserted[t][Len(inserted[t])])
  /\ inserted' = [inserted EXCEPT ![t] = SubSeq(@, 1, Len(@) - 1)]
  /\ UNCHANGED <<storeVars, fresh, handleVars, kernelVars, threadVars>>

ListOk(t) ==
  /\ fresh[t] = <<>>
  /\ PlusOk(t)
  /\ inserted' = [inserted EXCEPT ![t] = <<>>]
  /\ UNCHANGED <<storeVars, aliases, keys, object, fresh>>

-----------------------------------------------------------------------------

\* Runtime's steps, unchanged by the adapter.  getattr() of entry_for is given
\* no path for a node without one, and without a handle it then fails.
RuntimeStep(t) ==
  \/ EntryGet(t) \/ EntryFail(t) \/ EntryDone(t)
  \/ EntryRetain(t) /\ HasNodePath(t)
  \/ PlusEntry(t) \/ PlusFull(t)
  \/ fresh[t] = <<>> /\ PlusError(t)
  \/ inserted[t] = <<>> /\ (PlusUndo(t) \/ PlusUndone(t))
  \/ PlusDrop(t) \/ PlusReply(t) \/ PlusReplyLost(t) \/ Reply(t)
  \/ DropNode(t)

PathStep(t) ==
  \/ RuntimeStep(t) /\ UNCHANGED pathVars
  \/ \E n \in Names : PathEmit(t, n)
  \/ Accept(t) \/ Refuse(t) \/ Rollback(t) \/ ListOk(t)

PathRequest(t) ==
  \/ \E n \in Names :
       PathLookup(t, n) \/ PathRevalidate(t, n) \/ PathMknod(t, n) \/ RemoveEntry(t, n)
  \/ \E n, m \in Names : PathRename(t, n, m)
  \/ \E i \in Inos, n \in Names : PathLink(t, i, n)
  \/ List(t, "readdir") \/ List(t, "readdirplus")

\* The kernel holds the inode of a name that it is looking up again.
PathForget(i, n) ==
  /\ n < klookup[i] \/ \A t \in Threads : ~(op[t] = "revalidate" /\ id[t] = i)
  /\ KernelForget(i, n)
  /\ UNCHANGED pathVars

PathNext ==
  /\ \/ \E t \in Threads : PathRequest(t) \/ PathStep(t)
     \/ \E i \in Inos, n \in 1..MaxLookups : PathForget(i, n)
  /\ UNCHANGED faults

PathSpec == PathInit /\ [][PathNext]_allVars

-----------------------------------------------------------------------------
(* Properties *)

\* The three structures of the namespace and the link counts of the runtime
\* agree, through renames over existing names, hard links and roll-backs of
\* listings: a dentry's node is in the table, and its links are its aliases.
NamespaceExact ==
  /\ \A i \in Inos : aliases[i] = {n \in Names : names[n] = i}
  /\ \A i \in DOMAIN map : map[i].links = Cardinality(aliases[i]) + (IF i = ROOT THEN 1 ELSE 0)
  /\ \A i \in DOMAIN map : keys[map[i].record] = i

\* What is left of it when lookups and listings share a directory in parallel,
\* and a name may be rolled back, or moved onto, behind the namespace's back
\* (rename, link): a name still leads to a node that is in the table, the node
\* has it among its aliases and a link for it, and is found under its own key.
DentryBacked ==
  /\ \A n \in Names : names[n] # 0 => names[n] \in DOMAIN map /\ n \in aliases[names[n]]
  /\ \A i \in DOMAIN map : Cardinality({n \in Names : names[n] = i}) <= map[i].links
  /\ \A i \in DOMAIN map : keys[map[i].record] = i

\* A name leads to the inode of the very object it names in the inner
\* filesystem: no stale dentry survives a rename or an unlink.
DentryRight ==
  \A n \in Names :
    names[n] # 0 => names[n] \in DOMAIN map /\ object[map[names[n]].record] = store[n]

\* "An optional path is absent after the last known name of an open file has
\* been unlinked" (PathFilesystem), and only then: an inode that the kernel
\* holds has a path for as long as a name that the mount can know to be its
\* object's is there.  Those are the name the object was found under and the
\* names it got through the mount since; another name that was a hard link of
\* the same file before the mount has an inode, and a path, of its own.
PathKnown ==
  \A i \in DOMAIN map :
    klookup[i] > 0 /\ (\E n \in Names : store[n] = object[map[i].record]) => HasPath(i)

\* The adapter's state is well formed and agrees with the runtime's, and what
\* the runtime promises the kernel holds with this filesystem behind it.
AdapterOK == PathTypeOK /\ NamespaceExact /\ KernelInodeLive /\ EntryIsTarget
=============================================================================
