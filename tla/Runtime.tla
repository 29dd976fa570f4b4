------------------------------ MODULE Runtime ------------------------------
(***************************************************************************)
(* The node lifetime protocol of typed_fuse_core's Runtime and of the      *)
(* shims that call it: what each request does to the inode table, one      *)
(* critical section at a time, while the other workers are in the middle   *)
(* of theirs.                                                              *)
(*                                                                         *)
(* Around the runtime stand                                                *)
(*  - the kernel, which counts the lookups it was told of, forgets them,   *)
(*    opens inodes it knows and releases files it was given;               *)
(*  - the filesystem (NodeFs, user code), which keeps one directory of     *)
(*    names and follows the contract of the NodeFs doc comments: insert    *)
(*    and record, add_link and record, remove and remove_link.  A call     *)
(*    into it is one step.                                                 *)
(*                                                                         *)
(* The lease protocol of a handle record is HandleTable's; here file()     *)
(* and dir() take their lease where they linearize, when they find the     *)
(* record in the table: a release() that overtakes them waits for them.    *)
(* Files and directory handles are in one map, `files`.                    *)
(***************************************************************************)
EXTENDS NodeTable

CONSTANTS
  Names,       \* the names of the filesystem's directory
  Serial,      \* whether the kernel's directory lock is there: lookups and
               \* listings share it, changes to the directory exclude them
  FaultSets,   \* what may go wrong in a behaviour, one of these sets: the
               \* replies ("entry", "open", "readdirplus") that are not
               \* delivered because the request was interrupted, and a
               \* "panic" of fs.readdirplus
  MaxFh,       \* bound: handles opened
  MaxLookups   \* bound: lookups of one inode the kernel counts

ASSUME NamesFinite == IsFiniteSet(Names)
ASSUME RuntimeBoundsNat == MaxFh \in Nat /\ MaxLookups \in Nat

Threads == Holders
Fh == 1..MaxFh

VARIABLES
  faults,    \* what may go wrong in this behaviour
  names,     \* filesystem: names[n] is an inode number, 0 if there is no entry
  files,     \* HandleTable: fh -> [ino, record], record being history
  next_fh,   \* HandleTable.next_fh
  klookup,   \* kernel: klookup[i], the lookups of inode number i it counts
  kident,    \* kernel: kident[i], the [gen, record] it knows i as
  kopen,     \* kernel: the <<fh, ino>> it was given and has not released
  pc,        \* pc[t]: the next step of the request t is serving
  op,        \* op[t]: that request
  id,        \* id[t]: the inode number in its hands
  want,      \* history: the record that number stands for: for t, when it got
             \* it; for an entry's receiver, when its lookup was counted
  gen,       \* gen[t]: the generation t read for its reply
  fh,        \* fh[t]: the file handle in its hands
  buffer     \* buffer[t]: the entries of a readdirplus reply, each with
             \* `retained`, whether it is in the list of accepted ids

fsVars == <<names>>
handleVars == <<files, next_fh>>
kernelVars == <<klookup, kident, kopen>>
requestVars == <<op, id, want, gen, fh, buffer>>
threadVars == <<pc, requestVars>>
vars == <<faults, tableVars, fsVars, handleVars, kernelVars, threadVars>>

DirWriters == {"mknod", "create", "link"}
DirReaders == {"lookup", "readdir", "readdirplus"}
Ops == DirWriters \cup DirReaders
         \cup {"none", "revalidate", "open", "node", "file", "release"}
PCs == {"idle", "entry", "entry_attr", "entry_ref", "reply",
        "open_fs", "add_open", "add_file", "lease", "callback", "drop_node",
        "rel_node", "rel_count", "rel_drain",
        "rdp", "rdp_plus", "rdp_add", "rdp_end", "rdp_drop", "rdp_undo", "rdp_reply"}
Entry == [ino : Inos, gen : Nat, record : Nat, retained : BOOLEAN]

TypeOK ==
  /\ TableTypeOK
  /\ faults \in FaultSets
  /\ names \in [Names -> Inos \cup {0}]
  /\ DOMAIN files \subseteq Fh
  /\ files \in [DOMAIN files -> [ino : Inos, record : Nat]]
  /\ next_fh \in 1..(MaxFh + 1)
  /\ klookup \in [Inos -> Nat]
  /\ kident \in [Inos -> [gen : Nat, record : Nat]]
  /\ kopen \subseteq Fh \X Inos
  /\ pc \in [Threads -> PCs]
  /\ op \in [Threads -> Ops]
  /\ id \in [Threads -> Inos \cup {0}]
  /\ want \in [Threads -> Nat]
  /\ gen \in [Threads -> Nat]
  /\ fh \in [Threads -> Fh \cup {0}]
  /\ buffer \in [Threads -> Seq(Entry)]

\* The root has no lookup in the table; the kernel knows it all the same.
Init ==
  /\ TableInit
  /\ faults \in FaultSets
  /\ names = [n \in Names |-> 0]
  /\ files = <<>>
  /\ next_fh = 1
  /\ klookup = [i \in Inos |-> 0]
  /\ kident = [i \in Inos |-> [gen |-> 0, record |-> 1]]
  /\ kopen = {}
  /\ pc = [t \in Threads |-> "idle"]
  /\ op = [t \in Threads |-> "none"]
  /\ id = [t \in Threads |-> 0]
  /\ want = [t \in Threads |-> 0]
  /\ gen = [t \in Threads |-> 0]
  /\ fh = [t \in Threads |-> 0]
  /\ buffer = [t \in Threads |-> <<>>]

Known(i) == i = ROOT \/ klookup[i] > 0

-----------------------------------------------------------------------------
(* The thread's side of a step *)

Goto(t, l) == pc' = [pc EXCEPT ![t] = l]

\* t starts on request o, with inode number i standing for record r, and
\* file handle h.
Start(t, o, i, r, h, l) ==
  /\ pc[t] = "idle"
  /\ Goto(t, l)
  /\ op' = [op EXCEPT ![t] = o]
  /\ id' = [id EXCEPT ![t] = i]
  /\ want' = [want EXCEPT ![t] = r]
  /\ fh' = [fh EXCEPT ![t] = h]
  /\ UNCHANGED <<gen, buffer>>

\* The request is over: answered, or given up.
Finish(t) ==
  /\ Goto(t, "idle")
  /\ op' = [op EXCEPT ![t] = "none"]
  /\ id' = [id EXCEPT ![t] = 0]
  /\ want' = [want EXCEPT ![t] = 0]
  /\ gen' = [gen EXCEPT ![t] = 0]
  /\ fh' = [fh EXCEPT ![t] = 0]
  /\ buffer' = [buffer EXCEPT ![t] = <<>>]

\* A request that begins with `self.node(ino)?`: ENOENT ends it at once.
StartOnNode(t, o, i, h, l) ==
  /\ pc[t] = "idle"
  /\ IF i \in DOMAIN map
       THEN Get(t, i) /\ Start(t, o, i, map[i].record, h, l)
       ELSE UNCHANGED <<tableVars, threadVars>>
  /\ UNCHANGED <<fsVars, handleVars, kernelVars>>

\* The kernel's lock on the directory.
MayRead == Serial => \A u \in Threads : op[u] \notin DirWriters
MayWrite == Serial => \A u \in Threads : op[u] \notin DirWriters \cup DirReaders

\* So many handles may still be opened, with the ones on their way.
FhLeft ==
  next_fh + Cardinality({u \in Threads : op[u] \in {"open", "create"} /\ fh[u] = 0})
    <= MaxFh

\* A fault that leaks a lookup happens while no node has more than MaxCount.
LeakBound == \A i \in DOMAIN map : map[i].lookups <= MaxCount

-----------------------------------------------------------------------------
(* lookup, mknod/mkdir/symlink, create, link, unlink/rmdir, rename: the    *)
(* call into the filesystem.  A negative lookup and a call the filesystem  *)
(* refuses change nothing and are left out.                                *)

Lookup(t, n) ==
  /\ MayRead
  /\ names[n] # 0
  /\ Start(t, "lookup", names[n], map[names[n]].record, 0, "entry")
  /\ UNCHANGED <<tableVars, fsVars, handleVars, kernelVars>>

\* The kernel looks a name it has cached up again without the directory lock.
Revalidate(t, n) ==
  /\ names[n] # 0
  /\ Start(t, "revalidate", names[n], map[names[n]].record, 0, "entry")
  /\ UNCHANGED <<tableVars, fsVars, handleVars, kernelVars>>

\* Mutant of Allocated: the free stack is not consulted.
AllocatedFresh == next_ino

\* The inode number Insert is about to hand out.
Allocated == IF free # <<>> THEN free[Len(free)][1] ELSE next_ino

MakeNode(t, n, o) ==
  /\ MayWrite
  /\ names[n] = 0
  /\ Insert(ROOT)
  /\ names' = [names EXCEPT ![n] = Allocated]
  /\ Start(t, o, Allocated, records + 1, 0, "entry")
  /\ UNCHANGED <<handleVars, kernelVars>>

Mknod(t, n) == MakeNode(t, n, "mknod")
Create(t, n) == FhLeft /\ MakeNode(t, n, "create")

Link(t, i, n) ==
  /\ MayWrite
  /\ klookup[i] > 0
  /\ names[n] = 0
  /\ AddLink(i)
  /\ names' = [names EXCEPT ![n] = i]
  /\ Start(t, "link", i, kident[i].record, 0, "entry")
  /\ UNCHANGED <<handleVars, kernelVars>>

Unlink(t, n) ==
  /\ pc[t] = "idle"
  /\ MayWrite
  /\ names[n] # 0
  /\ RemoveLink(names[n])
  /\ names' = [names EXCEPT ![n] = 0]
  /\ UNCHANGED <<handleVars, kernelVars, threadVars>>

\* rename over an existing entry drops that entry's link.
Rename(t, n, m) ==
  /\ pc[t] = "idle"
  /\ MayWrite
  /\ names[n] # 0
  /\ names[n] # names[m]
  /\ IF names[m] = 0 THEN UNCHANGED tableVars ELSE RemoveLink(names[m])
  /\ names' = [names EXCEPT ![m] = names[n], ![n] = 0]
  /\ UNCHANGED <<handleVars, kernelVars, threadVars>>

-----------------------------------------------------------------------------
(* Runtime::entry_for *)

\* The node is found again by its number; ENOENT if it is gone.
EntryGet(t) ==
  /\ pc[t] = "entry"
  /\ IF id[t] \in DOMAIN map
       THEN Get(t, id[t]) /\ Goto(t, "entry_attr") /\ UNCHANGED requestVars
       ELSE UNCHANGED tableVars /\ Finish(t)
  /\ UNCHANGED <<fsVars, handleVars, kernelVars>>

\* getattr() failed or panicked: the lease goes, and no lookup is counted.
EntryFail(t) ==
  /\ pc[t] = "entry_attr"
  /\ DropRef(t)
  /\ Finish(t)
  /\ UNCHANGED <<fsVars, handleVars, kernelVars>>

\* Mutant of EntryRetain: the reply is built without counting its lookup.
EntryUncounted(t) ==
  /\ pc[t] = "entry_attr"
  /\ gen' = [gen EXCEPT ![t] = map[id[t]].generation]
  /\ want' = [want EXCEPT ![t] = map[id[t]].record]
  /\ Goto(t, "entry_ref")
  /\ UNCHANGED <<tableVars, op, id, fh, buffer, fsVars, handleVars, kernelVars>>

\* The lookup is counted and the generation read in one critical section.
EntryRetain(t) ==
  /\ pc[t] = "entry_attr"
  /\ RetainLookup(id[t])
  /\ gen' = [gen EXCEPT ![t] = map[id[t]].generation]
  /\ want' = [want EXCEPT ![t] = map[id[t]].record]
  /\ Goto(t, "entry_ref")
  /\ UNCHANGED <<op, id, fh, buffer, fsVars, handleVars, kernelVars>>

\* entry_for returns; create() goes on to add the open file.
EntryDone(t) ==
  /\ pc[t] = "entry_ref"
  /\ DropRef(t)
  /\ Goto(t, IF op[t] = "create" THEN "add_open" ELSE "reply")
  /\ UNCHANGED <<requestVars, fsVars, handleVars, kernelVars>>

-----------------------------------------------------------------------------
(* open, opendir and the rest of create *)

Open(t, i) ==
  /\ FhLeft
  /\ Known(i)
  /\ StartOnNode(t, "open", i, 0, "open_fs")

\* The filesystem's open() refuses.
OpenFail(t) ==
  /\ pc[t] = "open_fs"
  /\ DropRef(t)
  /\ Finish(t)
  /\ UNCHANGED <<fsVars, handleVars, kernelVars>>

\* Mutant of CountOpen: the open is not counted.
OpenUncounted(t) ==
  /\ pc[t] \in {"open_fs", "add_open"}
  /\ Goto(t, "add_file")
  /\ UNCHANGED <<tableVars, requestVars, fsVars, handleVars, kernelVars>>

\* add_open, after the filesystem's open() (under open's lease) or create().
CountOpen(t) ==
  /\ pc[t] \in {"open_fs", "add_open"}
  /\ IF id[t] \in DOMAIN map
       THEN AddOpen(id[t]) /\ Goto(t, "add_file") /\ UNCHANGED requestVars
       ELSE UNCHANGED tableVars /\ Finish(t)
  /\ UNCHANGED <<fsVars, handleVars, kernelVars>>

\* Mutant of AddFile: the handle returned is the one after the increment.
AddFileNextFh(t) ==
  /\ pc[t] = "add_file"
  /\ files' = [h \in DOMAIN files \cup {next_fh} |->
                 IF h = next_fh THEN [ino |-> id[t], record |-> want[t]] ELSE files[h]]
  /\ next_fh' = next_fh + 1
  /\ fh' = [fh EXCEPT ![t] = next_fh + 1]
  /\ Goto(t, IF op[t] = "open" THEN "drop_node" ELSE "reply")
  /\ UNCHANGED <<tableVars, fsVars, kernelVars, op, id, want, gen, buffer>>

AddFile(t) ==
  /\ pc[t] = "add_file"
  /\ files' = [h \in DOMAIN files \cup {next_fh} |->
                 IF h = next_fh THEN [ino |-> id[t], record |-> want[t]] ELSE files[h]]
  /\ next_fh' = next_fh + 1
  /\ fh' = [fh EXCEPT ![t] = next_fh]
  /\ Goto(t, IF op[t] = "open" THEN "drop_node" ELSE "reply")
  /\ UNCHANGED <<tableVars, fsVars, kernelVars, op, id, want, gen, buffer>>

-----------------------------------------------------------------------------
(* Requests on a node (getattr, setattr, readlink, access, xattrs) and on  *)
(* an open file (read, write, flush, fsync, lseek, locks, fsyncdir, ...)   *)

OnNode(t, i) ==
  /\ Known(i)
  /\ StartOnNode(t, "node", i, 0, "callback")

OnFile(t, h, i) ==
  /\ <<h, i>> \in kopen
  /\ StartOnNode(t, "file", i, h, "lease")

\* file() and dir(): a lease on the handle, or EBADF.
LeaseHandle(t) ==
  LET found == fh[t] \in DOMAIN files /\ files[fh[t]].ino = id[t]
  IN /\ pc[t] = "lease"
     /\ Goto(t, IF ~found THEN "drop_node"
                ELSE IF op[t] = "readdirplus" THEN "rdp" ELSE "callback")
     /\ fh' = [fh EXCEPT ![t] = IF found THEN @ ELSE 0]
     /\ UNCHANGED <<tableVars, fsVars, handleVars, kernelVars, op, id, want, gen, buffer>>

\* The callback returned or panicked, and a read has been answered: the lease
\* on the handle goes, then the one on the node.
CallbackDone(t) ==
  /\ pc[t] = "callback"
  /\ Goto(t, "drop_node")
  /\ fh' = [fh EXCEPT ![t] = 0]
  /\ UNCHANGED <<tableVars, fsVars, handleVars, kernelVars, op, id, want, gen, buffer>>

DropNode(t) ==
  /\ pc[t] = "drop_node"
  /\ DropRef(t)
  /\ IF op[t] = "open" THEN Goto(t, "reply") /\ UNCHANGED requestVars ELSE Finish(t)
  /\ UNCHANGED <<fsVars, handleVars, kernelVars>>

\* t is in a callback on handle h.
LeasesHandle(t, h) ==
  fh[t] = h /\ op[t] \in {"file", "readdirplus"} /\ pc[t] # "lease"

-----------------------------------------------------------------------------
(* release and releasedir *)

Release(t, h, i) ==
  /\ pc[t] = "idle"
  /\ <<h, i>> \in kopen
  /\ kopen' = kopen \ {<<h, i>>}
  /\ IF h \in DOMAIN files /\ files[h].ino = i
       THEN /\ files' = Restrict(files, DOMAIN files \ {h})
            /\ Start(t, "release", i, files[h].record, h, "rel_node")
       ELSE UNCHANGED <<files, threadVars>>          \* EBADF
  /\ UNCHANGED <<tableVars, fsVars, next_fh, klookup, kident>>

ReleaseNode(t) ==
  /\ pc[t] = "rel_node"
  /\ IF id[t] \in DOMAIN map
       THEN Get(t, id[t]) /\ Goto(t, "rel_count") /\ UNCHANGED requestVars
       ELSE UNCHANGED tableVars /\ Finish(t)
  /\ UNCHANGED <<fsVars, handleVars, kernelVars>>

\* Mutant of ReleaseCount: release() does not count the open down.
ReleaseUncounted(t) ==
  /\ pc[t] = "rel_count"
  /\ Goto(t, "rel_drain")
  /\ UNCHANGED <<tableVars, requestVars, fsVars, handleVars, kernelVars>>

ReleaseCount(t) ==
  /\ pc[t] = "rel_count"
  /\ RemoveOpen(id[t])
  /\ Goto(t, "rel_drain")
  /\ UNCHANGED <<requestVars, fsVars, handleVars, kernelVars>>

\* close_and_take returns when no callback is on the handle; then the
\* filesystem's release() runs.
ReleaseDrained(t) ==
  /\ pc[t] = "rel_drain"
  /\ \A u \in Threads : ~LeasesHandle(u, fh[t])
  /\ Goto(t, "drop_node")
  /\ UNCHANGED <<requestVars, tableVars, fsVars, handleVars, kernelVars>>

-----------------------------------------------------------------------------
(* readdirplus.  The entries "." and ".." are counted by neither side.     *)

ReadDirPlus(t, h) ==
  /\ MayRead
  /\ <<h, ROOT>> \in kopen
  /\ StartOnNode(t, "readdirplus", ROOT, h, "lease")

\* The filesystem emits an entry: sink.add(name, id, ...).
Emit(t, n) ==
  /\ pc[t] = "rdp"
  /\ names[n] # 0
  /\ Len(buffer[t]) < Cardinality(Names)
  /\ id' = [id EXCEPT ![t] = names[n]]
  /\ want' = [want EXCEPT ![t] = map[names[n]].record]
  /\ Goto(t, "rdp_plus")
  /\ UNCHANGED <<tableVars, fsVars, handleVars, kernelVars, op, gen, fh, buffer>>

\* plus_entry: the entry's generation; or add() returns false, and the
\* filesystem stops iterating.
PlusEntry(t) ==
  /\ pc[t] = "rdp_plus"
  /\ IF id[t] \in DOMAIN map
       THEN Goto(t, "rdp_add") /\ gen' = [gen EXCEPT ![t] = map[id[t]].generation]
       ELSE Goto(t, "rdp_end") /\ UNCHANGED gen
  /\ UNCHANGED <<tableVars, fsVars, handleVars, kernelVars, op, id, want, fh, buffer>>

\* The reply buffer has room: the entry is in it, and then a lookup is
\* retained for it, if its number is still there.
PlusRetain(t) ==
  LET there == id[t] \in DOMAIN map
  IN /\ pc[t] = "rdp_add"
     /\ IF there THEN RetainLookup(id[t]) ELSE UNCHANGED tableVars
     /\ buffer' = [buffer EXCEPT ![t] =
          Append(@, [ino |-> id[t], gen |-> gen[t], record |-> want[t], retained |-> there])]
     /\ Goto(t, "rdp")
     /\ UNCHANGED <<fsVars, handleVars, kernelVars, op, id, want, gen, fh>>

\* The reply buffer is full.
PlusFull(t) ==
  /\ pc[t] = "rdp_add"
  /\ Goto(t, "rdp_end")
  /\ UNCHANGED <<requestVars, tableVars, fsVars, handleVars, kernelVars>>

\* The filesystem's readdirplus() fails, after some entries or none.
PlusError(t) ==
  /\ pc[t] \in {"rdp", "rdp_end"}
  /\ Goto(t, "rdp_undo")
  /\ UNCHANGED <<requestVars, tableVars, fsVars, handleVars, kernelVars>>

\* It panics: unwinding drops the leases and the list of accepted ids.
PlusPanic(t) ==
  /\ pc[t] = "rdp"
  /\ "panic" \in faults
  /\ LeakBound
  /\ DropRef(t)
  /\ Finish(t)
  /\ UNCHANGED <<fsVars, handleVars, kernelVars>>

\* It succeeds: first the lease on the handle goes, then the one on the node.
PlusOk(t) ==
  /\ pc[t] \in {"rdp", "rdp_end"}
  /\ Goto(t, "rdp_drop")
  /\ fh' = [fh EXCEPT ![t] = 0]
  /\ UNCHANGED <<tableVars, fsVars, handleVars, kernelVars, op, id, want, gen, buffer>>

PlusDrop(t) ==
  /\ pc[t] = "rdp_drop"
  /\ DropRef(t)
  /\ Goto(t, "rdp_reply")
  /\ UNCHANGED <<requestVars, fsVars, handleVars, kernelVars>>

\* Mutant of PlusUndo: the entries are dropped and not forgotten.
PlusNoUndo(t) ==
  /\ pc[t] = "rdp_undo"
  /\ buffer[t] # <<>>
  /\ buffer' = [buffer EXCEPT ![t] = Tail(@)]
  /\ UNCHANGED <<tableVars, pc, op, id, want, gen, fh, fsVars, handleVars, kernelVars>>

\* The accepted entries are forgotten one by one: by the runtime after an
\* error, with its leases still held; by the shim after a lost reply.
PlusUndo(t) ==
  /\ pc[t] = "rdp_undo"
  /\ buffer[t] # <<>>
  /\ LET e == Head(buffer[t])
     IN IF e.retained /\ e.ino \in DOMAIN map THEN Forget(e.ino, 1) ELSE UNCHANGED tableVars
  /\ buffer' = [buffer EXCEPT ![t] = Tail(@)]
  /\ UNCHANGED <<pc, op, id, want, gen, fh, fsVars, handleVars, kernelVars>>

PlusUndone(t) ==
  /\ pc[t] = "rdp_undo"
  /\ buffer[t] = <<>>
  /\ IF ref[t] # NoRef
       THEN Goto(t, "drop_node") /\ fh' = [fh EXCEPT ![t] = 0]
            /\ UNCHANGED <<op, id, want, gen, buffer>>
       ELSE Finish(t)
  /\ UNCHANGED <<tableVars, fsVars, handleVars, kernelVars>>

-----------------------------------------------------------------------------
(* Replies, and what the kernel makes of them *)

\* The places in the buffer of t of its entries for inode number i.
EntriesFor(t, i) == {a \in 1..Len(buffer[t]) : buffer[t][a].ino = i}

\* What the last of these entries tells of it.
LastFor(t, i) ==
  LET a == CHOOSE a \in EntriesFor(t, i) : \A b \in EntriesFor(t, i) : b <= a
  IN [gen |-> buffer[t][a].gen, record |-> buffer[t][a].record]

PlusReply(t) ==
  /\ pc[t] = "rdp_reply"
  /\ klookup' = [i \in Inos |-> klookup[i] + Cardinality(EntriesFor(t, i))]
  /\ \A i \in Inos : klookup'[i] <= MaxLookups
  /\ kident' = [i \in Inos |-> IF EntriesFor(t, i) = {} THEN kident[i] ELSE LastFor(t, i)]
  /\ Finish(t)
  /\ UNCHANGED <<tableVars, fsVars, handleVars, kopen>>

\* readdirplus_shim sees that the reply was not delivered.
PlusReplyLost(t) ==
  /\ pc[t] = "rdp_reply"
  /\ "readdirplus" \in faults
  /\ Goto(t, "rdp_undo")
  /\ UNCHANGED <<requestVars, tableVars, fsVars, handleVars, kernelVars>>

\* An entry reply, an open reply or, for create, both.
Reply(t) ==
  /\ pc[t] = "reply"
  /\ IF op[t] = "open"
       THEN UNCHANGED <<klookup, kident>>
       ELSE /\ klookup[id[t]] < MaxLookups
            /\ klookup' = [klookup EXCEPT ![id[t]] = @ + 1]
            /\ kident' = [kident EXCEPT ![id[t]] = [gen |-> gen[t], record |-> want[t]]]
  /\ kopen' = IF op[t] \in {"open", "create"} THEN kopen \cup {<<fh[t], id[t]>>} ELSE kopen
  /\ Finish(t)
  /\ UNCHANGED <<tableVars, fsVars, handleVars>>

\* The reply was not delivered; the other shims do not look.
ReplyLost(t) ==
  /\ pc[t] = "reply"
  /\ (IF op[t] = "open" THEN "open" ELSE "entry") \in faults
  /\ LeakBound
  /\ Finish(t)
  /\ UNCHANGED <<tableVars, fsVars, handleVars, kernelVars>>

\* forget, and each entry of forget_multi, may come at any time.
KernelForget(i, n) ==
  /\ n <= klookup[i]
  /\ IF i \in DOMAIN map THEN Forget(i, n) ELSE UNCHANGED tableVars
  /\ klookup' = [klookup EXCEPT ![i] = @ - n]
  /\ UNCHANGED <<fsVars, handleVars, kident, kopen, threadVars>>

-----------------------------------------------------------------------------

Step(t) ==
  \/ EntryGet(t) \/ EntryFail(t) \/ EntryRetain(t) \/ EntryDone(t)
  \/ OpenFail(t) \/ CountOpen(t) \/ AddFile(t)
  \/ LeaseHandle(t) \/ CallbackDone(t) \/ DropNode(t)
  \/ ReleaseNode(t) \/ ReleaseCount(t) \/ ReleaseDrained(t)
  \/ \E n \in Names : Emit(t, n)
  \/ PlusEntry(t) \/ PlusRetain(t) \/ PlusFull(t) \/ PlusError(t) \/ PlusPanic(t)
  \/ PlusOk(t) \/ PlusDrop(t) \/ PlusUndo(t) \/ PlusUndone(t)
  \/ PlusReply(t) \/ PlusReplyLost(t)
  \/ Reply(t) \/ ReplyLost(t)

Request(t) ==
  \/ \E n \in Names :
       Lookup(t, n) \/ Revalidate(t, n) \/ Mknod(t, n) \/ Create(t, n) \/ Unlink(t, n)
  \/ \E n, m \in Names : Rename(t, n, m)
  \/ \E i \in Inos :
       \/ Open(t, i) \/ OnNode(t, i)
       \/ \E n \in Names : Link(t, i, n)
       \/ \E h \in Fh : OnFile(t, h, i) \/ Release(t, h, i)
  \/ \E h \in Fh : ReadDirPlus(t, h)

Next ==
  /\ \/ \E t \in Threads : Request(t) \/ Step(t)
     \/ \E i \in Inos, n \in 1..MaxLookups : KernelForget(i, n)
  /\ UNCHANGED faults

Spec == Init /\ [][Next]_vars

-----------------------------------------------------------------------------
(* Properties *)

\* How many lookups of i the runtime has counted for replies not yet sent.
Unsent(i) ==
  Cardinality({t \in Threads : id[t] = i /\ op[t] \in DirWriters \cup {"lookup", "revalidate"}
                                /\ pc[t] \in {"entry_ref", "add_open", "add_file", "reply"}})
  + Cardinality({k \in Threads \X (1..Cardinality(Names)) :
                   /\ k[2] <= Len(buffer[k[1]])
                   /\ buffer[k[1]][k[2]].ino = i
                   /\ buffer[k[1]][k[2]].retained})

\* Every inode the kernel believes in is in the table, and is still the node
\* and the generation that the kernel was told of: no forget, release or
\* unlink of another thread frees or recycles it under the kernel.
KernelInodeLive ==
  \A i \in Inos :
    klookup[i] > 0 => /\ i \in DOMAIN map
                      /\ map[i].record = kident[i].record
                      /\ map[i].generation = kident[i].gen

\* The faults the code takes back: a readdirplus reply that is not delivered.
Recovered == faults \subseteq {"readdirplus"}

\* Slot.lookups is exactly what the kernel will still forget: the lookups it
\* counts and those in replies on their way, rolled back ones excluded; and
\* never less, whatever is lost.
LookupsExact ==
  \A i \in DOMAIN map : /\ map[i].lookups >= klookup[i] + Unsent(i)
                         /\ Recovered => map[i].lookups = klookup[i] + Unsent(i)

\* Slot.opens is exactly the number of open files on the node, with the ones
\* being opened and the ones being released: it never underflows or leaks.
OpensExact ==
  \A i \in DOMAIN map :
    map[i].opens =
      Cardinality({h \in DOMAIN files : files[h].ino = i})
      + Cardinality({t \in Threads : id[t] = i
                                      /\ pc[t] \in {"add_file", "rel_node", "rel_count"}})

\* A handle pins its node: an open file, and a release() on its way, always
\* finds its node in the table, unlinked and forgotten or not, so neither
\* remove_open nor the filesystem's release() is ever skipped; and every file
\* the kernel was given is there until the kernel releases it.
HandlePinned ==
  /\ \A h \in DOMAIN files : files[h].ino \in DOMAIN map
  /\ \A t \in Threads : pc[t] = "rel_node" => id[t] \in DOMAIN map
  /\ \A k \in kopen : k[1] \in DOMAIN files /\ files[k[1]].ino = k[2]

\* A handle stays with the very node it was opened on, which is there up to the
\* filesystem's release() on it: its number is not recycled in between.
HandleKeepsNode ==
  /\ HandlePinned
  /\ \A h \in DOMAIN files :
       files[h].ino \in DOMAIN map => map[files[h].ino].record = files[h].record
  /\ \A t \in Threads :
       pc[t] = "rel_node" /\ id[t] \in DOMAIN map => map[id[t]].record = want[t]
  /\ \A t \in Threads : pc[t] \in {"rel_count", "rel_drain"} => ref[t].record = want[t]

\* lookup, create and the others find the node by its number again after the
\* filesystem has named it; with the kernel's directory lock this is still the
\* node that the filesystem meant, so create never attaches its handle to
\* another one and a listing never describes one node under another's number.
EntryIsTarget ==
  \A t \in Threads :
    op[t] # "revalidate"
      /\ pc[t] \in {"entry", "entry_attr", "entry_ref", "add_open", "rdp_plus", "rdp_add"} =>
        /\ id[t] \in DOMAIN map
        /\ map[id[t]].record = want[t]

\* "The runtime frees the node once it is also un-looked-up and closed"
\* (NodeFs::unlink): a node that no name, kernel lookup, open file or request
\* refers to is gone from the table.
AlwaysFreed ==
  \A i \in DOMAIN map \ {ROOT} :
    \/ \E n \in Names : names[n] = i
    \/ klookup[i] > 0
    \/ \E k \in kopen : k[2] = i
    \/ \E t \in Threads : id[t] = i \/ ref[t].id = i
                          \/ \E a \in 1..Len(buffer[t]) : buffer[t][a].ino = i

\* The same, with no fault but those the code recovers from: a readdirplus that
\* fails, or whose reply is lost, gives its lookups back.
FreedWhenUnreferenced == Recovered => AlwaysFreed
=============================================================================
