--------------------------- MODULE RuntimeProofs ---------------------------
(***************************************************************************)
(* Proofs about Runtime, for any number of workers, names, nodes, handles  *)
(* and lookups.                                                            *)
(*                                                                         *)
(* Every slot counter is tied to what it counts for every inode number, in *)
(* the table or not, the counters of a number that is not in the table     *)
(* being zero.  That is what makes the invariant inductive: a number that  *)
(* a name, an open file or a lookup still needs cannot leave the table,    *)
(* and a number that alloc() hands out is needed by nobody.                *)
(***************************************************************************)
EXTENDS Runtime, NodeTableProofs

LinksOf == [i \in Inos |-> IF i \in DOMAIN map THEN map[i].links ELSE 0]
LookupsOf == [i \in Inos |-> IF i \in DOMAIN map THEN map[i].lookups ELSE 0]
OpensOf == [i \in Inos |-> IF i \in DOMAIN map THEN map[i].opens ELSE 0]

EntryOps == DirWriters \cup {"lookup", "revalidate"}
OpenOps == {"open", "create"}
OpeningPCs == {"add_file", "rel_node", "rel_count"}
EntryPCs == {"entry", "entry_attr", "entry_ref"}
OwingPCs == {"entry_ref", "add_open", "add_file", "reply"}
ReleasePCs == {"rel_node", "rel_count", "rel_drain"}
PlusPCs == {"rdp", "rdp_plus", "rdp_add", "rdp_end", "rdp_drop", "rdp_undo", "rdp_reply"}

\* What a slot's counters count.
NamesFor(i) == {n \in Names : names[n] = i}
FilesOn(i) == {h \in DOMAIN files : files[h].ino = i}
Opening(i) == {t \in Threads : id[t] = i /\ pc[t] \in OpeningPCs}

LinksInv ==
  \A i \in Inos : LinksOf[i] = Cardinality(NamesFor(i)) + (IF i = ROOT THEN 1 ELSE 0)
OpensInv ==
  \A i \in Inos : OpensOf[i] = Cardinality(FilesOn(i)) + Cardinality(Opening(i))

\* Where a request can be, and what it then has in its hands.
Shape(t) ==
  /\ pc[t] = "idle" <=> op[t] = "none"
  /\ pc[t] \in EntryPCs => op[t] \in EntryOps /\ fh[t] = 0
  /\ pc[t] = "open_fs" => op[t] = "open" /\ fh[t] = 0
  /\ pc[t] = "add_open" => op[t] = "create" /\ fh[t] = 0
  /\ pc[t] = "add_file" => op[t] \in OpenOps /\ fh[t] = 0
  /\ pc[t] = "reply" => op[t] \in EntryOps \cup {"open"} /\ (op[t] \in OpenOps => fh[t] # 0)
  /\ pc[t] = "drop_node" =>
       /\ op[t] \in {"open", "node", "file", "release", "readdirplus"}
       /\ op[t] = "open" => fh[t] # 0
  /\ pc[t] = "lease" => op[t] \in {"file", "readdirplus"}
  /\ pc[t] = "callback" => op[t] \in {"node", "file"}
  /\ pc[t] \in ReleasePCs => op[t] = "release"
  /\ pc[t] \in PlusPCs => op[t] = "readdirplus"
  /\ op[t] # "none" => id[t] \in Inos

ShapeInv == \A t \in Threads : Shape(t)

\* t has opened a file and not yet told the kernel.
Holds(t) == op[t] \in OpenOps /\ fh[t] # 0

\* A file handle belongs to the kernel or to one request, never to two.
HandleInv ==
  /\ \A h \in DOMAIN files : h < next_fh
  /\ \A k \in kopen : k[1] \in DOMAIN files /\ files[k[1]].ino = k[2]
  /\ \A t \in Threads :
       Holds(t) => /\ fh[t] \in DOMAIN files
                   /\ files[fh[t]].ino = id[t]
                   /\ \A k \in kopen : k[1] # fh[t]
  /\ \A t, u \in Threads : Holds(t) /\ Holds(u) /\ fh[t] = fh[u] => t = u

\* The requests that will still take a handle.
Waiting == {t \in Threads : op[t] \in OpenOps /\ fh[t] = 0}
HandleBound == next_fh + Cardinality(Waiting) <= MaxFh + 1

\* Holds whatever the kernel orders and whatever goes wrong.
AnyOrderInv ==
  /\ TableInv
  /\ TypeOK
  /\ LinksInv
  /\ OpensInv
  /\ ShapeInv
  /\ HandleInv
  /\ HandleBound

-----------------------------------------------------------------------------
(* With the kernel's directory lock *)

LockInv ==
  \A t, u \in Threads :
    t # u /\ op[t] \in DirWriters => op[u] \notin DirWriters \cup DirReaders

\* t works on a node that it has from the directory.
Targets(t) ==
  /\ op[t] # "revalidate"
  /\ pc[t] \in {"entry", "entry_attr", "entry_ref", "add_open", "rdp_plus", "rdp_add"}

TargetInv ==
  \A t \in Threads :
    Targets(t) => /\ \E n \in Names : names[n] = id[t]
                  /\ map[id[t]].record = want[t]
                  /\ pc[t] = "rdp_add" => map[id[t]].generation = gen[t]

\* t holds the NodeRef of the very node it works on.
RefInv ==
  \A t \in Threads :
    pc[t] \in {"open_fs", "rel_count", "rel_drain"} =>
      ref[t] = [id |-> id[t], record |-> want[t]]

KeepInv ==
  /\ \A h \in DOMAIN files : map[files[h].ino].record = files[h].record
  /\ \A t \in Threads : pc[t] \in OpeningPCs => map[id[t]].record = want[t]

Owes(t) == op[t] \in EntryOps /\ pc[t] \in OwingPCs
Owed(i) == {t \in Threads : id[t] = i /\ Owes(t)}
Listed(i) ==
  {k \in Threads \X (1..Cardinality(Names)) :
     /\ k[2] <= Len(buffer[k[1]])
     /\ buffer[k[1]][k[2]].ino = i
     /\ buffer[k[1]][k[2]].retained}

LookupsInv ==
  \A i \in Inos :
    /\ LookupsOf[i] >= klookup[i] + Cardinality(Owed(i)) + Cardinality(Listed(i))
    /\ Recovered => LookupsOf[i] = klookup[i] + Cardinality(Owed(i)) + Cardinality(Listed(i))

OwedInv ==
  \A t \in Threads :
    Owes(t) => map[id[t]].record = want[t] /\ map[id[t]].generation = gen[t]

\* Only a readdirplus has entries; each of them has its lookup.
ListShape(t) ==
  /\ buffer[t] # <<>> => pc[t] \in PlusPCs
  /\ Len(buffer[t]) <= Cardinality(Names)
  /\ pc[t] \in {"rdp_plus", "rdp_add"} => Len(buffer[t]) < Cardinality(Names)
  /\ \A a \in 1..Len(buffer[t]) : buffer[t][a].retained

ListInv == \A t \in Threads : ListShape(t)

BufferInv ==
  \A t \in Threads : \A a \in 1..Len(buffer[t]) :
    /\ map[buffer[t][a].ino].record = buffer[t][a].record
    /\ map[buffer[t][a].ino].generation = buffer[t][a].gen

KernelInv ==
  \A i \in Inos :
    klookup[i] > 0 => /\ map[i].record = kident[i].record
                      /\ map[i].generation = kident[i].gen

\* A file the kernel does not know belongs to a request, unless a reply was lost.
FilesInv ==
  Recovered => \A h \in DOMAIN files : \/ \E k \in kopen : k[1] = h
                                       \/ \E t \in Threads : Holds(t) /\ fh[t] = h

LockedInv ==
  /\ LockInv
  /\ TargetInv
  /\ RefInv
  /\ KeepInv
  /\ LookupsInv
  /\ OwedInv
  /\ ListInv
  /\ BufferInv
  /\ KernelInv
  /\ FilesInv

-----------------------------------------------------------------------------
(* What the operations of the table do to the counters *)

\* In the table, the counters are the slot's.
LEMMA CountsThere ==
  ASSUME TableInv, NEW i \in DOMAIN map
  PROVE  /\ i \in Inos
         /\ LinksOf[i] = map[i].links
         /\ LookupsOf[i] = map[i].lookups
         /\ OpensOf[i] = map[i].opens
BY DEF TableInv, TableTypeOK, LinksOf, LookupsOf, OpensOf

LEMMA InosFacts == Inos \subseteq Nat /\ IsFiniteSet(Inos) /\ 0 \notin Inos /\ ROOT \in Inos
BY BoundsNat, FS_Interval DEF Inos, ROOT

LEMMA CountsType ==
  ASSUME TableInv
  PROVE  /\ LinksOf \in [Inos -> Nat]
         /\ LookupsOf \in [Inos -> Nat]
         /\ OpensOf \in [Inos -> Nat]
BY DEF TableInv, TableTypeOK, Slot, LinksOf, LookupsOf, OpensOf

\* A counted number is in the table.
LEMMA CountedIsThere ==
  ASSUME NEW i \in Inos, LinksOf[i] # 0 \/ LookupsOf[i] # 0 \/ OpensOf[i] # 0
  PROVE  i \in DOMAIN map
BY DEF LinksOf, LookupsOf, OpensOf

\* Dropping a slot, all of whose counters are zero, is setting them.
LEMMA SetCounts ==
  ASSUME TableInv, NEW i \in DOMAIN map, NEW s \in Slot, SetAndMaybeDrop(i, s)
  PROVE  /\ LinksOf' = [LinksOf EXCEPT ![i] = s.links]
         /\ LookupsOf' = [LookupsOf EXCEPT ![i] = s.lookups]
         /\ OpensOf' = [OpensOf EXCEPT ![i] = s.opens]
<1>0. i \in Inos /\ DOMAIN map \subseteq Inos
  BY DEF TableInv, TableTypeOK
<1>1. CASE Droppable(s)
  <2>1. map' = [j \in DOMAIN map \ {i} |-> map[j]]
    BY <1>1 DEF SetAndMaybeDrop, Restrict
  <2>2. s.links = 0 /\ s.lookups = 0 /\ s.opens = 0
    BY <1>1 DEF Droppable
  <2> QED
    BY <1>0, <2>1, <2>2 DEF LinksOf, LookupsOf, OpensOf
<1>2. CASE ~Droppable(s)
  <2>1. map' = [map EXCEPT ![i] = s]
    BY <1>2 DEF SetAndMaybeDrop
  <2> QED
    BY <1>0, <2>1 DEF LinksOf, LookupsOf, OpensOf
<1> QED
  BY <1>1, <1>2

\* A NodeRef comes and goes without touching the other counters.
LEMMA QuietCounts ==
  ASSUME TableInv, NEW t \in Holders,
         UNCHANGED tableVars \/ DropRef(t) \/ \E i \in Inos : Get(t, i)
  PROVE  UNCHANGED <<LinksOf, LookupsOf, OpensOf>>
<1>1. CASE UNCHANGED tableVars
  BY <1>1 DEF tableVars, LinksOf, LookupsOf, OpensOf
<1>2. CASE DropRef(t)
  <2> DEFINE i == ref[t].id
             s == [map[i] EXCEPT !.leases = Minus(@, 1)]
  <2>1. i \in DOMAIN map /\ map[i].record = ref[t].record /\ map[i] \in Slot /\ i \in Inos
    BY <1>2 DEF DropRef, TableInv, LeasePins, TableTypeOK
  <2>2. /\ s \in Slot /\ s.links = map[i].links /\ s.lookups = map[i].lookups
        /\ s.opens = map[i].opens
    BY <2>1, MinusNat DEF Slot
  <2>3. SetAndMaybeDrop(i, s)
    BY <1>2, <2>1 DEF DropRef
  <2> HIDE DEF s, i
  <2>4. /\ LinksOf' = [LinksOf EXCEPT ![i] = s.links]
        /\ LookupsOf' = [LookupsOf EXCEPT ![i] = s.lookups]
        /\ OpensOf' = [OpensOf EXCEPT ![i] = s.opens]
    BY <2>1, <2>2, <2>3, SetCounts
  <2> QED
    BY <2>1, <2>2, <2>4, CountsThere, CountsType
<1>3. ASSUME NEW i \in Inos, Get(t, i) PROVE UNCHANGED <<LinksOf, LookupsOf, OpensOf>>
  BY <1>3 DEF Get, LinksOf, LookupsOf, OpensOf, TableInv, TableTypeOK, Slot
<1> QED
  BY <1>1, <1>2, <1>3

\* The number alloc() hands out counts for nobody, and its slot starts with the
\* link of its name.
LEMMA InsertCounts ==
  ASSUME TableInv, Insert(ROOT)
  PROVE  /\ Allocated \in Inos /\ Allocated \notin DOMAIN map
         /\ LinksOf[Allocated] = 0
         /\ LinksOf' = [LinksOf EXCEPT ![Allocated] = 1]
         /\ UNCHANGED <<LookupsOf, OpensOf>>
         /\ Allocated \in DOMAIN map' /\ map'[Allocated].record = records + 1
<1>0. ROOT \in Nat
  BY DEF ROOT
<1>1. PICK ino, g \in Nat :
        /\ ino \in Inos /\ ino \notin DOMAIN map
        /\ map' = [j \in DOMAIN map \cup {ino} |->
                     IF j = ino THEN NewSlot(records + 1, g, ROOT) ELSE map[j]]
  BY <1>0, InsertAlloc
<1>2. DOMAIN map' = DOMAIN map \cup {Allocated}
  BY DEF Insert, Allocated
<1>3. ino = Allocated
  BY <1>1, <1>2
<1> HIDE DEF Allocated
<1>4. NewSlot(records + 1, g, ROOT) =
        [record |-> records + 1, generation |-> g, links |-> 1, lookups |-> 0,
         opens |-> 0, leases |-> 0, parent |-> ROOT]
  BY DEF NewSlot
<1>5. Allocated \in DOMAIN map' /\ map'[Allocated].record = records + 1
  BY <1>1, <1>3, <1>4
<1>6. map'[Allocated].links = 1 /\ map'[Allocated].lookups = 0 /\ map'[Allocated].opens = 0
  BY <1>1, <1>3, <1>4
<1>7. \A j \in DOMAIN map : map'[j] = map[j]
  BY <1>1, <1>3
<1>8. LinksOf[Allocated] = 0 /\ LinksOf' = [LinksOf EXCEPT ![Allocated] = 1]
  BY <1>1, <1>2, <1>3, <1>6, <1>7 DEF LinksOf
<1>9. LookupsOf' = LookupsOf /\ OpensOf' = OpensOf
  BY <1>1, <1>2, <1>3, <1>6, <1>7 DEF LookupsOf, OpensOf
<1> QED
  BY <1>1, <1>3, <1>5, <1>8, <1>9

LEMMA AddLinkCounts ==
  ASSUME TableInv, NEW i \in Inos, AddLink(i)
  PROVE  /\ LinksOf' = [LinksOf EXCEPT ![i] = @ + 1]
         /\ UNCHANGED <<LookupsOf, OpensOf>>
BY DEF AddLink, LinksOf, LookupsOf, OpensOf, TableInv, TableTypeOK, Slot

LEMMA RetainCounts ==
  ASSUME TableInv, NEW i \in Inos, RetainLookup(i)
  PROVE  /\ LookupsOf' = [LookupsOf EXCEPT ![i] = @ + 1]
         /\ UNCHANGED <<LinksOf, OpensOf>>
BY DEF RetainLookup, LinksOf, LookupsOf, OpensOf, TableInv, TableTypeOK, Slot

LEMMA AddOpenCounts ==
  ASSUME TableInv, NEW i \in Inos, AddOpen(i)
  PROVE  /\ OpensOf' = [OpensOf EXCEPT ![i] = @ + 1]
         /\ UNCHANGED <<LinksOf, LookupsOf>>
BY DEF AddOpen, LinksOf, LookupsOf, OpensOf, TableInv, TableTypeOK, Slot

LEMMA RemoveLinkCounts ==
  ASSUME TableInv, NEW i \in Inos, RemoveLink(i)
  PROVE  /\ LinksOf' = [LinksOf EXCEPT ![i] = Minus(@, 1)]
         /\ UNCHANGED <<LookupsOf, OpensOf>>
<1> DEFINE s == [map[i] EXCEPT !.links = Minus(@, 1)]
<1>1. i \in DOMAIN map /\ map[i] \in Slot
  BY DEF RemoveLink, TableInv, TableTypeOK
<1>2. /\ s \in Slot /\ s.links = Minus(map[i].links, 1)
      /\ s.lookups = map[i].lookups /\ s.opens = map[i].opens
  BY <1>1, MinusNat DEF Slot
<1>3. SetAndMaybeDrop(i, s)
  BY DEF RemoveLink
<1> HIDE DEF s
<1>4. /\ LinksOf' = [LinksOf EXCEPT ![i] = s.links]
      /\ LookupsOf' = [LookupsOf EXCEPT ![i] = s.lookups]
      /\ OpensOf' = [OpensOf EXCEPT ![i] = s.opens]
  BY <1>1, <1>2, <1>3, SetCounts
<1> QED
  BY <1>1, <1>2, <1>4, CountsThere, CountsType

LEMMA RemoveOpenCounts ==
  ASSUME TableInv, NEW i \in Inos, RemoveOpen(i)
  PROVE  /\ OpensOf' = [OpensOf EXCEPT ![i] = Minus(@, 1)]
         /\ UNCHANGED <<LinksOf, LookupsOf>>
<1> DEFINE s == [map[i] EXCEPT !.opens = Minus(@, 1)]
<1>1. i \in DOMAIN map /\ map[i] \in Slot
  BY DEF RemoveOpen, TableInv, TableTypeOK
<1>2. /\ s \in Slot /\ s.opens = Minus(map[i].opens, 1)
      /\ s.lookups = map[i].lookups /\ s.links = map[i].links
  BY <1>1, MinusNat DEF Slot
<1>3. SetAndMaybeDrop(i, s)
  BY DEF RemoveOpen
<1> HIDE DEF s
<1>4. /\ LinksOf' = [LinksOf EXCEPT ![i] = s.links]
      /\ LookupsOf' = [LookupsOf EXCEPT ![i] = s.lookups]
      /\ OpensOf' = [OpensOf EXCEPT ![i] = s.opens]
  BY <1>1, <1>2, <1>3, SetCounts
<1> QED
  BY <1>1, <1>2, <1>4, CountsThere, CountsType

\* A number that is gone has no lookups to forget.
LEMMA ForgetCounts ==
  ASSUME TableInv, NEW i \in Inos, NEW n \in Nat,
         IF i \in DOMAIN map THEN Forget(i, n) ELSE UNCHANGED tableVars
  PROVE  /\ LookupsOf' = [LookupsOf EXCEPT ![i] = Minus(@, n)]
         /\ UNCHANGED <<LinksOf, OpensOf>>
<1>1. CASE i \in DOMAIN map
  <2> DEFINE s == [map[i] EXCEPT !.lookups = Minus(@, n)]
  <2>1. map[i] \in Slot
    BY <1>1 DEF TableInv, TableTypeOK
  <2>2. /\ s \in Slot /\ s.lookups = Minus(map[i].lookups, n)
        /\ s.opens = map[i].opens /\ s.links = map[i].links
    BY <2>1, MinusNat DEF Slot
  <2>3. SetAndMaybeDrop(i, s)
    BY <1>1 DEF Forget
  <2> HIDE DEF s
  <2>4. /\ LinksOf' = [LinksOf EXCEPT ![i] = s.links]
        /\ LookupsOf' = [LookupsOf EXCEPT ![i] = s.lookups]
        /\ OpensOf' = [OpensOf EXCEPT ![i] = s.opens]
    BY <1>1, <2>2, <2>3, SetCounts
  <2> QED
    BY <1>1, <2>2, <2>4, CountsThere, CountsType
<1>2. CASE i \notin DOMAIN map
  BY <1>2 DEF tableVars, LinksOf, LookupsOf, OpensOf, Minus
<1> QED
  BY <1>1, <1>2

-----------------------------------------------------------------------------
(* What the counters keep in the table *)

LEMMA CountedSetsFinite ==
  ASSUME TypeOK, NEW i
  PROVE  /\ IsFiniteSet(NamesFor(i)) /\ IsFiniteSet(FilesOn(i)) /\ IsFiniteSet(Opening(i))
         /\ IsFiniteSet(Waiting)
<1>1. IsFiniteSet(Fh)
  BY RuntimeBoundsNat, FS_Interval DEF Fh
<1>2. FilesOn(i) \in SUBSET Fh
  BY DEF FilesOn, TypeOK
<1>3. NamesFor(i) \in SUBSET Names /\ Opening(i) \in SUBSET Holders /\ Waiting \in SUBSET Holders
  BY DEF NamesFor, Opening, Waiting, Threads
<1> QED
  BY <1>1, <1>2, <1>3, NamesFinite, HoldersFinite, FS_Subset

LEMMA HasMember ==
  ASSUME NEW S, IsFiniteSet(S), NEW x \in S
  PROVE  Cardinality(S) \in Nat /\ Cardinality(S) # 0
BY FS_CardinalityType, FS_EmptySet

LEMMA NamesThere ==
  ASSUME AnyOrderInv, NEW n \in Names, names[n] # 0
  PROVE  names[n] \in Inos /\ names[n] \in DOMAIN map /\ map[names[n]] \in Slot
<1> DEFINE i == names[n]
<1>1. i \in Inos
  BY DEF AnyOrderInv, TypeOK
<1>2. n \in NamesFor(i)
  BY DEF NamesFor
<1>3. Cardinality(NamesFor(i)) \in Nat /\ Cardinality(NamesFor(i)) # 0
  BY <1>2, CountedSetsFinite, HasMember DEF AnyOrderInv
<1>4. LinksOf[i] # 0
  BY <1>1, <1>3 DEF AnyOrderInv, LinksInv
<1>5. i \in DOMAIN map
  BY <1>1, <1>4, CountedIsThere
<1> QED
  BY <1>1, <1>5 DEF AnyOrderInv, TableInv, TableTypeOK

LEMMA FilesThere ==
  ASSUME AnyOrderInv, NEW h \in DOMAIN files
  PROVE  files[h].ino \in Inos /\ files[h].ino \in DOMAIN map /\ files[h].record \in Nat
<1> DEFINE i == files[h].ino
<1>1. i \in Inos /\ files[h].record \in Nat
  BY DEF AnyOrderInv, TypeOK
<1>2. h \in FilesOn(i)
  BY DEF FilesOn
<1>3. /\ Cardinality(FilesOn(i)) \in Nat /\ Cardinality(FilesOn(i)) # 0
      /\ Cardinality(Opening(i)) \in Nat
  BY <1>2, CountedSetsFinite, HasMember, FS_CardinalityType DEF AnyOrderInv
<1>4. OpensOf[i] # 0
  BY <1>1, <1>3 DEF AnyOrderInv, OpensInv
<1> QED
  BY <1>1, <1>4, CountedIsThere

LEMMA OpeningThere ==
  ASSUME AnyOrderInv, NEW t \in Threads, pc[t] \in OpeningPCs
  PROVE  id[t] \in Inos /\ id[t] \in DOMAIN map
<1> DEFINE i == id[t]
<1>1. i \in Inos
  BY DEF AnyOrderInv, ShapeInv, Shape, OpeningPCs
<1>2. t \in Opening(i)
  BY DEF Opening
<1>3. /\ Cardinality(Opening(i)) \in Nat /\ Cardinality(Opening(i)) # 0
      /\ Cardinality(FilesOn(i)) \in Nat
  BY <1>2, CountedSetsFinite, HasMember, FS_CardinalityType DEF AnyOrderInv
<1>4. OpensOf[i] # 0
  BY <1>1, <1>3 DEF AnyOrderInv, OpensInv
<1> QED
  BY <1>1, <1>4, CountedIsThere

-----------------------------------------------------------------------------
(* The steps of a request that touch no counter but the leases: what they  *)
(* change is in the hands of one thread.                                   *)

OnlyThread(t) ==
  /\ pc' = [pc EXCEPT ![t] = pc'[t]]
  /\ op' = [op EXCEPT ![t] = op'[t]]
  /\ id' = [id EXCEPT ![t] = id'[t]]
  /\ want' = [want EXCEPT ![t] = want'[t]]
  /\ gen' = [gen EXCEPT ![t] = gen'[t]]
  /\ fh' = [fh EXCEPT ![t] = fh'[t]]
  /\ buffer' = [buffer EXCEPT ![t] = buffer'[t]]

ThreadTypeOK(t) ==
  /\ pc[t] \in PCs
  /\ op[t] \in Ops
  /\ id[t] \in Inos \cup {0}
  /\ want[t] \in Nat
  /\ gen[t] \in Nat
  /\ fh[t] \in Fh \cup {0}
  /\ buffer[t] \in Seq(Entry)

QuietAction(t) ==
  \/ \E n \in Names : Lookup(t, n) \/ Revalidate(t, n) \/ Emit(t, n)
  \/ \E i \in Inos : Open(t, i) \/ OnNode(t, i) \/ \E h \in Fh : OnFile(t, h, i)
  \/ \E h \in Fh : ReadDirPlus(t, h)
  \/ EntryGet(t) \/ EntryFail(t) \/ EntryDone(t) \/ OpenFail(t)
  \/ LeaseHandle(t) \/ CallbackDone(t) \/ DropNode(t)
  \/ ReleaseNode(t) \/ ReleaseDrained(t)
  \/ PlusEntry(t) \/ PlusFull(t) \/ PlusError(t) \/ PlusPanic(t) \/ PlusOk(t)
  \/ PlusDrop(t) \/ PlusUndone(t) \/ PlusReplyLost(t) \/ ReplyLost(t)
  \/ CountOpen(t) /\ id[t] \notin DOMAIN map

DirAction(t) ==
  \/ \E n \in Names : Mknod(t, n) \/ Create(t, n) \/ Unlink(t, n)
  \/ \E n, m \in Names : Rename(t, n, m)
  \/ \E i \in Inos, n \in Names : Link(t, i, n)

\* Those that change no number of open files.
LocalAction(t) ==
  \/ QuietAction(t) \/ DirAction(t)
  \/ EntryRetain(t) \/ PlusRetain(t) \/ PlusUndo(t)
  \/ PlusReply(t) \/ Reply(t)

\* The handles and the opens of t stay as they are, and it keeps its shape.
QuietLocal(t) ==
  /\ ThreadTypeOK(t)' /\ Shape(t)'
  /\ pc[t] \in OpeningPCs <=> pc'[t] \in OpeningPCs
  /\ pc[t] \in OpeningPCs => id'[t] = id[t]
  /\ Holds(t)' => Holds(t) /\ fh'[t] = fh[t] /\ id'[t] = id[t]
  /\ (op'[t] \in OpenOps /\ fh'[t] = 0) => (op[t] \in OpenOps /\ fh[t] = 0) \/ FhLeft

LEMMA LocalSteps ==
  ASSUME AnyOrderInv, NEW t \in Threads, LocalAction(t)
  PROVE  OnlyThread(t) /\ QuietLocal(t)
<1>1. /\ pc \in [Threads -> PCs] /\ op \in [Threads -> Ops] /\ id \in [Threads -> Inos \cup {0}]
      /\ want \in [Threads -> Nat] /\ gen \in [Threads -> Nat]
      /\ fh \in [Threads -> Fh \cup {0}] /\ buffer \in [Threads -> Seq(Entry)]
      /\ <<>> \in Seq(Entry) /\ 0 \notin Inos
  BY InosFacts DEF AnyOrderInv, TypeOK
<1>2. \A i \in DOMAIN map : i \in Inos /\ map[i].record \in Nat /\ map[i].generation \in Nat
  BY DEF AnyOrderInv, TableInv, TableTypeOK, Slot
<1>3. \A n \in Names : names[n] # 0 => names[n] \in DOMAIN map
  BY NamesThere
<1>4. Shape(t)
  BY DEF AnyOrderInv, ShapeInv
<1>5. pc[t] = "rel_node" => id[t] \in DOMAIN map
  BY OpeningThere DEF OpeningPCs
<1> USE <1>1, <1>2, <1>3, <1>4 DEF Goto, Start, Finish, StartOnNode, requestVars, threadVars,
        OnlyThread, QuietLocal, ThreadTypeOK, Shape, Holds, PCs, Ops, DirWriters, DirReaders,
        EntryOps, OpenOps, OpeningPCs, EntryPCs, ReleasePCs, PlusPCs
<1>6. ASSUME NEW n \in Names, Lookup(t, n) PROVE OnlyThread(t) /\ QuietLocal(t)
  BY <1>6 DEF Lookup
<1>7. ASSUME NEW n \in Names, Revalidate(t, n) PROVE OnlyThread(t) /\ QuietLocal(t)
  BY <1>7 DEF Revalidate
<1>8. ASSUME NEW i \in Inos, Open(t, i) PROVE OnlyThread(t) /\ QuietLocal(t)
  BY <1>8 DEF Open
<1>9. ASSUME NEW i \in Inos, OnNode(t, i) PROVE OnlyThread(t) /\ QuietLocal(t)
  BY <1>9 DEF OnNode
<1>10. ASSUME NEW h \in Fh, NEW i \in Inos, OnFile(t, h, i) PROVE OnlyThread(t) /\ QuietLocal(t)
  BY <1>10 DEF OnFile
<1>11. ASSUME NEW h \in Fh, ReadDirPlus(t, h) PROVE OnlyThread(t) /\ QuietLocal(t)
  BY <1>11 DEF ReadDirPlus
<1>12. CASE EntryGet(t)
  <2>1. CASE id[t] \in DOMAIN map
    BY <1>12, <2>1 DEF EntryGet
  <2>2. CASE id[t] \notin DOMAIN map
    BY <1>12, <2>2 DEF EntryGet
  <2> QED
    BY <2>1, <2>2
<1>13. CASE EntryFail(t)
  BY <1>13 DEF EntryFail
<1>14. CASE EntryDone(t)
  BY <1>14 DEF EntryDone
<1>15. CASE OpenFail(t)
  BY <1>15 DEF OpenFail
<1>16. CASE LeaseHandle(t)
  BY <1>16 DEF LeaseHandle
<1>17. CASE CallbackDone(t)
  BY <1>17 DEF CallbackDone
<1>18. CASE DropNode(t)
  <2>1. CASE op[t] = "open"
    BY <1>18, <2>1 DEF DropNode
  <2>2. CASE op[t] # "open"
    BY <1>18, <2>2 DEF DropNode
  <2> QED
    BY <2>1, <2>2
<1>19. CASE ReleaseNode(t)
  BY <1>5, <1>19 DEF ReleaseNode
<1>20. CASE ReleaseDrained(t)
  BY <1>20 DEF ReleaseDrained
<1>21. ASSUME NEW n \in Names, Emit(t, n) PROVE OnlyThread(t) /\ QuietLocal(t)
  BY <1>21 DEF Emit
<1>22. CASE PlusEntry(t)
  BY <1>22 DEF PlusEntry
<1>23. CASE PlusFull(t)
  BY <1>23 DEF PlusFull
<1>24. CASE PlusError(t)
  BY <1>24 DEF PlusError
<1>25. CASE PlusPanic(t)
  BY <1>25 DEF PlusPanic
<1>26. CASE PlusOk(t)
  BY <1>26 DEF PlusOk
<1>27. CASE PlusDrop(t)
  BY <1>27 DEF PlusDrop
<1>28. CASE PlusUndone(t)
  BY <1>28 DEF PlusUndone
<1>29. CASE PlusReplyLost(t)
  BY <1>29 DEF PlusReplyLost
<1>30. CASE ReplyLost(t)
  BY <1>30 DEF ReplyLost
<1>31. CASE CountOpen(t) /\ id[t] \notin DOMAIN map
  BY <1>31 DEF CountOpen
<1>32. ASSUME NEW n \in Names, Mknod(t, n) PROVE OnlyThread(t) /\ QuietLocal(t)
  <2>1. Allocated \in Inos /\ records + 1 \in Nat
    BY <1>32, InsertCounts DEF Mknod, MakeNode, AnyOrderInv, TableInv, TableTypeOK
  <2> QED
    BY <1>32, <2>1 DEF Mknod, MakeNode
<1>33. ASSUME NEW n \in Names, Create(t, n) PROVE OnlyThread(t) /\ QuietLocal(t)
  <2>1. Allocated \in Inos /\ records + 1 \in Nat
    BY <1>33, InsertCounts DEF Create, MakeNode, AnyOrderInv, TableInv, TableTypeOK
  <2> QED
    BY <1>33, <2>1 DEF Create, MakeNode
<1>34. ASSUME NEW n \in Names, Unlink(t, n) PROVE OnlyThread(t) /\ QuietLocal(t)
  BY <1>34 DEF Unlink
<1>35. ASSUME NEW n \in Names, NEW m \in Names, Rename(t, n, m) PROVE OnlyThread(t) /\ QuietLocal(t)
  BY <1>35 DEF Rename
<1>36. ASSUME NEW i \in Inos, NEW n \in Names, Link(t, i, n) PROVE OnlyThread(t) /\ QuietLocal(t)
  <2>1. kident[i].record \in Nat
    BY DEF AnyOrderInv, TypeOK
  <2> QED
    BY <1>36, <2>1 DEF Link
<1>37. CASE EntryRetain(t)
  BY <1>37 DEF EntryRetain, RetainLookup
<1>38. CASE PlusRetain(t)
  <2> DEFINE e == [ino |-> id[t], gen |-> gen[t], record |-> want[t],
                   retained |-> id[t] \in DOMAIN map]
  <2>1. e \in Entry
    <3>1. id[t] \in Inos /\ gen[t] \in Nat /\ want[t] \in Nat
      BY <1>38 DEF PlusRetain
    <3>2. (id[t] \in DOMAIN map) \in BOOLEAN
      OBVIOUS
    <3> QED
      BY <3>1, <3>2, Zenon DEF Entry
  <2> HIDE DEF e
  <2>2. Append(buffer[t], e) \in Seq(Entry)
    BY <2>1, AppendProperties
  <2>3. buffer' = [buffer EXCEPT ![t] = Append(buffer[t], e)]
    BY <1>38 DEF PlusRetain, e
  <2> QED
    BY <1>38, <2>2, <2>3 DEF PlusRetain
<1>39. CASE PlusUndo(t)
  <2>1. Tail(buffer[t]) \in Seq(Entry)
    BY <1>39, HeadTailProperties DEF PlusUndo
  <2> QED
    BY <1>39, <2>1 DEF PlusUndo
<1>40. CASE PlusReply(t)
  BY <1>40 DEF PlusReply
<1>41. CASE Reply(t)
  BY <1>41 DEF Reply
<1> QED
  BY <1>6, <1>7, <1>8, <1>9, <1>10, <1>11, <1>12, <1>13, <1>14, <1>15, <1>16, <1>17,
     <1>18, <1>19, <1>20, <1>21, <1>22, <1>23, <1>24, <1>25, <1>26, <1>27, <1>28, <1>29,
     <1>30, <1>31, <1>32, <1>33, <1>34, <1>35, <1>36, <1>37, <1>38, <1>39, <1>40, <1>41
     DEF LocalAction, DirAction, QuietAction

\* A set of places in a buffer has a last one.
LEMMA LastExists ==
  ASSUME NEW n \in Nat, NEW S \in SUBSET (1..n), S # {}
  PROVE  \E a \in S : \A b \in S : b <= a
<1> DEFINE T == {m \in Nat : \E a \in S : m = n - a}
           R == OpToRel(<, Nat)
<1>1. T \subseteq Nat /\ T # {}
  <2>1. PICK a : a \in S
    OBVIOUS
  <2>2. n - a \in T
    BY <2>1
  <2> QED
    BY <2>2
<1>2. IsWellFoundedOn(R, Nat)
  BY NatLessThanWellFounded
<1>3. R = {ss \in Nat \X Nat : ss[1] < ss[2]}
  BY DEF OpToRel
<1> HIDE DEF R
<1>4. PICK m \in T : \A k \in T : ~(<<k, m>> \in R)
  BY <1>1, <1>2, WFMin
<1>5. \A k \in T : ~(k < m)
  BY <1>1, <1>3, <1>4
<1>6. PICK a \in S : m = n - a
  OBVIOUS
<1>7. \A b \in S : n - b \in T
  OBVIOUS
<1> QED
  BY <1>5, <1>6, <1>7

LEMMA LastForType ==
  ASSUME TypeOK, NEW t \in Threads, NEW i
  PROVE  /\ IsFiniteSet(EntriesFor(t, i)) /\ Cardinality(EntriesFor(t, i)) \in Nat
         /\ EntriesFor(t, i) # {} =>
              \E a \in EntriesFor(t, i) :
                LastFor(t, i) = [gen |-> buffer[t][a].gen, record |-> buffer[t][a].record]
<1>1. Len(buffer[t]) \in Nat
  BY DEF TypeOK
<1>2. EntriesFor(t, i) \in SUBSET (1..Len(buffer[t]))
  BY DEF EntriesFor
<1>3. IsFiniteSet(1..Len(buffer[t]))
  BY <1>1, FS_Interval
<1>4. IsFiniteSet(EntriesFor(t, i))
  BY <1>2, <1>3, FS_Subset
<1>5. ASSUME EntriesFor(t, i) # {}
      PROVE  \E a \in EntriesFor(t, i) :
               LastFor(t, i) = [gen |-> buffer[t][a].gen, record |-> buffer[t][a].record]
  <2> DEFINE a == CHOOSE a \in EntriesFor(t, i) : \A b \in EntriesFor(t, i) : b <= a
  <2>1. \E b \in EntriesFor(t, i) : \A c \in EntriesFor(t, i) : c <= b
    BY <1>1, <1>2, <1>5, LastExists
  <2>2. a \in EntriesFor(t, i)
    BY <2>1
  <2>3. LastFor(t, i) = [gen |-> buffer[t][a].gen, record |-> buffer[t][a].record]
    BY DEF LastFor
  <2> HIDE DEF a
  <2> QED
    BY <2>2, <2>3
<1> QED
  BY <1>4, <1>5, FS_CardinalityType

LEMMA QuietFrame ==
  ASSUME AnyOrderInv, NEW t \in Threads, QuietAction(t)
  PROVE  /\ UNCHANGED <<names, files, next_fh, klookup, kident, kopen>>
         /\ UNCHANGED tableVars \/ DropRef(t) \/ \E i \in Inos : Get(t, i)
<1>1. UNCHANGED <<names, files, next_fh, klookup, kident, kopen>>
  BY DEF QuietAction, Lookup, Revalidate, Emit, Open, OnNode, OnFile, ReadDirPlus, StartOnNode,
     EntryGet, EntryFail, EntryDone, OpenFail, LeaseHandle, CallbackDone, DropNode,
     ReleaseNode, ReleaseDrained, PlusEntry, PlusFull, PlusError, PlusPanic, PlusOk,
     PlusDrop, PlusUndone, PlusReplyLost, ReplyLost, CountOpen, fsVars, handleVars, kernelVars
<1>2. DOMAIN map \subseteq Inos
  BY DEF AnyOrderInv, TableInv, TableTypeOK
<1>3. UNCHANGED tableVars \/ DropRef(t) \/ \E i \in DOMAIN map : Get(t, i)
  BY DEF QuietAction, Lookup, Revalidate, Emit, Open, OnNode, OnFile, ReadDirPlus, StartOnNode,
     EntryGet, EntryFail, EntryDone, OpenFail, LeaseHandle, CallbackDone, DropNode,
     ReleaseNode, ReleaseDrained, PlusEntry, PlusFull, PlusError, PlusPanic, PlusOk,
     PlusDrop, PlusUndone, PlusReplyLost, ReplyLost, CountOpen
<1> QED
  BY <1>1, <1>2, <1>3

\* The step of a request is one operation on the table, which counts what the
\* request does.
LEMMA LocalOperation ==
  ASSUME AnyOrderInv, NEW t \in Threads, LocalAction(t)
  PROVE  /\ Operation
         /\ UNCHANGED <<OpensOf, files, next_fh>>
         /\ ~DirAction(t) => UNCHANGED <<LinksOf, names>>
<1>0. TableInv /\ t \in Holders /\ DOMAIN map \subseteq Inos
  BY DEF AnyOrderInv, Threads, TableInv, TableTypeOK
<1>1. CASE QuietAction(t)
  BY <1>0, <1>1, QuietFrame, QuietCounts DEF Operation
<1>2. ASSUME NEW n \in Names, Mknod(t, n) \/ Create(t, n)
      PROVE  Operation /\ UNCHANGED <<OpensOf, files, next_fh>>
  <2>1. Insert(ROOT) /\ UNCHANGED <<files, next_fh>>
    BY <1>2 DEF Mknod, Create, MakeNode, handleVars
  <2>2. ROOT \in Nat
    BY DEF ROOT
  <2> QED
    BY <1>0, <2>1, <2>2, InsertCounts DEF Operation
<1>3. ASSUME NEW n \in Names, Unlink(t, n)
      PROVE  Operation /\ UNCHANGED <<OpensOf, files, next_fh>>
  <2>1. RemoveLink(names[n]) /\ UNCHANGED <<files, next_fh>> /\ names[n] \in Inos
    BY <1>0, <1>3 DEF Unlink, RemoveLink, handleVars
  <2> QED
    BY <1>0, <2>1, RemoveLinkCounts DEF Operation, Counting
<1>4. ASSUME NEW n \in Names, NEW m \in Names, Rename(t, n, m)
      PROVE  Operation /\ UNCHANGED <<OpensOf, files, next_fh>>
  <2>1. UNCHANGED <<files, next_fh>>
    BY <1>4 DEF Rename, handleVars
  <2>2. CASE names[m] = 0
    <3>1. UNCHANGED tableVars
      BY <1>4, <2>2 DEF Rename
    <3> QED
      BY <1>0, <2>1, <3>1, QuietCounts DEF Operation
  <2>3. CASE names[m] # 0
    <3>1. RemoveLink(names[m]) /\ names[m] \in Inos
      BY <1>0, <1>4, <2>3 DEF Rename, RemoveLink
    <3> QED
      BY <1>0, <2>1, <3>1, RemoveLinkCounts DEF Operation, Counting
  <2> QED
    BY <2>2, <2>3
<1>5. ASSUME NEW i \in Inos, NEW n \in Names, Link(t, i, n)
      PROVE  Operation /\ UNCHANGED <<OpensOf, files, next_fh>>
  <2>1. AddLink(i) /\ UNCHANGED <<files, next_fh>>
    BY <1>5 DEF Link, handleVars
  <2> QED
    BY <1>0, <2>1, AddLinkCounts DEF Operation, Counting
<1>6. CASE EntryRetain(t)
  <2>1. RetainLookup(id[t]) /\ id[t] \in Inos /\ UNCHANGED <<files, next_fh, names>>
    BY <1>0, <1>6 DEF EntryRetain, RetainLookup, handleVars, fsVars
  <2> QED
    BY <1>0, <2>1, RetainCounts DEF Operation, Counting
<1>7. CASE PlusRetain(t)
  <2>1. UNCHANGED <<files, next_fh, names>>
    BY <1>7 DEF PlusRetain, handleVars, fsVars
  <2>2. CASE id[t] \in DOMAIN map
    <3>1. RetainLookup(id[t]) /\ id[t] \in Inos
      BY <1>0, <1>7, <2>2 DEF PlusRetain
    <3> QED
      BY <1>0, <2>1, <3>1, RetainCounts DEF Operation, Counting
  <2>3. CASE id[t] \notin DOMAIN map
    <3>1. UNCHANGED tableVars
      BY <1>7, <2>3 DEF PlusRetain
    <3> QED
      BY <1>0, <2>1, <3>1, QuietCounts DEF Operation
  <2> QED
    BY <2>2, <2>3
<1>8. CASE PlusUndo(t)
  <2> DEFINE e == Head(buffer[t])
  <2>1. UNCHANGED <<files, next_fh, names>>
    BY <1>8 DEF PlusUndo, handleVars, fsVars
  <2>2. CASE e.retained /\ e.ino \in DOMAIN map
    <3>1. Forget(e.ino, 1) /\ e.ino \in Inos
      BY <1>0, <1>8, <2>2 DEF PlusUndo
    <3> QED
      BY <1>0, <2>1, <2>2, <3>1, ForgetCounts DEF Operation, Counting
  <2>3. CASE ~(e.retained /\ e.ino \in DOMAIN map)
    <3>1. UNCHANGED tableVars
      BY <1>8, <2>3 DEF PlusUndo
    <3> QED
      BY <1>0, <2>1, <3>1, QuietCounts DEF Operation
  <2> QED
    BY <2>2, <2>3
<1>9. CASE PlusReply(t) \/ Reply(t)
  <2>1. UNCHANGED tableVars /\ UNCHANGED <<files, next_fh, names>>
    BY <1>9 DEF PlusReply, Reply, handleVars, fsVars
  <2> QED
    BY <1>0, <2>1, QuietCounts DEF Operation
<1> QED
  BY <1>1, <1>2, <1>3, <1>4, <1>5, <1>6, <1>7, <1>8, <1>9 DEF LocalAction, DirAction

-----------------------------------------------------------------------------
(* The steps that change no number of open files keep the invariant *)

\* The other threads stay where they are.
LEMMA OneThread ==
  ASSUME AnyOrderInv, NEW t \in Threads, OnlyThread(t), ThreadTypeOK(t)', Shape(t)'
  PROVE  /\ pc' \in [Threads -> PCs]
         /\ op' \in [Threads -> Ops]
         /\ id' \in [Threads -> Inos \cup {0}]
         /\ want' \in [Threads -> Nat]
         /\ gen' \in [Threads -> Nat]
         /\ fh' \in [Threads -> Fh \cup {0}]
         /\ buffer' \in [Threads -> Seq(Entry)]
         /\ \A u \in Threads \ {t} :
              /\ pc'[u] = pc[u] /\ op'[u] = op[u] /\ id'[u] = id[u] /\ want'[u] = want[u]
              /\ gen'[u] = gen[u] /\ fh'[u] = fh[u] /\ buffer'[u] = buffer[u]
         /\ ShapeInv'
<1>1. /\ pc \in [Threads -> PCs] /\ op \in [Threads -> Ops] /\ id \in [Threads -> Inos \cup {0}]
      /\ want \in [Threads -> Nat] /\ gen \in [Threads -> Nat]
      /\ fh \in [Threads -> Fh \cup {0}] /\ buffer \in [Threads -> Seq(Entry)]
  BY DEF AnyOrderInv, TypeOK
<1>2. \A u \in Threads \ {t} :
        /\ pc'[u] = pc[u] /\ op'[u] = op[u] /\ id'[u] = id[u] /\ want'[u] = want[u]
        /\ gen'[u] = gen[u] /\ fh'[u] = fh[u] /\ buffer'[u] = buffer[u]
  BY <1>1 DEF OnlyThread
<1>3. /\ pc' \in [Threads -> PCs] /\ op' \in [Threads -> Ops] /\ id' \in [Threads -> Inos \cup {0}]
      /\ want' \in [Threads -> Nat] /\ gen' \in [Threads -> Nat]
      /\ fh' \in [Threads -> Fh \cup {0}] /\ buffer' \in [Threads -> Seq(Entry)]
  BY <1>1 DEF OnlyThread, ThreadTypeOK
<1>4. \A u \in Threads \ {t} : Shape(u) => Shape(u)'
  BY <1>2 DEF Shape
<1>5. ShapeInv'
  BY <1>4 DEF AnyOrderInv, ShapeInv
<1> QED
  BY <1>2, <1>3, <1>5

\* No step hands out more handles than there are: a request that will take one
\* has found one left.
LEMMA BoundKept ==
  ASSUME AnyOrderInv, NEW t \in Threads, next_fh' = next_fh,
         Waiting' \subseteq Waiting \/ (FhLeft /\ Waiting' \subseteq Waiting \cup {t})
  PROVE  HandleBound'
<1>1. IsFiniteSet(Waiting) /\ Cardinality(Waiting) \in Nat
  BY CountedSetsFinite, FS_CardinalityType DEF AnyOrderInv
<1>2. next_fh \in Nat /\ MaxFh \in Nat
  BY RuntimeBoundsNat DEF AnyOrderInv, TypeOK
<1>3. CASE Waiting' \subseteq Waiting
  <2>1. Cardinality(Waiting') <= Cardinality(Waiting) /\ Cardinality(Waiting') \in Nat
    BY <1>1, <1>3, FS_Subset, FS_CardinalityType
  <2> QED
    BY <1>1, <1>2, <2>1 DEF AnyOrderInv, HandleBound
<1>4. CASE FhLeft /\ Waiting' \subseteq Waiting \cup {t}
  <2>1. /\ IsFiniteSet(Waiting \cup {t}) /\ Cardinality(Waiting \cup {t}) \in Nat
        /\ Cardinality(Waiting \cup {t}) <= Cardinality(Waiting) + 1
    <3>1. /\ IsFiniteSet(Waiting \cup {t})
          /\ Cardinality(Waiting \cup {t}) =
               IF t \in Waiting THEN Cardinality(Waiting) ELSE Cardinality(Waiting) + 1
      BY <1>1, FS_AddElement
    <3> QED
      BY <1>1, <3>1
  <2>2. Cardinality(Waiting') <= Cardinality(Waiting \cup {t}) /\ Cardinality(Waiting') \in Nat
    BY <2>1, <1>4, FS_Subset, FS_CardinalityType
  <2>3. next_fh + Cardinality(Waiting) <= MaxFh
    BY <1>4 DEF FhLeft, Waiting, OpenOps
  <2> QED
    BY <1>1, <1>2, <2>1, <2>2, <2>3 DEF HandleBound
<1> QED
  BY <1>3, <1>4

\* What the names count: a name is made, moved or removed together with its link.
LEMMA DirLinks ==
  ASSUME AnyOrderInv, NEW t \in Threads, DirAction(t)
  PROVE  LinksInv' /\ names' \in [Names -> Inos \cup {0}]
<1>0. /\ TableInv /\ names \in [Names -> Inos \cup {0}] /\ LinksInv /\ LinksOf \in [Inos -> Nat]
      /\ 0 \notin Inos
  BY CountsType, InosFacts DEF AnyOrderInv, TypeOK
<1>1. \A i : IsFiniteSet(NamesFor(i)) /\ Cardinality(NamesFor(i)) \in Nat
  BY CountedSetsFinite, FS_CardinalityType DEF AnyOrderInv
<1>2. ASSUME NEW n \in Names, NEW i \in Inos, names[n] = 0,
             names' = [names EXCEPT ![n] = i], LinksOf' = [LinksOf EXCEPT ![i] = @ + 1]
      PROVE  LinksInv' /\ names' \in [Names -> Inos \cup {0}]
  <2>1. NamesFor(i)' = NamesFor(i) \cup {n} /\ n \notin NamesFor(i)
    BY <1>0, <1>2 DEF NamesFor
  <2>2. Cardinality(NamesFor(i)') = Cardinality(NamesFor(i)) + 1
    BY <1>1, <2>1, FS_AddElement
  <2>3. \A j \in Inos \ {i} : NamesFor(j)' = NamesFor(j)
    BY <1>0, <1>2 DEF NamesFor
  <2>4. ASSUME NEW j \in Inos
        PROVE  LinksOf'[j] = Cardinality(NamesFor(j)') + (IF j = ROOT THEN 1 ELSE 0)
    <3>1. LinksOf[j] = Cardinality(NamesFor(j)) + (IF j = ROOT THEN 1 ELSE 0)
      BY <1>0 DEF LinksInv
    <3>2. CASE j = i
      BY <1>0, <1>1, <1>2, <2>2, <3>1, <3>2
    <3>3. CASE j # i
      BY <1>0, <1>2, <2>3, <3>1, <3>3
    <3> QED
      BY <3>2, <3>3
  <2> QED
    BY <1>0, <1>2, <2>4 DEF LinksInv
<1>3. ASSUME NEW n \in Names, Mknod(t, n) \/ Create(t, n)
      PROVE  LinksInv' /\ names' \in [Names -> Inos \cup {0}]
  <2>1. /\ Insert(ROOT) /\ names[n] = 0
        /\ names' = [names EXCEPT ![n] = Allocated]
    BY <1>3 DEF Mknod, Create, MakeNode
  <2>2. /\ Allocated \in Inos
        /\ LinksOf[Allocated] = 0
        /\ LinksOf' = [LinksOf EXCEPT ![Allocated] = 1]
    BY <1>0, <2>1, InsertCounts
  <2> HIDE DEF Allocated
  <2>3. LinksOf' = [LinksOf EXCEPT ![Allocated] = @ + 1]
    BY <1>0, <2>2
  <2> QED
    BY <1>2, <2>1, <2>2, <2>3
<1>4. ASSUME NEW i \in Inos, NEW n \in Names, Link(t, i, n)
      PROVE  LinksInv' /\ names' \in [Names -> Inos \cup {0}]
  <2>1. AddLink(i) /\ names[n] = 0 /\ names' = [names EXCEPT ![n] = i]
    BY <1>4 DEF Link
  <2>2. LinksOf' = [LinksOf EXCEPT ![i] = @ + 1]
    BY <1>0, <2>1, AddLinkCounts
  <2> QED
    BY <1>2, <2>1, <2>2
<1>5. ASSUME NEW n \in Names, Unlink(t, n)
      PROVE  LinksInv' /\ names' \in [Names -> Inos \cup {0}]
  <2>0. PICK i \in Inos : i = names[n]
    BY <1>0, <1>5 DEF Unlink
  <2>1. RemoveLink(i) /\ names' = [names EXCEPT ![n] = 0]
    BY <1>5, <2>0 DEF Unlink
  <2>2. LinksOf' = [LinksOf EXCEPT ![i] = Minus(@, 1)]
    BY <1>0, <2>1, RemoveLinkCounts
  <2>3. NamesFor(i)' = NamesFor(i) \ {n} /\ n \in NamesFor(i)
    BY <1>0, <2>0, <2>1 DEF NamesFor
  <2>4. Cardinality(NamesFor(i)') = Cardinality(NamesFor(i)) - 1
    BY <1>1, <2>3, FS_RemoveElement
  <2>5. \A j \in Inos \ {i} : NamesFor(j)' = NamesFor(j)
    BY <1>0, <2>0, <2>1 DEF NamesFor
  <2>6. Cardinality(NamesFor(i)) # 0
    BY <1>1, <2>3, HasMember
  <2>7. ASSUME NEW j \in Inos
        PROVE  LinksOf'[j] = Cardinality(NamesFor(j)') + (IF j = ROOT THEN 1 ELSE 0)
    <3>1. LinksOf[j] = Cardinality(NamesFor(j)) + (IF j = ROOT THEN 1 ELSE 0)
      BY <1>0 DEF LinksInv
    <3>2. CASE j = i
      BY <1>0, <1>1, <2>2, <2>4, <2>6, <3>1, <3>2 DEF Minus
    <3>3. CASE j # i
      BY <1>0, <2>2, <2>5, <3>1, <3>3
    <3> QED
      BY <3>2, <3>3
  <2> QED
    BY <1>0, <2>1, <2>7 DEF LinksInv
<1>6. ASSUME NEW n \in Names, NEW m \in Names, Rename(t, n, m)
      PROVE  LinksInv' /\ names' \in [Names -> Inos \cup {0}]
  <2>0. PICK i \in Inos : i = names[n]
    BY <1>0, <1>6 DEF Rename
  <2>1. /\ names' = [names EXCEPT ![m] = i, ![n] = 0] /\ n # m /\ names[m] # i
        /\ names' \in [Names -> Inos \cup {0}]
    BY <1>0, <1>6, <2>0 DEF Rename
  <2>2. NamesFor(i)' = (NamesFor(i) \ {n}) \cup {m} /\ n \in NamesFor(i) /\ m \notin NamesFor(i)
    BY <1>0, <2>0, <2>1 DEF NamesFor
  <2>3. Cardinality(NamesFor(i)') = Cardinality(NamesFor(i))
    <3>1. /\ Cardinality(NamesFor(i) \ {n}) = Cardinality(NamesFor(i)) - 1
          /\ IsFiniteSet(NamesFor(i) \ {n}) /\ m \notin NamesFor(i) \ {n}
      BY <1>1, <2>2, FS_RemoveElement
    <3>2. Cardinality((NamesFor(i) \ {n}) \cup {m}) = Cardinality(NamesFor(i) \ {n}) + 1
      BY <3>1, FS_AddElement
    <3> QED
      BY <1>1, <2>2, <3>1, <3>2
  <2>4. \A j \in Inos \ {i} : NamesFor(j)' = NamesFor(j) \ {m}
    BY <1>0, <2>0, <2>1 DEF NamesFor
  <2>5. CASE names[m] = 0
    <3>1. LinksOf' = LinksOf
      BY <1>6, <2>5 DEF Rename, tableVars, LinksOf
    <3>2. \A j \in Inos \ {i} : NamesFor(j)' = NamesFor(j)
      BY <1>0, <2>4, <2>5 DEF NamesFor
    <3> QED
      BY <1>0, <2>1, <2>3, <3>1, <3>2 DEF LinksInv
  <2>6. CASE names[m] # 0
    <3>0. PICK k \in Inos : k = names[m]
      BY <1>0, <2>6
    <3>1. RemoveLink(k) /\ k # i
      BY <1>6, <2>0, <2>1, <2>6, <3>0 DEF Rename
    <3>2. LinksOf' = [LinksOf EXCEPT ![k] = Minus(@, 1)]
      BY <1>0, <3>1, RemoveLinkCounts
    <3>3. m \in NamesFor(k) /\ NamesFor(k)' = NamesFor(k) \ {m}
      BY <2>4, <3>0, <3>1 DEF NamesFor
    <3>4. Cardinality(NamesFor(k)') = Cardinality(NamesFor(k)) - 1
      BY <1>1, <3>3, FS_RemoveElement
    <3>5. Cardinality(NamesFor(k)) # 0
      BY <1>1, <3>3, HasMember
    <3>6. \A j \in Inos \ {i, k} : NamesFor(j)' = NamesFor(j)
      BY <1>0, <2>4, <3>0 DEF NamesFor
    <3>7. ASSUME NEW j \in Inos
          PROVE  LinksOf'[j] = Cardinality(NamesFor(j)') + (IF j = ROOT THEN 1 ELSE 0)
      <4>1. LinksOf[j] = Cardinality(NamesFor(j)) + (IF j = ROOT THEN 1 ELSE 0)
        BY <1>0 DEF LinksInv
      <4>2. CASE j = k
        BY <1>0, <1>1, <3>2, <3>4, <3>5, <4>1, <4>2 DEF Minus
      <4>3. CASE j = i
        BY <1>0, <2>3, <3>1, <3>2, <4>1, <4>3
      <4>4. CASE j # k /\ j # i
        BY <1>0, <3>2, <3>6, <4>1, <4>4
      <4> QED
        BY <4>2, <4>3, <4>4
    <3> QED
      BY <2>1, <3>7 DEF LinksInv
  <2> QED
    BY <2>5, <2>6
<1> QED
  BY <1>3, <1>4, <1>5, <1>6 DEF DirAction

\* What the kernel is told has its type.
LEMMA KernelTypes ==
  ASSUME AnyOrderInv, NEW t \in Threads, LocalAction(t)
  PROVE  /\ klookup' \in [Inos -> Nat]
         /\ kident' \in [Inos -> [gen : Nat, record : Nat]]
         /\ kopen' \subseteq Fh \X Inos
         /\ ~Reply(t) => kopen' = kopen
<1>0. /\ klookup \in [Inos -> Nat] /\ kident \in [Inos -> [gen : Nat, record : Nat]]
      /\ kopen \subseteq Fh \X Inos /\ want[t] \in Nat /\ gen[t] \in Nat
  BY DEF AnyOrderInv, TypeOK
<1>1. CASE PlusReply(t)
  <2>1. \A i \in Inos : Cardinality(EntriesFor(t, i)) \in Nat
    BY LastForType DEF AnyOrderInv
  <2>2. \A i \in Inos : EntriesFor(t, i) # {} => LastFor(t, i) \in [gen : Nat, record : Nat]
    <3> SUFFICES ASSUME NEW i \in Inos, EntriesFor(t, i) # {}
                 PROVE  LastFor(t, i) \in [gen : Nat, record : Nat]
      OBVIOUS
    <3>1. PICK a \in EntriesFor(t, i) :
            LastFor(t, i) = [gen |-> buffer[t][a].gen, record |-> buffer[t][a].record]
      BY LastForType DEF AnyOrderInv
    <3>2. buffer[t] \in Seq(Entry) /\ a \in 1..Len(buffer[t])
      BY DEF AnyOrderInv, TypeOK, EntriesFor
    <3>3. buffer[t][a] \in Entry
      BY <3>2
    <3> QED
      BY <3>1, <3>3 DEF Entry
  <2> QED
    BY <1>0, <1>1, <2>1, <2>2 DEF PlusReply
<1>2. CASE Reply(t)
  <2>1. klookup' \in [Inos -> Nat] /\ kident' \in [Inos -> [gen : Nat, record : Nat]]
    BY <1>0, <1>2 DEF Reply
  <2>2. op[t] \in OpenOps => fh[t] \in Fh /\ id[t] \in Inos
    <3>1. pc[t] = "reply"
      BY <1>2 DEF Reply
    <3> QED
      BY <3>1 DEF AnyOrderInv, ShapeInv, Shape, OpenOps, TypeOK
  <2> QED
    BY <1>0, <1>2, <2>1, <2>2 DEF Reply, OpenOps
<1>3. CASE QuietAction(t)
  BY <1>0, <1>3, QuietFrame
<1>4. CASE DirAction(t) \/ EntryRetain(t) \/ PlusRetain(t) \/ PlusUndo(t)
  BY <1>0, <1>4 DEF DirAction, Mknod, Create, MakeNode, Link, Unlink, Rename, EntryRetain,
     PlusRetain, PlusUndo, kernelVars
<1> QED
  BY <1>1, <1>2, <1>3, <1>4 DEF LocalAction

LEMMA LocalInv ==
  ASSUME AnyOrderInv, NEW t \in Threads, LocalAction(t), UNCHANGED faults
  PROVE  AnyOrderInv'
<1>1. /\ Operation /\ UNCHANGED <<OpensOf, files, next_fh>>
      /\ ~DirAction(t) => UNCHANGED <<LinksOf, names>>
  BY LocalOperation
<1>2. OnlyThread(t) /\ QuietLocal(t)
  BY LocalSteps
<1>3. /\ pc' \in [Threads -> PCs]
      /\ op' \in [Threads -> Ops]
      /\ id' \in [Threads -> Inos \cup {0}]
      /\ want' \in [Threads -> Nat]
      /\ gen' \in [Threads -> Nat]
      /\ fh' \in [Threads -> Fh \cup {0}]
      /\ buffer' \in [Threads -> Seq(Entry)]
      /\ \A u \in Threads \ {t} :
           /\ pc'[u] = pc[u] /\ op'[u] = op[u] /\ id'[u] = id[u] /\ want'[u] = want[u]
           /\ gen'[u] = gen[u] /\ fh'[u] = fh[u] /\ buffer'[u] = buffer[u]
      /\ ShapeInv'
  BY <1>2, OneThread DEF QuietLocal
<1>4. TableInv'
  BY <1>1, OperationInv DEF AnyOrderInv
<1>5. LinksInv' /\ names' \in [Names -> Inos \cup {0}]
  <2>1. CASE DirAction(t)
    BY <2>1, DirLinks
  <2>2. CASE ~DirAction(t)
    <3>1. \A i : NamesFor(i)' = NamesFor(i)
      BY <1>1, <2>2 DEF NamesFor
    <3>2. LinksOf' = LinksOf /\ names' = names
      BY <1>1, <2>2
    <3> QED
      BY <3>1, <3>2 DEF AnyOrderInv, LinksInv, TypeOK
  <2> QED
    BY <2>1, <2>2
<1>6. /\ klookup' \in [Inos -> Nat]
      /\ kident' \in [Inos -> [gen : Nat, record : Nat]]
      /\ kopen' \subseteq Fh \X Inos
      /\ ~Reply(t) => kopen' = kopen
  BY KernelTypes
<1>7. TypeOK'
  <2>1. TableTypeOK'
    BY <1>4 DEF TableInv
  <2> QED
    BY <1>1, <1>3, <1>5, <1>6, <2>1 DEF AnyOrderInv, TypeOK
<1>8. OpensInv'
  <2>1. \A i : Opening(i)' = Opening(i)
    BY <1>2, <1>3 DEF QuietLocal, Opening
  <2>2. \A i : FilesOn(i)' = FilesOn(i)
    BY <1>1 DEF FilesOn
  <2> QED
    BY <1>1, <2>1, <2>2 DEF AnyOrderInv, OpensInv
<1>9. HandleInv'
  <2>1. \A u \in Threads : Holds(u)' => Holds(u) /\ fh'[u] = fh[u] /\ id'[u] = id[u]
    BY <1>2, <1>3 DEF QuietLocal, Holds
  <2>2. CASE ~Reply(t)
    BY <1>1, <1>6, <2>1, <2>2 DEF AnyOrderInv, HandleInv
  <2>3. CASE Reply(t) /\ op[t] \in OpenOps
    <3>1. kopen' = kopen \cup {<<fh[t], id[t]>>}
      BY <2>3 DEF Reply, OpenOps
    <3>2. Holds(t)
      BY <2>3 DEF AnyOrderInv, ShapeInv, Shape, Holds, Reply
    <3>3. ~Holds(t)'
      BY <2>3 DEF AnyOrderInv, TypeOK, Holds, Reply, Finish, OpenOps
    <3>4. \A u \in Threads : Holds(u)' => fh'[u] # fh[t]
      BY <2>1, <3>2, <3>3 DEF AnyOrderInv, HandleInv
    <3>5. \A k \in kopen' : k \in kopen \/ (k[1] = fh[t] /\ k[2] = id[t])
      BY <3>1
    <3> QED
      BY <1>1, <2>1, <3>2, <3>4, <3>5 DEF AnyOrderInv, HandleInv
  <2>4. CASE Reply(t) /\ op[t] \notin OpenOps
    <3>1. kopen' = kopen
      BY <2>4 DEF Reply, OpenOps
    <3> QED
      BY <1>1, <2>1, <3>1 DEF AnyOrderInv, HandleInv
  <2> QED
    BY <2>2, <2>3, <2>4
<1>10. HandleBound'
  <2>1. Waiting' \subseteq Waiting \/ (FhLeft /\ Waiting' \subseteq Waiting \cup {t})
    BY <1>2, <1>3 DEF QuietLocal, Waiting
  <2> QED
    BY <1>1, <2>1, BoundKept
<1> QED
  BY <1>3, <1>4, <1>5, <1>7, <1>8, <1>9, <1>10 DEF AnyOrderInv

-----------------------------------------------------------------------------
(* The steps that change the number of open files, and the kernel's forget *)

OpenAction(t) ==
  \/ CountOpen(t) /\ id[t] \in DOMAIN map
  \/ AddFile(t) \/ ReleaseCount(t)
  \/ \E h \in Fh, i \in Inos : Release(t, h, i)

\* release() finds the handle it was given.
LEMMA ReleaseFinds ==
  ASSUME AnyOrderInv, NEW t \in Threads, NEW h \in Fh, NEW i \in Inos, Release(t, h, i)
  PROVE  /\ h \in DOMAIN files /\ files[h].ino = i /\ files[h].record \in Nat
         /\ files' = [g \in DOMAIN files \ {h} |-> files[g]]
         /\ Start(t, "release", i, files[h].record, h, "rel_node")
<1>1. h \in DOMAIN files /\ files[h].ino = i
  BY DEF Release, AnyOrderInv, HandleInv
<1> QED
  BY <1>1, FilesThere DEF Release, Restrict

\* A request that adds a file has a handle left to take.
LEMMA AddFileHandle ==
  ASSUME AnyOrderInv, NEW t \in Threads, AddFile(t)
  PROVE  next_fh \in Fh /\ next_fh + 1 \in 1..(MaxFh + 1) /\ t \in Waiting
<1>1. t \in Waiting
  BY DEF AddFile, AnyOrderInv, ShapeInv, Shape, Waiting
<1>2. Cardinality(Waiting) \in Nat /\ Cardinality(Waiting) # 0
  BY <1>1, CountedSetsFinite, HasMember DEF AnyOrderInv
<1> QED
  BY <1>1, <1>2, RuntimeBoundsNat DEF AnyOrderInv, HandleBound, TypeOK, Fh

LEMMA OpenLocally ==
  ASSUME AnyOrderInv, NEW t \in Threads, OpenAction(t)
  PROVE  OnlyThread(t) /\ ThreadTypeOK(t)' /\ Shape(t)'
<1>1. /\ pc \in [Threads -> PCs] /\ op \in [Threads -> Ops] /\ id \in [Threads -> Inos \cup {0}]
      /\ want \in [Threads -> Nat] /\ gen \in [Threads -> Nat]
      /\ fh \in [Threads -> Fh \cup {0}] /\ buffer \in [Threads -> Seq(Entry)]
      /\ 0 \notin Inos /\ 0 \notin Fh
  BY InosFacts, RuntimeBoundsNat DEF AnyOrderInv, TypeOK, Fh
<1>2. Shape(t)
  BY DEF AnyOrderInv, ShapeInv
<1> USE <1>1, <1>2 DEF Goto, Start, requestVars, threadVars, OnlyThread, ThreadTypeOK, Shape,
        PCs, Ops, DirWriters, DirReaders, EntryOps, OpenOps, EntryPCs, ReleasePCs, PlusPCs
<1>3. CASE CountOpen(t) /\ id[t] \in DOMAIN map
  BY <1>3 DEF CountOpen
<1>4. CASE AddFile(t)
  <2>1. next_fh \in Fh
    BY <1>4, AddFileHandle
  <2> QED
    BY <1>4, <2>1 DEF AddFile
<1>5. CASE ReleaseCount(t)
  BY <1>5 DEF ReleaseCount
<1>6. ASSUME NEW h \in Fh, NEW i \in Inos, Release(t, h, i)
      PROVE  OnlyThread(t) /\ ThreadTypeOK(t)' /\ Shape(t)'
  <2>1. files[h].record \in Nat /\ Start(t, "release", i, files[h].record, h, "rel_node")
    BY <1>6, ReleaseFinds
  <2> QED
    BY <2>1
<1> QED
  BY <1>3, <1>4, <1>5, <1>6 DEF OpenAction

LEMMA OpenOperation ==
  ASSUME AnyOrderInv, NEW t \in Threads, OpenAction(t)
  PROVE  /\ Operation
         /\ UNCHANGED <<LinksOf, LookupsOf, names, klookup, kident>>
<1>0. TableInv /\ t \in Holders /\ DOMAIN map \subseteq Inos
  BY DEF AnyOrderInv, Threads, TableInv, TableTypeOK
<1>1. UNCHANGED <<names, klookup, kident>>
  BY DEF OpenAction, CountOpen, AddFile, ReleaseCount, Release, fsVars, kernelVars
<1>2. CASE CountOpen(t) /\ id[t] \in DOMAIN map
  <2>1. AddOpen(id[t]) /\ id[t] \in Inos
    BY <1>0, <1>2 DEF CountOpen
  <2> QED
    BY <1>0, <1>1, <2>1, AddOpenCounts DEF Operation, Counting
<1>3. CASE ReleaseCount(t)
  <2>1. RemoveOpen(id[t]) /\ id[t] \in Inos
    BY <1>0, <1>3 DEF ReleaseCount, RemoveOpen
  <2> QED
    BY <1>0, <1>1, <2>1, RemoveOpenCounts DEF Operation, Counting
<1>4. CASE UNCHANGED tableVars
  BY <1>0, <1>1, <1>4, QuietCounts DEF Operation
<1> QED
  BY <1>2, <1>3, <1>4 DEF OpenAction, AddFile, Release

\* The number of opens is counted up before the file is in the table, and down
\* after it has left: in between the request stands for the file.
LEMMA OpenCounts ==
  ASSUME AnyOrderInv, NEW t \in Threads, OpenAction(t)
  PROVE  OpensInv'
<1>0. /\ TableInv /\ OpensInv /\ OpensOf \in [Inos -> Nat] /\ DOMAIN map \subseteq Inos
      /\ t \in Holders /\ pc \in [Threads -> PCs] /\ id \in [Threads -> Inos \cup {0}]
  BY CountsType DEF AnyOrderInv, Threads, TableInv, TableTypeOK, TypeOK
<1>1. \A i : /\ IsFiniteSet(FilesOn(i)) /\ Cardinality(FilesOn(i)) \in Nat
             /\ IsFiniteSet(Opening(i)) /\ Cardinality(Opening(i)) \in Nat
  BY CountedSetsFinite, FS_CardinalityType DEF AnyOrderInv
<1>2. CASE CountOpen(t) /\ id[t] \in DOMAIN map
  <2>0. PICK i \in Inos : i = id[t]
    BY <1>0, <1>2
  <2>1. /\ AddOpen(i) /\ pc[t] \in {"open_fs", "add_open"} /\ id' = id /\ files' = files
        /\ pc' = [pc EXCEPT ![t] = "add_file"]
    BY <1>2, <2>0 DEF CountOpen, Goto, requestVars, handleVars
  <2>2. OpensOf' = [OpensOf EXCEPT ![i] = @ + 1]
    BY <1>0, <2>1, AddOpenCounts
  <2>3. Opening(i)' = Opening(i) \cup {t} /\ t \notin Opening(i)
    BY <1>0, <2>0, <2>1 DEF Opening, OpeningPCs
  <2>4. \A j \in Inos \ {i} : Opening(j)' = Opening(j)
    BY <1>0, <2>0, <2>1 DEF Opening, OpeningPCs
  <2>5. Cardinality(Opening(i)') = Cardinality(Opening(i)) + 1
    BY <1>1, <2>3, FS_AddElement
  <2>6. \A j : FilesOn(j)' = FilesOn(j)
    BY <2>1 DEF FilesOn
  <2>7. ASSUME NEW j \in Inos
        PROVE  OpensOf'[j] = Cardinality(FilesOn(j)') + Cardinality(Opening(j)')
    <3>1. OpensOf[j] = Cardinality(FilesOn(j)) + Cardinality(Opening(j))
      BY <1>0 DEF OpensInv
    <3>2. CASE j = i
      BY <1>0, <1>1, <2>2, <2>5, <2>6, <3>1, <3>2
    <3>3. CASE j # i
      BY <1>0, <2>2, <2>4, <2>6, <3>1, <3>3
    <3> QED
      BY <3>2, <3>3
  <2> QED
    BY <2>7 DEF OpensInv
<1>3. CASE ReleaseCount(t)
  <2>0. PICK i \in Inos : i = id[t]
    BY <1>0, <1>3 DEF ReleaseCount, RemoveOpen
  <2>1. /\ RemoveOpen(i) /\ pc[t] = "rel_count" /\ id' = id /\ files' = files
        /\ pc' = [pc EXCEPT ![t] = "rel_drain"]
    BY <1>3, <2>0 DEF ReleaseCount, Goto, requestVars, handleVars
  <2>2. OpensOf' = [OpensOf EXCEPT ![i] = Minus(@, 1)]
    BY <1>0, <2>1, RemoveOpenCounts
  <2>3. Opening(i)' = Opening(i) \ {t} /\ t \in Opening(i)
    BY <1>0, <2>0, <2>1 DEF Opening, OpeningPCs
  <2>4. \A j \in Inos \ {i} : Opening(j)' = Opening(j)
    BY <1>0, <2>0, <2>1 DEF Opening, OpeningPCs
  <2>5. Cardinality(Opening(i)') = Cardinality(Opening(i)) - 1 /\ Cardinality(Opening(i)) # 0
    BY <1>1, <2>3, FS_RemoveElement, HasMember
  <2>6. \A j : FilesOn(j)' = FilesOn(j)
    BY <2>1 DEF FilesOn
  <2>7. ASSUME NEW j \in Inos
        PROVE  OpensOf'[j] = Cardinality(FilesOn(j)') + Cardinality(Opening(j)')
    <3>1. OpensOf[j] = Cardinality(FilesOn(j)) + Cardinality(Opening(j))
      BY <1>0 DEF OpensInv
    <3>2. CASE j = i
      BY <1>0, <1>1, <2>2, <2>5, <2>6, <3>1, <3>2 DEF Minus
    <3>3. CASE j # i
      BY <1>0, <2>2, <2>4, <2>6, <3>1, <3>3
    <3> QED
      BY <3>2, <3>3
  <2> QED
    BY <2>7 DEF OpensInv
<1>4. ASSUME NEW i \in Inos, OpensOf' = OpensOf,
             \A j \in Inos \ {i} : Opening(j)' = Opening(j) /\ FilesOn(j)' = FilesOn(j),
             Cardinality(FilesOn(i)') + Cardinality(Opening(i)') =
               Cardinality(FilesOn(i)) + Cardinality(Opening(i))
      PROVE  OpensInv'
  BY <1>0, <1>4 DEF OpensInv
<1>5. CASE AddFile(t)
  <2>0. PICK i \in Inos : i = id[t]
    BY <1>0, <1>5, OpeningThere DEF AddFile, OpeningPCs
  <2>1. /\ UNCHANGED tableVars /\ id' = id
        /\ files' = [h \in DOMAIN files \cup {next_fh} |->
                       IF h = next_fh THEN [ino |-> i, record |-> want[t]] ELSE files[h]]
        /\ pc[t] = "add_file" /\ pc' = [pc EXCEPT ![t] = pc'[t]] /\ pc'[t] \notin OpeningPCs
    BY <1>0, <1>5, <2>0 DEF AddFile, Goto, OpeningPCs
  <2>2. next_fh \notin DOMAIN files
    <3>1. next_fh \in Nat /\ \A h \in DOMAIN files : h < next_fh
      BY DEF AnyOrderInv, HandleInv, TypeOK
    <3> QED
      BY <3>1
  <2>3. FilesOn(i)' = FilesOn(i) \cup {next_fh} /\ next_fh \notin FilesOn(i)
    BY <2>1, <2>2 DEF FilesOn
  <2>4. Opening(i)' = Opening(i) \ {t} /\ t \in Opening(i)
    BY <1>0, <2>0, <2>1 DEF Opening, OpeningPCs
  <2>5. \A j \in Inos \ {i} : FilesOn(j)' = FilesOn(j)
    BY <2>1, <2>2 DEF FilesOn
  <2>6. \A j \in Inos \ {i} : Opening(j)' = Opening(j)
    BY <1>0, <2>0, <2>1 DEF Opening
  <2>7. Cardinality(FilesOn(i)') = Cardinality(FilesOn(i)) + 1
    BY <1>1, <2>3, FS_AddElement
  <2>8. Cardinality(Opening(i)') = Cardinality(Opening(i)) - 1
    BY <1>1, <2>4, FS_RemoveElement
  <2>9. OpensOf' = OpensOf
    BY <1>0, <2>1, QuietCounts
  <2> QED
    BY <1>1, <1>4, <2>5, <2>6, <2>7, <2>8, <2>9
<1>6. ASSUME NEW h \in Fh, NEW i \in Inos, Release(t, h, i)
      PROVE  OpensInv'
  <2>1. /\ h \in DOMAIN files /\ files[h].ino = i
        /\ files' = [g \in DOMAIN files \ {h} |-> files[g]]
        /\ Start(t, "release", i, files[h].record, h, "rel_node")
    BY <1>6, ReleaseFinds
  <2>2. /\ UNCHANGED tableVars /\ pc[t] = "idle"
        /\ pc' = [pc EXCEPT ![t] = "rel_node"] /\ id' = [id EXCEPT ![t] = i]
    BY <1>6, <2>1 DEF Release, Start, Goto
  <2>3. FilesOn(i)' = FilesOn(i) \ {h} /\ h \in FilesOn(i)
    BY <2>1 DEF FilesOn
  <2>4. Opening(i)' = Opening(i) \cup {t} /\ t \notin Opening(i)
    BY <1>0, <2>2 DEF Opening, OpeningPCs
  <2>5. \A j \in Inos \ {i} : FilesOn(j)' = FilesOn(j)
    BY <2>1 DEF FilesOn
  <2>6. \A j \in Inos \ {i} : Opening(j)' = Opening(j)
    BY <1>0, <2>2 DEF Opening, OpeningPCs
  <2>7. Cardinality(FilesOn(i)') = Cardinality(FilesOn(i)) - 1
    BY <1>1, <2>3, FS_RemoveElement
  <2>8. Cardinality(Opening(i)') = Cardinality(Opening(i)) + 1
    BY <1>1, <2>4, FS_AddElement
  <2>9. OpensOf' = OpensOf
    BY <1>0, <2>2, QuietCounts
  <2> QED
    BY <1>1, <1>4, <2>5, <2>6, <2>7, <2>8, <2>9
<1> QED
  BY <1>2, <1>3, <1>5, <1>6 DEF OpenAction

\* Every handle that goes to the kernel is in the table, under one owner.
LEMMA OpenHandles ==
  ASSUME AnyOrderInv, NEW t \in Threads, OpenAction(t)
  PROVE  /\ HandleInv' /\ HandleBound'
         /\ DOMAIN files' \subseteq Fh
         /\ files' \in [DOMAIN files' -> [ino : Inos, record : Nat]]
         /\ next_fh' \in 1..(MaxFh + 1)
         /\ kopen' \subseteq Fh \X Inos
<1>0. /\ DOMAIN files \subseteq Fh /\ files \in [DOMAIN files -> [ino : Inos, record : Nat]]
      /\ next_fh \in 1..(MaxFh + 1) /\ kopen \subseteq Fh \X Inos /\ next_fh \in Nat
      /\ HandleInv /\ MaxFh \in Nat /\ Fh \subseteq Nat /\ 0 \notin Fh
      /\ op \in [Threads -> Ops] /\ fh \in [Threads -> Fh \cup {0}]
  BY RuntimeBoundsNat DEF AnyOrderInv, TypeOK, Fh
<1>1. \A u \in Threads \ {t} : op'[u] = op[u] /\ fh'[u] = fh[u] /\ id'[u] = id[u]
  BY OpenLocally, OneThread
<1>2. CASE (CountOpen(t) /\ id[t] \in DOMAIN map) \/ ReleaseCount(t)
  <2>1. UNCHANGED <<op, id, fh, files, next_fh, kopen>>
    BY <1>2 DEF CountOpen, ReleaseCount, requestVars, handleVars, kernelVars
  <2>2. Waiting' = Waiting /\ \A u \in Threads : Holds(u)' = Holds(u)
    BY <2>1 DEF Waiting, Holds
  <2>3. HandleBound'
    BY <2>1, <2>2 DEF AnyOrderInv, HandleBound
  <2> QED
    BY <1>0, <2>1, <2>2, <2>3 DEF HandleInv
<1>3. CASE AddFile(t)
  <2>1. /\ files' = [h \in DOMAIN files \cup {next_fh} |->
                       IF h = next_fh THEN [ino |-> id[t], record |-> want[t]] ELSE files[h]]
        /\ next_fh' = next_fh + 1 /\ fh' = [fh EXCEPT ![t] = next_fh]
        /\ UNCHANGED <<op, id, kopen>> /\ pc[t] = "add_file"
    BY <1>3 DEF AddFile, kernelVars
  <2>2. next_fh \in Fh /\ next_fh + 1 \in 1..(MaxFh + 1) /\ t \in Waiting
    BY <1>3, AddFileHandle
  <2>3. id[t] \in Inos /\ want[t] \in Nat
    BY <2>1, OpeningThere DEF OpeningPCs, AnyOrderInv, TypeOK
  <2>4. next_fh \notin DOMAIN files
    BY <1>0 DEF HandleInv
  <2>5. /\ DOMAIN files' = DOMAIN files \cup {next_fh}
        /\ files'[next_fh].ino = id[t]
        /\ \A h \in DOMAIN files : files'[h] = files[h]
    BY <2>1, <2>4
  <2>6. /\ DOMAIN files' \subseteq Fh
        /\ files' \in [DOMAIN files' -> [ino : Inos, record : Nat]]
    BY <1>0, <2>1, <2>2, <2>3
  <2>7. fh'[t] = next_fh /\ \A u \in Threads \ {t} : Holds(u)' = Holds(u)
    BY <1>0, <1>1, <2>1 DEF Holds
  <2>8. \A k \in kopen : k[1] \in DOMAIN files /\ k[1] # next_fh
    BY <1>0, <2>4 DEF HandleInv
  <2>9. \A u \in Threads \ {t} : Holds(u) => fh[u] \in DOMAIN files /\ fh[u] # next_fh
    BY <1>0, <2>4 DEF HandleInv
  <2>10. HandleInv'
    <3>1. \A h \in DOMAIN files' : h < next_fh'
      BY <1>0, <2>1, <2>5 DEF HandleInv
    <3>2. \A k \in kopen' : k[1] \in DOMAIN files' /\ files'[k[1]].ino = k[2]
      BY <1>0, <2>1, <2>5 DEF HandleInv
    <3>3. ASSUME NEW u \in Threads, Holds(u)'
          PROVE  /\ fh'[u] \in DOMAIN files'
                 /\ files'[fh'[u]].ino = id'[u]
                 /\ \A k \in kopen' : k[1] # fh'[u]
      <4>1. CASE u = t
        BY <2>1, <2>5, <2>7, <2>8, <4>1
      <4>2. CASE u # t
        BY <1>0, <1>1, <2>1, <2>5, <2>7, <3>3, <4>2 DEF HandleInv
      <4> QED
        BY <4>1, <4>2
    <3>4. ASSUME NEW u \in Threads, NEW v \in Threads, Holds(u)', Holds(v)', fh'[u] = fh'[v]
          PROVE  u = v
      <4>1. CASE u # t /\ v # t
        BY <1>0, <1>1, <2>7, <3>4, <4>1 DEF HandleInv
      <4>2. CASE u = t /\ v # t
        BY <1>1, <2>7, <2>9, <3>4, <4>2
      <4>3. CASE u # t /\ v = t
        BY <1>1, <2>7, <2>9, <3>4, <4>3
      <4> QED
        BY <4>1, <4>2, <4>3
    <3> QED
      BY <3>1, <3>2, <3>3, <3>4 DEF HandleInv
  <2>11. HandleBound'
    <3>1. Waiting' = Waiting \ {t}
      BY <1>0, <1>1, <2>1, <2>2 DEF Waiting
    <3>2. IsFiniteSet(Waiting) /\ Cardinality(Waiting) \in Nat
      BY CountedSetsFinite, FS_CardinalityType DEF AnyOrderInv
    <3>3. Cardinality(Waiting') = Cardinality(Waiting) - 1
      BY <2>2, <3>1, <3>2, FS_RemoveElement
    <3> QED
      BY <1>0, <2>1, <3>2, <3>3 DEF AnyOrderInv, HandleBound
  <2> QED
    BY <1>0, <2>1, <2>2, <2>6, <2>10, <2>11
<1>4. ASSUME NEW h \in Fh, NEW i \in Inos, Release(t, h, i)
      PROVE  /\ HandleInv' /\ HandleBound'
             /\ DOMAIN files' \subseteq Fh
             /\ files' \in [DOMAIN files' -> [ino : Inos, record : Nat]]
             /\ next_fh' \in 1..(MaxFh + 1)
             /\ kopen' \subseteq Fh \X Inos
  <2>1. /\ h \in DOMAIN files /\ files[h].ino = i
        /\ files' = [g \in DOMAIN files \ {h} |-> files[g]]
        /\ Start(t, "release", i, files[h].record, h, "rel_node")
    BY <1>4, ReleaseFinds
  <2>2. /\ next_fh' = next_fh /\ <<h, i>> \in kopen /\ kopen' = kopen \ {<<h, i>>}
        /\ op' = [op EXCEPT ![t] = "release"]
    BY <1>4, <2>1 DEF Release, Start
  <2>3. op'[t] = "release"
    BY <1>0, <2>2
  <2>4. /\ DOMAIN files' = DOMAIN files \ {h} /\ \A g \in DOMAIN files' : files'[g] = files[g]
        /\ DOMAIN files' \subseteq Fh
        /\ files' \in [DOMAIN files' -> [ino : Inos, record : Nat]]
    BY <1>0, <2>1
  <2>5. \A k \in kopen' : k \in kopen /\ k[1] # h
    <3> SUFFICES ASSUME NEW k \in kopen' PROVE k[1] # h
      BY <2>2
    <3>1. k \in kopen /\ k # <<h, i>> /\ k = <<k[1], k[2]>>
      BY <1>0, <2>2
    <3>2. files[k[1]].ino = k[2]
      BY <1>0, <3>1 DEF HandleInv
    <3> QED
      BY <2>1, <3>1, <3>2
  <2>6. \A u \in Threads : Holds(u)' => Holds(u) /\ u # t /\ fh[u] # h
    <3>1. \A u \in Threads : Holds(u) => \A k \in kopen : k[1] # fh[u]
      BY <1>0 DEF HandleInv
    <3>2. \A u \in Threads : Holds(u) => fh[u] # h
      BY <2>2, <3>1
    <3> QED
      BY <1>1, <2>3, <3>2 DEF Holds, OpenOps
  <2>7. HandleInv'
    <3>1. \A g \in DOMAIN files' : g < next_fh'
      BY <1>0, <2>2, <2>4 DEF HandleInv
    <3>2. \A k \in kopen' : k[1] \in DOMAIN files' /\ files'[k[1]].ino = k[2]
      BY <1>0, <2>4, <2>5 DEF HandleInv
    <3>3. ASSUME NEW u \in Threads, Holds(u)'
          PROVE  /\ fh'[u] \in DOMAIN files'
                 /\ files'[fh'[u]].ino = id'[u]
                 /\ \A k \in kopen' : k[1] # fh'[u]
      BY <1>0, <1>1, <2>4, <2>5, <2>6, <3>3 DEF HandleInv
    <3>4. \A u, v \in Threads : Holds(u)' /\ Holds(v)' /\ fh'[u] = fh'[v] => u = v
      BY <1>0, <1>1, <2>6 DEF HandleInv
    <3> QED
      BY <3>1, <3>2, <3>3, <3>4 DEF HandleInv
  <2>8. HandleBound'
    <3>1. Waiting' \subseteq Waiting
      BY <1>1, <2>3 DEF Waiting, OpenOps
    <3> QED
      BY <2>2, <3>1, BoundKept
  <2> QED
    BY <1>0, <2>2, <2>4, <2>7, <2>8
<1> QED
  BY <1>2, <1>3, <1>4 DEF OpenAction

LEMMA OpenInv ==
  ASSUME AnyOrderInv, NEW t \in Threads, OpenAction(t), UNCHANGED faults
  PROVE  AnyOrderInv'
<1>1. Operation /\ UNCHANGED <<LinksOf, LookupsOf, names, klookup, kident>>
  BY OpenOperation
<1>2. OnlyThread(t) /\ ThreadTypeOK(t)' /\ Shape(t)'
  BY OpenLocally
<1>3. /\ pc' \in [Threads -> PCs]
      /\ op' \in [Threads -> Ops]
      /\ id' \in [Threads -> Inos \cup {0}]
      /\ want' \in [Threads -> Nat]
      /\ gen' \in [Threads -> Nat]
      /\ fh' \in [Threads -> Fh \cup {0}]
      /\ buffer' \in [Threads -> Seq(Entry)]
      /\ ShapeInv'
  BY <1>2, OneThread
<1>4. TableInv'
  BY <1>1, OperationInv DEF AnyOrderInv
<1>5. /\ HandleInv' /\ HandleBound'
      /\ DOMAIN files' \subseteq Fh
      /\ files' \in [DOMAIN files' -> [ino : Inos, record : Nat]]
      /\ next_fh' \in 1..(MaxFh + 1)
      /\ kopen' \subseteq Fh \X Inos
  BY OpenHandles
<1>6. TypeOK'
  <2>1. TableTypeOK'
    BY <1>4 DEF TableInv
  <2> QED
    BY <1>1, <1>3, <1>5, <2>1 DEF AnyOrderInv, TypeOK
<1>7. LinksInv'
  <2>1. \A i : NamesFor(i)' = NamesFor(i)
    BY <1>1 DEF NamesFor
  <2> QED
    BY <1>1, <2>1 DEF AnyOrderInv, LinksInv
<1>8. OpensInv'
  BY OpenCounts
<1> QED
  BY <1>3, <1>4, <1>5, <1>6, <1>7, <1>8 DEF AnyOrderInv

LEMMA ForgetInv ==
  ASSUME AnyOrderInv, NEW i \in Inos, NEW n \in 1..MaxLookups, KernelForget(i, n),
         UNCHANGED faults
  PROVE  AnyOrderInv'
<1>0. TableInv /\ n \in Nat /\ klookup \in [Inos -> Nat]
  BY RuntimeBoundsNat DEF AnyOrderInv, TypeOK
<1>1. IF i \in DOMAIN map THEN Forget(i, n) ELSE UNCHANGED tableVars
  BY DEF KernelForget
<1>2. Operation
  BY <1>0, <1>1 DEF Operation, Counting
<1>3. TableInv' /\ UNCHANGED <<LinksOf, OpensOf>>
  BY <1>0, <1>1, <1>2, OperationInv, ForgetCounts
<1>4. /\ UNCHANGED <<names, files, next_fh, kident, kopen, pc, op, id, want, gen, fh, buffer>>
      /\ klookup' = [klookup EXCEPT ![i] = @ - n] /\ n <= klookup[i]
  BY DEF KernelForget, fsVars, handleVars, threadVars, requestVars
<1>5. klookup' \in [Inos -> Nat]
  BY <1>0, <1>4
<1>6. TypeOK'
  <2>1. TableTypeOK'
    BY <1>3 DEF TableInv
  <2> QED
    BY <1>4, <1>5, <2>1 DEF AnyOrderInv, TypeOK
<1>7. LinksInv' /\ OpensInv'
  BY <1>3, <1>4 DEF AnyOrderInv, LinksInv, OpensInv, NamesFor, FilesOn, Opening
<1>8. ShapeInv' /\ HandleInv' /\ HandleBound'
  BY <1>4 DEF AnyOrderInv, ShapeInv, Shape, HandleInv, Holds, HandleBound, Waiting
<1> QED
  BY <1>3, <1>6, <1>7, <1>8 DEF AnyOrderInv

-----------------------------------------------------------------------------

LEMMA AnyOrderInit == Init => AnyOrderInv
<1> SUFFICES ASSUME Init PROVE AnyOrderInv
  OBVIOUS
<1>1. TableInv
  BY InitInv DEF Init
<1>2. TypeOK
  BY <1>1, RuntimeBoundsNat, InosFacts DEF TableInv, Init, TypeOK, PCs, Ops
<1>3. LinksInv
  <2>1. \A i \in Inos : NamesFor(i) = {}
    BY InosFacts DEF Init, NamesFor
  <2>2. \A i \in Inos : LinksOf[i] = IF i = ROOT THEN 1 ELSE 0
    BY DEF Init, TableInit, LinksOf, NewSlot
  <2> QED
    BY <2>1, <2>2, FS_EmptySet DEF LinksInv
<1>4. OpensInv
  <2>1. \A i \in Inos : FilesOn(i) = {} /\ Opening(i) = {}
    BY DEF Init, FilesOn, Opening, OpeningPCs
  <2>2. \A i \in Inos : OpensOf[i] = 0
    BY DEF Init, TableInit, OpensOf, NewSlot
  <2> QED
    BY <2>1, <2>2, FS_EmptySet DEF OpensInv
<1>5. ShapeInv
  BY DEF Init, ShapeInv, Shape, EntryPCs, ReleasePCs, PlusPCs
<1>6. HandleInv
  BY DEF Init, HandleInv, Holds, OpenOps
<1>7. HandleBound
  <2>1. Waiting = {}
    BY DEF Init, Waiting, OpenOps
  <2> QED
    BY <2>1, FS_EmptySet, RuntimeBoundsNat DEF Init, HandleBound
<1> QED
  BY <1>1, <1>2, <1>3, <1>4, <1>5, <1>6, <1>7 DEF AnyOrderInv

\* Every step is one of the three kinds.
LEMMA NextKinds ==
  ASSUME Next
  PROVE  /\ UNCHANGED faults
         /\ \/ \E t \in Threads : LocalAction(t) \/ OpenAction(t)
            \/ \E i \in Inos, n \in 1..MaxLookups : KernelForget(i, n)
<1>1. ASSUME NEW t \in Threads, Step(t) PROVE LocalAction(t) \/ OpenAction(t)
  BY <1>1 DEF Step, LocalAction, QuietAction, OpenAction
<1>2. ASSUME NEW t \in Threads, Request(t) PROVE LocalAction(t) \/ OpenAction(t)
  BY <1>2 DEF Request, LocalAction, QuietAction, DirAction, OpenAction
<1> QED
  BY <1>1, <1>2 DEF Next

LEMMA AnyOrderStep == AnyOrderInv /\ [Next]_vars => AnyOrderInv'
<1> SUFFICES ASSUME AnyOrderInv, [Next]_vars PROVE AnyOrderInv'
  OBVIOUS
<1>1. CASE Next
  BY <1>1, NextKinds, LocalInv, OpenInv, ForgetInv
<1>2. CASE UNCHANGED vars
  <2>1. /\ UNCHANGED tableVars
        /\ UNCHANGED <<faults, names, files, next_fh, klookup, kident, kopen>>
        /\ UNCHANGED <<pc, op, id, want, gen, fh, buffer>>
    BY <1>2 DEF vars, fsVars, handleVars, kernelVars, threadVars, requestVars
  <2>2. TableInv'
    BY <2>1, OperationInv DEF AnyOrderInv, Operation
  <2>3. TypeOK'
    BY <2>1, <2>2 DEF AnyOrderInv, TypeOK, TableInv
  <2>4. LinksInv' /\ OpensInv'
    BY <2>1 DEF AnyOrderInv, LinksInv, OpensInv, NamesFor, FilesOn, Opening, LinksOf, OpensOf,
       tableVars
  <2>5. ShapeInv' /\ HandleInv' /\ HandleBound'
    BY <2>1 DEF AnyOrderInv, ShapeInv, Shape, HandleInv, Holds, HandleBound, Waiting
  <2> QED
    BY <2>2, <2>3, <2>4, <2>5 DEF AnyOrderInv
<1> QED
  BY <1>1, <1>2

\* The inductive invariant holds for any number of workers, nodes and handles,
\* with the kernel's directory lock or without it, and whatever is lost.
THEOREM AnyOrderInvariance == Spec => []AnyOrderInv
BY AnyOrderInit, AnyOrderStep, PTL DEF Spec

\* Every variable of the runtime, the kernel and the requests keeps its type:
\* no handle number is handed out beyond the bound, and no request works with a
\* number that was never one.
THEOREM TypeCorrect == Spec => []TypeOK
<1>1. AnyOrderInv => TypeOK
  BY DEF AnyOrderInv
<1> QED
  BY <1>1, AnyOrderInvariance, PTL

\* add_open and remove_open are paired with the files in the handle table, in
\* every interleaving of open, create and release.
THEOREM OpensExactHolds == Spec => []OpensExact
<1>1. AnyOrderInv => OpensExact
  <2> SUFFICES ASSUME AnyOrderInv, NEW i \in DOMAIN map
               PROVE  map[i].opens =
                        Cardinality({h \in DOMAIN files : files[h].ino = i})
                        + Cardinality({t \in Threads : id[t] = i
                                        /\ pc[t] \in {"add_file", "rel_node", "rel_count"}})
    BY DEF OpensExact
  <2>1. i \in Inos /\ OpensOf[i] = map[i].opens
    BY CountsThere DEF AnyOrderInv
  <2> QED
    BY <2>1 DEF AnyOrderInv, OpensInv, FilesOn, Opening, OpeningPCs
<1> QED
  BY <1>1, AnyOrderInvariance, PTL

LEMMA PinnedNow == AnyOrderInv => HandlePinned
<1> SUFFICES ASSUME AnyOrderInv PROVE HandlePinned
  OBVIOUS
<1>1. \A h \in DOMAIN files : files[h].ino \in DOMAIN map
  BY FilesThere
<1>2. \A t \in Threads : pc[t] = "rel_node" => id[t] \in DOMAIN map
  BY OpeningThere DEF OpeningPCs
<1>3. \A k \in kopen : k[1] \in DOMAIN files /\ files[k[1]].ino = k[2]
  BY DEF AnyOrderInv, HandleInv
<1> QED
  BY <1>1, <1>2, <1>3 DEF HandlePinned

\* No open file loses its node and no release() misses it, however the kernel
\* orders its requests: remove_open and the filesystem's release() always run.
THEOREM HandlePinnedHolds == Spec => []HandlePinned
BY PinnedNow, AnyOrderInvariance, PTL

-----------------------------------------------------------------------------
(* With the kernel's directory lock: the node in the hands of a request is *)
(* the node the directory, the kernel or the handle means.                 *)

RefPCs == {"open_fs", "rel_count", "rel_drain"}

\* What a step of t does to the node t is working on.
TargetLocal(t) ==
  /\ op'[t] \in DirWriters => op'[t] = op[t] \/ MayWrite
  /\ op'[t] \in DirReaders => op'[t] = op[t] \/ MayRead
  /\ Targets(t)' =>
       \/ Targets(t) /\ id'[t] = id[t] /\ want'[t] = want[t] /\ UNCHANGED names
       \/ \E n \in Names : /\ names'[n] = id'[t]
                           /\ id'[t] \in DOMAIN map'
                           /\ map'[id'[t]].record = want'[t]
  /\ pc'[t] = "rdp_add" => Targets(t) /\ id'[t] = id[t] /\ gen'[t] = map[id[t]].generation
  /\ pc'[t] \in OpeningPCs => id'[t] \in DOMAIN map /\ want'[t] = map[id'[t]].record
  /\ pc'[t] \in RefPCs => ref'[t] = [id |-> id'[t], record |-> want'[t]]

LEMMA QuietTarget ==
  ASSUME Serial, AnyOrderInv, LockedInv, NEW t \in Threads, QuietAction(t)
  PROVE  TargetLocal(t)
<1>1. /\ pc \in [Threads -> PCs] /\ op \in [Threads -> Ops] /\ id \in [Threads -> Inos \cup {0}]
      /\ want \in [Threads -> Nat] /\ gen \in [Threads -> Nat]
      /\ ref \in [Threads -> [id : Nat, record : Nat]]
  BY DEF AnyOrderInv, TypeOK, TableTypeOK, Threads
<1>2. \A n \in Names : names[n] # 0 => names[n] \in DOMAIN map
  BY NamesThere
<1>3. Shape(t)
  BY DEF AnyOrderInv, ShapeInv
<1>4. Targets(t) => id[t] \in DOMAIN map
  BY <1>1, <1>2, InosFacts DEF LockedInv, TargetInv, AnyOrderInv, ShapeInv, Shape, Targets
<1>5. pc[t] \in OpeningPCs => id[t] \in DOMAIN map /\ map[id[t]].record = want[t]
  BY OpeningThere DEF LockedInv, KeepInv
<1>6. pc[t] \in RefPCs => ref[t] = [id |-> id[t], record |-> want[t]]
  BY DEF LockedInv, RefInv, RefPCs
<1> USE <1>1, <1>2, <1>3 DEF Goto, Start, Finish, StartOnNode, requestVars, threadVars, fsVars,
        tableVars, TargetLocal, Targets, Shape, PCs, Ops, DirWriters, DirReaders,
        EntryOps, OpenOps, OpeningPCs, EntryPCs, ReleasePCs, PlusPCs, RefPCs
<1>7. ASSUME NEW n \in Names, Lookup(t, n) PROVE TargetLocal(t)
  BY <1>7 DEF Lookup
<1>8. ASSUME NEW n \in Names, Revalidate(t, n) PROVE TargetLocal(t)
  BY <1>8 DEF Revalidate
<1>9. ASSUME NEW i \in Inos, Open(t, i) PROVE TargetLocal(t)
  BY <1>9 DEF Open, Get
<1>10. ASSUME NEW i \in Inos, OnNode(t, i) PROVE TargetLocal(t)
  BY <1>10 DEF OnNode, Get
<1>11. ASSUME NEW h \in Fh, NEW i \in Inos, OnFile(t, h, i) PROVE TargetLocal(t)
  BY <1>11 DEF OnFile, Get
<1>12. ASSUME NEW h \in Fh, ReadDirPlus(t, h) PROVE TargetLocal(t)
  BY <1>12 DEF ReadDirPlus, Get
<1>13. CASE EntryGet(t)
  BY <1>13 DEF EntryGet, Get
<1>14. CASE EntryFail(t)
  BY <1>14 DEF EntryFail
<1>15. CASE EntryDone(t)
  BY <1>15 DEF EntryDone
<1>16. CASE OpenFail(t)
  BY <1>16 DEF OpenFail
<1>17. CASE LeaseHandle(t)
  BY <1>17 DEF LeaseHandle
<1>18. CASE CallbackDone(t)
  BY <1>18 DEF CallbackDone
<1>19. CASE DropNode(t)
  BY <1>19 DEF DropNode
<1>20. CASE ReleaseNode(t)
  BY <1>5, <1>20 DEF ReleaseNode, Get
<1>21. CASE ReleaseDrained(t)
  BY <1>6, <1>21 DEF ReleaseDrained
<1>22. ASSUME NEW n \in Names, Emit(t, n) PROVE TargetLocal(t)
  BY <1>22 DEF Emit
<1>23. CASE PlusEntry(t)
  BY <1>23 DEF PlusEntry
<1>24. CASE PlusFull(t)
  BY <1>24 DEF PlusFull
<1>25. CASE PlusError(t)
  BY <1>25 DEF PlusError
<1>26. CASE PlusPanic(t)
  BY <1>26 DEF PlusPanic
<1>27. CASE PlusOk(t)
  BY <1>27 DEF PlusOk
<1>28. CASE PlusDrop(t)
  BY <1>28 DEF PlusDrop
<1>29. CASE PlusUndone(t)
  BY <1>29 DEF PlusUndone
<1>30. CASE PlusReplyLost(t)
  BY <1>30 DEF PlusReplyLost
<1>31. CASE ReplyLost(t)
  BY <1>31 DEF ReplyLost
<1>32. CASE CountOpen(t) /\ id[t] \notin DOMAIN map
  BY <1>32 DEF CountOpen
<1> QED
  BY <1>7, <1>8, <1>9, <1>10, <1>11, <1>12, <1>13, <1>14, <1>15, <1>16, <1>17, <1>18, <1>19, <1>20,
     <1>21, <1>22, <1>23, <1>24, <1>25, <1>26, <1>27, <1>28, <1>29, <1>30, <1>31, <1>32 DEF QuietAction

LEMMA ActionTarget ==
  ASSUME Serial, AnyOrderInv, LockedInv, NEW t \in Threads, LocalAction(t) \/ OpenAction(t)
  PROVE  TargetLocal(t)
<1>1. /\ pc \in [Threads -> PCs] /\ op \in [Threads -> Ops] /\ id \in [Threads -> Inos \cup {0}]
      /\ want \in [Threads -> Nat] /\ gen \in [Threads -> Nat]
      /\ ref \in [Threads -> [id : Nat, record : Nat]] /\ names \in [Names -> Inos \cup {0}]
  BY DEF AnyOrderInv, TypeOK, TableTypeOK, Threads
<1>2. /\ \A i \in DOMAIN map : i \in Inos /\ map[i] \in Slot
      /\ TableInv /\ LeasePins
  BY DEF AnyOrderInv, TableInv, TableTypeOK
<1>3. Shape(t)
  BY DEF AnyOrderInv, ShapeInv
<1>4. Targets(t) => id[t] \in DOMAIN map /\ map[id[t]].record = want[t]
  BY <1>1, NamesThere, InosFacts DEF LockedInv, TargetInv, AnyOrderInv, ShapeInv, Shape, Targets
<1>5. pc[t] \in OpeningPCs => id[t] \in DOMAIN map /\ map[id[t]].record = want[t]
  BY OpeningThere DEF LockedInv, KeepInv
<1>6. pc[t] \in RefPCs => ref[t] = [id |-> id[t], record |-> want[t]]
  BY DEF LockedInv, RefInv, RefPCs
<1> USE <1>1, <1>3 DEF Goto, Start, Finish, requestVars, threadVars, fsVars,
        tableVars, TargetLocal, Targets, Shape, PCs, Ops, DirWriters, DirReaders,
        EntryOps, OpenOps, OpeningPCs, EntryPCs, ReleasePCs, PlusPCs, RefPCs
<1>7. CASE QuietAction(t)
  BY <1>7, QuietTarget
<1>8. ASSUME NEW n \in Names, Mknod(t, n) \/ Create(t, n) PROVE TargetLocal(t)
  <2>1. /\ Insert(ROOT) /\ names' = [names EXCEPT ![n] = Allocated] /\ MayWrite
        /\ \E o \in {"mknod", "create"} : Start(t, o, Allocated, records + 1, 0, "entry")
    BY <1>8 DEF Mknod, Create, MakeNode
  <2>2. Allocated \in DOMAIN map' /\ map'[Allocated].record = records + 1
    BY <1>2, <2>1, InsertCounts
  <2> QED
    BY <2>1, <2>2
<1>9. ASSUME NEW n \in Names, Unlink(t, n) PROVE TargetLocal(t)
  BY <1>9 DEF Unlink
<1>10. ASSUME NEW n \in Names, NEW m \in Names, Rename(t, n, m) PROVE TargetLocal(t)
  BY <1>10 DEF Rename
<1>11. ASSUME NEW i \in Inos, NEW n \in Names, Link(t, i, n) PROVE TargetLocal(t)
  <2>1. /\ AddLink(i) /\ names' = [names EXCEPT ![n] = i] /\ MayWrite
        /\ Start(t, "link", i, kident[i].record, 0, "entry") /\ klookup[i] > 0
    BY <1>11 DEF Link
  <2>2. map[i].record = kident[i].record /\ i \in DOMAIN map
    BY <2>1 DEF LockedInv, KernelInv, AddLink
  <2>3. i \in DOMAIN map' /\ map'[i].record = map[i].record
    BY <1>2, <2>1 DEF AddLink, Slot
  <2> QED
    BY <2>1, <2>2, <2>3
<1>12. CASE EntryRetain(t)
  BY <1>4, <1>12 DEF EntryRetain, RetainLookup
<1>13. CASE PlusRetain(t)
  BY <1>13 DEF PlusRetain
<1>14. CASE PlusUndo(t)
  BY <1>14 DEF PlusUndo
<1>15. CASE PlusReply(t)
  BY <1>15 DEF PlusReply
<1>16. CASE Reply(t)
  BY <1>16 DEF Reply
<1>17. CASE CountOpen(t) /\ id[t] \in DOMAIN map
  <2>1. map[id[t]].record = want[t]
    <3>1. CASE pc[t] = "open_fs"
      <4>1. ref[t].id = id[t] /\ ref[t].record = want[t] /\ id[t] \in Inos
        BY <1>6, <3>1
      <4>2. ref[t] # NoRef
        BY <4>1, InosFacts DEF NoRef
      <4> QED
        BY <1>2, <4>1, <4>2 DEF LeasePins, Threads
    <3>2. CASE pc[t] = "add_open"
      BY <1>4, <3>2
    <3> QED
      BY <1>17, <3>1, <3>2 DEF CountOpen
  <2> QED
    BY <1>17, <2>1 DEF CountOpen
<1>18. CASE AddFile(t)
  BY <1>18 DEF AddFile
<1>19. CASE ReleaseCount(t)
  BY <1>6, <1>19 DEF ReleaseCount, RemoveOpen
<1>20. ASSUME NEW h \in Fh, NEW i \in Inos, Release(t, h, i) PROVE TargetLocal(t)
  <2>1. /\ h \in DOMAIN files /\ files[h].ino = i
        /\ Start(t, "release", i, files[h].record, h, "rel_node")
    BY <1>20, ReleaseFinds
  <2>2. i \in DOMAIN map /\ map[i].record = files[h].record
    BY <2>1, FilesThere DEF LockedInv, KeepInv
  <2> QED
    BY <2>1, <2>2
<1> QED
  BY <1>7, <1>8, <1>9, <1>10, <1>11, <1>12, <1>13, <1>14, <1>15, <1>16, <1>17, <1>18, <1>19,
     <1>20 DEF LocalAction, DirAction, OpenAction

\* Only the thread's own NodeRef comes or goes.
LEMMA RefOthers ==
  ASSUME AnyOrderInv, NEW t \in Threads, LocalAction(t) \/ OpenAction(t),
         NEW u \in Threads, u # t
  PROVE  ref'[u] = ref[u]
<1>1. ref \in [Threads -> [id : Nat, record : Nat]]
  BY DEF AnyOrderInv, TypeOK, TableTypeOK, Threads
<1>2. CASE QuietAction(t)
  BY <1>1, <1>2, QuietFrame DEF DropRef, Get, tableVars
<1>3. CASE ~QuietAction(t)
  BY <1>3 DEF LocalAction, DirAction, OpenAction, Mknod, Create, MakeNode, Unlink, Rename, Link,
     EntryRetain, PlusRetain, PlusUndo, PlusReply, Reply, CountOpen, AddFile, ReleaseCount,
     Release, Insert, RemoveLink, AddLink, RetainLookup, Forget, AddOpen, RemoveOpen, tableVars
<1> QED
  BY <1>2, <1>3

\* A node whose number is in the table before and after is the same node.
LEMMA ActionKeepsNodes ==
  ASSUME AnyOrderInv, NEW t \in Threads, LocalAction(t) \/ OpenAction(t)
  PROVE  \A i \in DOMAIN map \cap DOMAIN map' : SameNode(i)
BY LocalOperation, OpenOperation, OperationKeepsNodes DEF AnyOrderInv

\* The directory does not change under a request that works on one of its nodes.
LEMMA NamesHeld ==
  ASSUME Serial, AnyOrderInv, NEW t \in Threads, LocalAction(t) \/ OpenAction(t),
         NEW u \in Threads, u # t, Targets(u)
  PROVE  names' = names
<1>1. op[u] \in DirWriters \cup DirReaders
  BY DEF AnyOrderInv, ShapeInv, Shape, Targets, EntryPCs, EntryOps, PlusPCs, DirReaders, DirWriters
<1>2. CASE DirAction(t)
  BY <1>1, <1>2 DEF DirAction, Mknod, Create, MakeNode, Unlink, Rename, Link, MayWrite
<1>3. CASE ~DirAction(t)
  BY <1>3, LocalOperation, OpenOperation
<1> QED
  BY <1>2, <1>3

\* What a name, a file or an open being counted refers to is in the table.
PinInv ==
  /\ \A n \in Names : names[n] # 0 => names[n] \in DOMAIN map
  /\ \A h \in DOMAIN files : files[h].ino \in DOMAIN map
  /\ \A t \in Threads : pc[t] \in OpeningPCs => id[t] \in DOMAIN map

LEMMA Pins == AnyOrderInv => PinInv
BY NamesThere, FilesThere, OpeningThere DEF PinInv

LEMMA PinsNext == AnyOrderInv' => PinInv'
BY Pins, PTL

LEMMA LockedNodes ==
  ASSUME Serial, AnyOrderInv, AnyOrderInv', LockedInv,
         NEW t \in Threads, LocalAction(t) \/ OpenAction(t)
  PROVE  LockInv' /\ TargetInv' /\ RefInv' /\ KeepInv'
<1>1. TargetLocal(t)
  BY ActionTarget
<1>2. \A u \in Threads \ {t} :
        /\ pc'[u] = pc[u] /\ op'[u] = op[u] /\ id'[u] = id[u] /\ want'[u] = want[u]
        /\ gen'[u] = gen[u] /\ fh'[u] = fh[u] /\ buffer'[u] = buffer[u]
  BY LocalSteps, OpenLocally, OneThread DEF QuietLocal
<1>3. \A i \in DOMAIN map \cap DOMAIN map' :
        map'[i].record = map[i].record /\ map'[i].generation = map[i].generation
  BY ActionKeepsNodes DEF SameNode
<1>4. LockInv'
  <2> SUFFICES ASSUME NEW u \in Threads, NEW v \in Threads, u # v, op'[u] \in DirWriters,
                      op'[v] \in DirWriters \cup DirReaders
               PROVE  FALSE
    BY DEF LockInv
  <2>1. CASE u # t /\ v # t
    BY <1>2, <2>1 DEF LockedInv, LockInv
  <2>2. CASE u = t
    BY <1>1, <1>2, <2>2 DEF LockedInv, LockInv, TargetLocal, MayWrite
  <2>3. CASE v = t
    BY <1>1, <1>2, <2>3 DEF LockedInv, LockInv, TargetLocal, MayWrite, MayRead
  <2> QED
    BY <2>1, <2>2, <2>3
<1>5. \A u \in Threads : Targets(u) => id[u] \in DOMAIN map
  BY NamesThere, InosFacts DEF LockedInv, TargetInv, AnyOrderInv, ShapeInv, Shape, Targets
<1>6. TargetInv'
  <2> SUFFICES ASSUME NEW u \in Threads, Targets(u)'
               PROVE  /\ \E n \in Names : names'[n] = id'[u]
                      /\ map'[id'[u]].record = want'[u]
                      /\ pc'[u] = "rdp_add" => map'[id'[u]].generation = gen'[u]
    BY DEF TargetInv
  <2>1. ASSUME NEW n \in Names, names'[n] = id'[u]
        PROVE  id'[u] \in DOMAIN map'
    <3>1. names'[n] # 0
      BY <2>1, InosFacts DEF AnyOrderInv, ShapeInv, Shape, Targets
    <3> QED
      BY <2>1, <3>1, PinsNext DEF PinInv
  <2>2. CASE u # t
    <3>1. Targets(u) /\ id'[u] = id[u] /\ want'[u] = want[u] /\ pc'[u] = pc[u] /\ gen'[u] = gen[u]
      BY <1>2, <2>2 DEF Targets
    <3>2. names' = names
      BY <2>2, <3>1, NamesHeld
    <3>3. PICK n \in Names : names[n] = id[u]
      BY <3>1 DEF LockedInv, TargetInv
    <3>4. id[u] \in DOMAIN map \cap DOMAIN map'
      BY <1>5, <2>1, <3>1, <3>2, <3>3
    <3> QED
      BY <1>3, <3>1, <3>2, <3>3, <3>4 DEF LockedInv, TargetInv
  <2>3. CASE u = t /\ Targets(t) /\ id'[t] = id[t] /\ want'[t] = want[t] /\ UNCHANGED names
    <3>1. PICK n \in Names : names[n] = id[u]
      BY <2>3 DEF LockedInv, TargetInv
    <3>2. id[u] \in DOMAIN map \cap DOMAIN map'
      BY <1>5, <2>1, <2>3, <3>1
    <3> QED
      BY <1>1, <1>3, <2>3, <3>1, <3>2 DEF LockedInv, TargetInv, TargetLocal
  <2>4. CASE /\ u = t
             /\ \E n \in Names : /\ names'[n] = id'[t]
                                 /\ id'[t] \in DOMAIN map'
                                 /\ map'[id'[t]].record = want'[t]
    <3>1. ASSUME pc'[t] = "rdp_add" PROVE map'[id'[t]].generation = gen'[t]
      <4>1. /\ Targets(t) /\ id'[t] = id[t] /\ gen'[t] = map[id[t]].generation
            /\ id[t] \in DOMAIN map'
        BY <1>1, <2>4, <3>1 DEF TargetLocal
      <4> QED
        BY <1>3, <1>5, <4>1
    <3> QED
      BY <2>4, <3>1
  <2> QED
    BY <1>1, <2>2, <2>3, <2>4 DEF TargetLocal
<1>7. RefInv'
  <2> SUFFICES ASSUME NEW u \in Threads, pc'[u] \in RefPCs
               PROVE  ref'[u] = [id |-> id'[u], record |-> want'[u]]
    BY DEF RefInv, RefPCs
  <2>1. CASE u = t
    BY <1>1, <2>1 DEF TargetLocal
  <2>2. CASE u # t
    BY <1>2, <2>2, RefOthers DEF LockedInv, RefInv, RefPCs
  <2> QED
    BY <2>1, <2>2
<1>8. KeepInv'
  <2>1. ASSUME NEW h \in DOMAIN files'
        PROVE  map'[files'[h].ino].record = files'[h].record
    <3>1. files'[h].ino \in DOMAIN map'
      BY PinsNext DEF PinInv
    <3>2. CASE h \in DOMAIN files /\ files'[h] = files[h]
      <4>1. files[h].ino \in DOMAIN map /\ map[files[h].ino].record = files[h].record
        BY <3>2, FilesThere DEF LockedInv, KeepInv
      <4> QED
        BY <1>3, <3>1, <3>2, <4>1
    <3>3. CASE AddFile(t)
      <4>1. /\ files' = [g \in DOMAIN files \cup {next_fh} |->
                           IF g = next_fh THEN [ino |-> id[t], record |-> want[t]] ELSE files[g]]
            /\ UNCHANGED map /\ pc[t] = "add_file"
        BY <3>3 DEF AddFile, tableVars
      <4>2. map[id[t]].record = want[t]
        BY <4>1 DEF LockedInv, KeepInv, OpeningPCs
      <4> QED
        BY <2>1, <3>2, <4>1, <4>2
    <3>4. CASE ~AddFile(t)
      BY <2>1, <3>2, <3>4, LocalOperation, ReleaseFinds DEF OpenAction, CountOpen, ReleaseCount,
         handleVars
    <3> QED
      BY <3>3, <3>4
  <2>2. ASSUME NEW u \in Threads, pc'[u] \in OpeningPCs
        PROVE  map'[id'[u]].record = want'[u]
    <3>1. id'[u] \in DOMAIN map'
      BY <2>2, PinsNext DEF PinInv
    <3>2. id'[u] \in DOMAIN map /\ map[id'[u]].record = want'[u]
      <4>1. CASE u = t
        BY <1>1, <2>2, <4>1 DEF TargetLocal
      <4>2. CASE u # t
        BY <1>2, <2>2, <4>2, OpeningThere DEF LockedInv, KeepInv
      <4> QED
        BY <4>1, <4>2
    <3> QED
      BY <1>3, <3>1, <3>2
  <2> QED
    BY <2>1, <2>2 DEF KeepInv
<1> QED
  BY <1>4, <1>6, <1>7, <1>8

-----------------------------------------------------------------------------
(* The lookups: what keeps its number in the table *)

LEMMA LookupSetsFinite ==
  /\ Cardinality(Names) \in Nat
  /\ \A i : /\ IsFiniteSet(Owed(i)) /\ Cardinality(Owed(i)) \in Nat
            /\ IsFiniteSet(Listed(i)) /\ Cardinality(Listed(i)) \in Nat
<1>1. Cardinality(Names) \in Nat
  BY NamesFinite, FS_CardinalityType
<1>2. IsFiniteSet(Threads \X (1..Cardinality(Names)))
  <2>1. IsFiniteSet(1..Cardinality(Names)) /\ IsFiniteSet(Threads)
    BY <1>1, HoldersFinite, FS_Interval DEF Threads
  <2> QED
    BY <2>1, FS_Product
<1>3. ASSUME NEW i PROVE /\ IsFiniteSet(Owed(i)) /\ IsFiniteSet(Listed(i))
  <2>1. Owed(i) \in SUBSET Threads /\ Listed(i) \in SUBSET (Threads \X (1..Cardinality(Names)))
    BY DEF Owed, Listed
  <2> QED
    BY <1>2, <2>1, HoldersFinite, FS_Subset DEF Threads
<1> QED
  BY <1>1, <1>3, FS_CardinalityType

\* What the kernel counts, or a reply on its way tells of, is in the table.
ToldInv ==
  /\ \A i \in Inos : klookup[i] > 0 => i \in DOMAIN map
  /\ \A t \in Threads : Owes(t) => id[t] \in DOMAIN map
  /\ \A t \in Threads : \A a \in 1..Len(buffer[t]) : buffer[t][a].ino \in DOMAIN map

\* What is in the hands of a thread that tells the kernel of a node.
TellShape(t) ==
  /\ pc[t] \in EntryPCs => op[t] \in EntryOps
  /\ pc[t] = "reply" => op[t] \in EntryOps \cup {"open"}
  /\ pc[t] \in EntryPCs \cup OwingPCs \cup {"rdp_plus", "rdp_add"} => id[t] \in Inos

CountedInv ==
  /\ TableInv
  /\ TypeOK
  /\ \A t \in Threads : TellShape(t)
  /\ LookupsInv
  /\ ListInv

\* What the kernel is told is counted, and right.  This is the runtime's part of
\* it, and needs no more of the filesystem than that it names nodes in the table.
TellInv ==
  /\ CountedInv
  /\ OwedInv
  /\ BufferInv
  /\ KernelInv

LEMMA CountedHolds == AnyOrderInv /\ LookupsInv /\ ListInv => CountedInv
BY DEF AnyOrderInv, CountedInv, ShapeInv, Shape, TellShape, EntryPCs, OwingPCs, EntryOps, OpenOps,
   PlusPCs, DirWriters

LEMMA TellHolds == AnyOrderInv /\ LockedInv => TellInv
BY CountedHolds DEF LockedInv, TellInv

LEMMA ToldPins == CountedInv => ToldInv
<1> SUFFICES ASSUME CountedInv PROVE ToldInv
  OBVIOUS
<1>1. klookup \in [Inos -> Nat] /\ buffer \in [Threads -> Seq(Entry)] /\ LookupsOf \in [Inos -> Nat]
  BY CountsType DEF CountedInv, TypeOK
<1>2. ASSUME NEW i \in Inos,
             klookup[i] > 0 \/ Cardinality(Owed(i)) > 0 \/ Cardinality(Listed(i)) > 0
      PROVE  i \in DOMAIN map
  <2>1. LookupsOf[i] # 0
    BY <1>1, <1>2, LookupSetsFinite DEF CountedInv, LookupsInv
  <2> QED
    BY <2>1, CountedIsThere
<1>3. ASSUME NEW t \in Threads, Owes(t) PROVE id[t] \in DOMAIN map
  <2>1. id[t] \in Inos /\ t \in Owed(id[t])
    BY <1>3 DEF Owed, Owes, CountedInv, TellShape
  <2>2. Cardinality(Owed(id[t])) > 0
    BY <2>1, LookupSetsFinite, HasMember
  <2> QED
    BY <1>2, <2>1, <2>2
<1>4. ASSUME NEW t \in Threads, NEW a \in 1..Len(buffer[t])
      PROVE  buffer[t][a].ino \in DOMAIN map
  <2> DEFINE i == buffer[t][a].ino
  <2>1. i \in Inos
    <3>1. buffer[t][a] \in Entry
      BY <1>1
    <3> QED
      BY <3>1 DEF Entry
  <2>2. a \in 1..Cardinality(Names) /\ a <= Len(buffer[t]) /\ buffer[t][a].retained
    BY <1>1, LookupSetsFinite DEF CountedInv, ListInv, ListShape
  <2>3. <<t, a>> \in Listed(i)
    BY <2>2 DEF Listed
  <2>4. Cardinality(Listed(i)) > 0
    BY <2>3, LookupSetsFinite, HasMember
  <2> QED
    BY <1>2, <2>1, <2>4
<1> QED
  BY <1>2, <1>3, <1>4 DEF ToldInv

LEMMA ToldPinsNext == CountedInv' => ToldInv'
BY ToldPins, PTL

\* The steps that tell the kernel of a node, or take it back.
TellAction(t) ==
  \/ EntryRetain(t) \/ PlusRetain(t) \/ PlusUndo(t)
  \/ PlusReply(t) \/ Reply(t) \/ PlusPanic(t) \/ ReplyLost(t)

\* What t has told, and what it owes, stays as it is.
Steady(t) ==
  /\ UNCHANGED <<LookupsOf, klookup, kident, buffer>>
  /\ Owes(t)' <=> Owes(t)
  /\ Owes(t) => id'[t] = id[t] /\ want'[t] = want[t] /\ gen'[t] = gen[t]
  /\ buffer[t] # <<>> => pc'[t] \in PlusPCs
  /\ pc'[t] \in {"rdp_plus", "rdp_add"} => Len(buffer[t]) < Cardinality(Names)

\* No directory operation counts a lookup.
LEMMA SteadyCounts ==
  ASSUME AnyOrderInv, NEW t \in Threads, QuietAction(t) \/ DirAction(t) \/ OpenAction(t)
  PROVE  UNCHANGED <<LookupsOf, klookup, kident>>
<1>0. TableInv /\ \A n \in Names : names[n] # 0 => names[n] \in Inos
  BY NamesThere DEF AnyOrderInv
<1>1. CASE QuietAction(t)
  BY <1>0, <1>1, QuietFrame, QuietCounts DEF Threads
<1>2. CASE OpenAction(t)
  BY <1>2, OpenOperation
<1>3. ASSUME NEW n \in Names, Mknod(t, n) \/ Create(t, n)
      PROVE  UNCHANGED <<LookupsOf, klookup, kident>>
  <2>1. Insert(ROOT) /\ UNCHANGED <<klookup, kident>>
    BY <1>3 DEF Mknod, Create, MakeNode, kernelVars
  <2> QED
    BY <1>0, <2>1, InsertCounts
<1>4. ASSUME NEW n \in Names, Unlink(t, n)
      PROVE  UNCHANGED <<LookupsOf, klookup, kident>>
  <2>1. RemoveLink(names[n]) /\ names[n] \in Inos /\ UNCHANGED <<klookup, kident>>
    BY <1>0, <1>4 DEF Unlink, kernelVars
  <2> QED
    BY <1>0, <2>1, RemoveLinkCounts
<1>5. ASSUME NEW n \in Names, NEW m \in Names, Rename(t, n, m)
      PROVE  UNCHANGED <<LookupsOf, klookup, kident>>
  <2>1. UNCHANGED <<klookup, kident>>
    BY <1>5 DEF Rename, kernelVars
  <2>2. CASE names[m] = 0
    BY <1>0, <1>5, <2>1, <2>2, QuietCounts DEF Rename, Threads
  <2>3. CASE names[m] # 0
    <3>1. RemoveLink(names[m]) /\ names[m] \in Inos
      BY <1>0, <1>5, <2>3 DEF Rename
    <3> QED
      BY <1>0, <2>1, <3>1, RemoveLinkCounts
  <2> QED
    BY <2>2, <2>3
<1>6. ASSUME NEW i \in Inos, NEW n \in Names, Link(t, i, n)
      PROVE  UNCHANGED <<LookupsOf, klookup, kident>>
  <2>1. AddLink(i) /\ UNCHANGED <<klookup, kident>>
    BY <1>6 DEF Link, kernelVars
  <2> QED
    BY <1>0, <2>1, AddLinkCounts
<1> QED
  BY <1>1, <1>2, <1>3, <1>4, <1>5, <1>6 DEF DirAction

LEMMA SteadySteps ==
  ASSUME AnyOrderInv, LockedInv, NEW t \in Threads,
         QuietAction(t) \/ DirAction(t) \/ OpenAction(t), ~TellAction(t)
  PROVE  Steady(t)
<1> DEFINE Local == /\ buffer' = buffer
                    /\ Owes(t)' <=> Owes(t)
                    /\ Owes(t) => id'[t] = id[t] /\ want'[t] = want[t] /\ gen'[t] = gen[t]
                    /\ buffer[t] # <<>> => pc'[t] \in PlusPCs
                    /\ pc'[t] \in {"rdp_plus", "rdp_add"} => Len(buffer[t]) < Cardinality(Names)
<1>1. /\ pc \in [Threads -> PCs] /\ op \in [Threads -> Ops] /\ id \in [Threads -> Inos \cup {0}]
      /\ want \in [Threads -> Nat] /\ gen \in [Threads -> Nat]
      /\ buffer \in [Threads -> Seq(Entry)]
  BY DEF AnyOrderInv, TypeOK
<1>2. Shape(t) /\ ListShape(t)
  BY DEF AnyOrderInv, ShapeInv, LockedInv, ListInv
<1>3. pc[t] = "add_open" => id[t] \in DOMAIN map
  BY <1>1, NamesThere, InosFacts DEF LockedInv, TargetInv, AnyOrderInv, ShapeInv, Shape, Targets
<1>4. pc[t] \notin PlusPCs => [buffer EXCEPT ![t] = <<>>] = buffer
  BY <1>1, <1>2 DEF ListShape
<1>5. ASSUME NEW h \in Fh, NEW i \in Inos, Release(t, h, i)
      PROVE  Start(t, "release", i, files[h].record, h, "rel_node")
  BY <1>5, ReleaseFinds
<1> USE <1>1, <1>2, <1>4 DEF Goto, Start, Finish, StartOnNode, requestVars, threadVars, Owes,
        ListShape, Shape, PCs, Ops, DirWriters, DirReaders,
        EntryOps, OpenOps, OpeningPCs, EntryPCs, ReleasePCs, PlusPCs, OwingPCs
<1>6. ASSUME QuietAction(t) PROVE Local
  <2>1. ASSUME NEW n \in Names, Lookup(t, n) PROVE Local
    BY <2>1 DEF Lookup
  <2>2. ASSUME NEW n \in Names, Revalidate(t, n) PROVE Local
    BY <2>2 DEF Revalidate
  <2>3. ASSUME NEW i \in Inos, Open(t, i) PROVE Local
    BY <2>3 DEF Open
  <2>4. ASSUME NEW i \in Inos, OnNode(t, i) PROVE Local
    BY <2>4 DEF OnNode
  <2>5. ASSUME NEW h \in Fh, NEW i \in Inos, OnFile(t, h, i) PROVE Local
    BY <2>5 DEF OnFile
  <2>6. ASSUME NEW h \in Fh, ReadDirPlus(t, h) PROVE Local
    BY <2>6 DEF ReadDirPlus
  <2>7. CASE EntryGet(t)
    BY <2>7 DEF EntryGet
  <2>8. CASE EntryFail(t)
    BY <2>8 DEF EntryFail
  <2>9. CASE EntryDone(t)
    BY <2>9 DEF EntryDone
  <2>10. CASE OpenFail(t)
    BY <2>10 DEF OpenFail
  <2>11. CASE LeaseHandle(t)
    BY <2>11 DEF LeaseHandle
  <2>12. CASE CallbackDone(t)
    BY <2>12 DEF CallbackDone
  <2>13. CASE DropNode(t)
    BY <2>13 DEF DropNode
  <2>14. CASE ReleaseNode(t)
    BY <2>14 DEF ReleaseNode
  <2>15. CASE ReleaseDrained(t)
    BY <2>15 DEF ReleaseDrained
  <2>16. ASSUME NEW n \in Names, Emit(t, n) PROVE Local
    BY <2>16 DEF Emit
  <2>17. CASE PlusEntry(t)
    BY <2>17 DEF PlusEntry
  <2>18. CASE PlusFull(t)
    BY <2>18 DEF PlusFull
  <2>19. CASE PlusError(t)
    BY <2>19 DEF PlusError
  <2>20. CASE PlusOk(t)
    BY <2>20 DEF PlusOk
  <2>21. CASE PlusDrop(t)
    BY <2>21 DEF PlusDrop
  <2>22. CASE PlusUndone(t)
    BY <2>22 DEF PlusUndone
  <2>23. CASE PlusReplyLost(t)
    BY <2>23 DEF PlusReplyLost
  <2>24. CASE CountOpen(t) /\ id[t] \notin DOMAIN map
    BY <1>3, <2>24 DEF CountOpen
  <2> QED
    BY <1>6, <2>1, <2>2, <2>3, <2>4, <2>5, <2>6, <2>7, <2>8, <2>9, <2>10, <2>11, <2>12, <2>13,
       <2>14, <2>15, <2>16, <2>17, <2>18, <2>19, <2>20, <2>21, <2>22, <2>23, <2>24
       DEF QuietAction, TellAction
<1>7. ASSUME DirAction(t) PROVE Local
  <2>1. ASSUME NEW n \in Names, Mknod(t, n) \/ Create(t, n) PROVE Local
    <3>1. \E o \in {"mknod", "create"} : Start(t, o, Allocated, records + 1, 0, "entry")
      BY <2>1 DEF Mknod, Create, MakeNode
    <3> QED
      BY <3>1
  <2>2. ASSUME NEW n \in Names, Unlink(t, n) PROVE Local
    BY <2>2 DEF Unlink
  <2>3. ASSUME NEW n \in Names, NEW m \in Names, Rename(t, n, m) PROVE Local
    BY <2>3 DEF Rename
  <2>4. ASSUME NEW i \in Inos, NEW n \in Names, Link(t, i, n) PROVE Local
    BY <2>4 DEF Link
  <2> QED
    BY <1>7, <2>1, <2>2, <2>3, <2>4 DEF DirAction
<1>8. ASSUME OpenAction(t) PROVE Local
  <2>1. CASE CountOpen(t) /\ id[t] \in DOMAIN map
    BY <2>1 DEF CountOpen
  <2>2. CASE AddFile(t)
    BY <2>2 DEF AddFile
  <2>3. CASE ReleaseCount(t)
    BY <2>3 DEF ReleaseCount
  <2>4. ASSUME NEW h \in Fh, NEW i \in Inos, Release(t, h, i) PROVE Local
    BY <1>5, <2>4
  <2> QED
    BY <1>8, <2>1, <2>2, <2>3, <2>4 DEF OpenAction
<1> QED
  BY <1>6, <1>7, <1>8, SteadyCounts DEF Steady

\* Inode number i is record r with generation g.
Right(i, r, g) == i \in DOMAIN map /\ map[i].record = r /\ map[i].generation = g

\* What t, and the kernel, are told of in a step of t was right before it.
ToldLocal(t) ==
  /\ ListShape(t)'
  /\ Owes(t)' => Right(id'[t], want'[t], gen'[t])
  /\ \A a \in 1..Len(buffer'[t]) :
       Right(buffer'[t][a].ino, buffer'[t][a].record, buffer'[t][a].gen)
  /\ \A i \in Inos : klookup'[i] > 0 => Right(i, kident'[i].record, kident'[i].gen)

LEMMA ToldRight ==
  ASSUME TellInv
  PROVE  /\ \A t \in Threads : Owes(t) => Right(id[t], want[t], gen[t])
         /\ \A t \in Threads : \A a \in 1..Len(buffer[t]) :
              Right(buffer[t][a].ino, buffer[t][a].record, buffer[t][a].gen)
         /\ \A i \in Inos : klookup[i] > 0 => Right(i, kident[i].record, kident[i].gen)
<1>1. ToldInv
  BY ToldPins DEF TellInv
<1> QED
  BY <1>1 DEF ToldInv, TellInv, OwedInv, BufferInv, KernelInv, Right

\* A step of t that tells the kernel nothing, or what is right.
Tells(t) == /\ Steady(t) \/ TellAction(t)
            /\ PlusRetain(t) => Right(id[t], want[t], gen[t])

LEMMA TellTold ==
  ASSUME TellInv, NEW t \in Threads, Tells(t)
  PROVE  ToldLocal(t)
<1>1. /\ pc \in [Threads -> PCs] /\ op \in [Threads -> Ops] /\ id \in [Threads -> Inos \cup {0}]
      /\ want \in [Threads -> Nat] /\ gen \in [Threads -> Nat]
      /\ buffer \in [Threads -> Seq(Entry)]
      /\ klookup \in [Inos -> Nat] /\ kident \in [Inos -> [gen : Nat, record : Nat]]
  BY DEF TellInv, CountedInv, TypeOK
<1>2. TellShape(t) /\ ListShape(t) /\ TypeOK
  BY DEF TellInv, CountedInv, ListInv
<1>3. /\ \A u \in Threads : Owes(u) => Right(id[u], want[u], gen[u])
      /\ \A u \in Threads : \A a \in 1..Len(buffer[u]) :
           Right(buffer[u][a].ino, buffer[u][a].record, buffer[u][a].gen)
      /\ \A i \in Inos : klookup[i] > 0 => Right(i, kident[i].record, kident[i].gen)
  BY ToldRight
<1>4. pc[t] \in {"rdp_add", "reply"} => id[t] \in Inos
  BY <1>2 DEF TellShape, OwingPCs
<1>5. CASE Steady(t)
  <2>2. ListShape(t)'
    BY <1>2, <1>5 DEF Steady, ListShape
  <2>3. Owes(t)' => Right(id'[t], want'[t], gen'[t])
    BY <1>3, <1>5 DEF Steady
  <2>4. buffer' = buffer /\ klookup' = klookup /\ kident' = kident
    BY <1>5 DEF Steady
  <2> QED
    BY <1>3, <2>2, <2>3, <2>4 DEF ToldLocal
<1>6. CASE EntryRetain(t)
  <2>1. /\ id[t] \in DOMAIN map /\ UNCHANGED <<id, buffer, klookup, kident>>
        /\ gen'[t] = map[id[t]].generation /\ want'[t] = map[id[t]].record
        /\ pc'[t] = "entry_ref" /\ pc[t] = "entry_attr"
    BY <1>1, <1>6 DEF EntryRetain, RetainLookup, Goto, kernelVars
  <2>2. ListShape(t)'
    BY <1>2, <2>1 DEF ListShape, PlusPCs
  <2> QED
    BY <1>3, <2>1, <2>2 DEF ToldLocal, Right
<1>7. CASE PlusRetain(t)
  <2> DEFINE e == [ino |-> id[t], gen |-> gen[t], record |-> want[t], retained |-> TRUE]
  <2>1. pc[t] = "rdp_add" /\ id[t] \in DOMAIN map /\ Right(id[t], want[t], gen[t])
    BY <1>7 DEF PlusRetain, Tells, Right
  <2>2. /\ buffer'[t] = Append(buffer[t], e) /\ pc'[t] = "rdp" /\ op'[t] = op[t]
        /\ UNCHANGED <<klookup, kident>>
    BY <1>1, <1>7, <2>1 DEF PlusRetain, Goto, kernelVars
  <2>3. Right(e.ino, e.record, e.gen)
    BY <2>1
  <2>4. /\ e \in Entry
        /\ buffer[t] \in Seq(Entry) /\ Len(buffer[t]) \in Nat
    <3>1. id[t] \in Inos /\ gen[t] \in Nat /\ want[t] \in Nat /\ TRUE \in BOOLEAN
      BY <1>1, <1>4, <2>1
    <3>2. e \in Entry
      BY <3>1, Zenon DEF Entry
    <3> QED
      BY <1>1, <3>2
  <2>5. e.retained
    OBVIOUS
  <2> HIDE DEF e
  <2>6. /\ Len(buffer'[t]) = Len(buffer[t]) + 1
        /\ \A a \in 1..Len(buffer[t]) : buffer'[t][a] = buffer[t][a]
        /\ buffer'[t][Len(buffer[t]) + 1] = e
    BY <2>2, <2>4
  <2>7. Len(buffer[t]) < Cardinality(Names) /\ Cardinality(Names) \in Nat
    BY <1>2, <2>1, LookupSetsFinite DEF ListShape
  <2>8. \A a \in 1..Len(buffer'[t]) : a \in 1..Len(buffer[t]) \/ a = Len(buffer[t]) + 1
    BY <2>4, <2>6
  <2>9. ListShape(t)'
    BY <1>2, <2>2, <2>4, <2>5, <2>6, <2>7, <2>8 DEF ListShape, PlusPCs
  <2>10. ~Owes(t)'
    BY <2>2 DEF Owes, OwingPCs
  <2> QED
    BY <1>3, <2>2, <2>3, <2>6, <2>8, <2>9, <2>10 DEF ToldLocal
<1>8. CASE PlusUndo(t)
  <2>1. /\ buffer'[t] = Tail(buffer[t]) /\ buffer[t] # <<>> /\ UNCHANGED <<pc, op, klookup, kident>>
        /\ pc[t] = "rdp_undo"
    BY <1>1, <1>8 DEF PlusUndo, kernelVars
  <2>2. /\ Len(buffer'[t]) = Len(buffer[t]) - 1 /\ Len(buffer[t]) \in Nat
        /\ \A a \in 1..Len(buffer'[t]) :
             a + 1 \in 1..Len(buffer[t]) /\ buffer'[t][a] = buffer[t][a + 1]
    BY <1>1, <2>1
  <2>3. ListShape(t)'
    BY <1>2, <2>1, <2>2, LookupSetsFinite DEF ListShape, PlusPCs
  <2>4. ~Owes(t)'
    BY <2>1 DEF Owes, OwingPCs
  <2> QED
    BY <1>3, <2>1, <2>2, <2>3, <2>4 DEF ToldLocal
<1>9. ASSUME Finish(t),
             \A i \in Inos : klookup'[i] > 0 => Right(i, kident'[i].record, kident'[i].gen)
      PROVE  ToldLocal(t)
  <2>1. pc'[t] = "idle" /\ buffer'[t] = <<>>
    BY <1>1, <1>9 DEF Finish, Goto
  <2>2. Len(buffer'[t]) = 0 /\ 1..0 = {}
    BY <2>1
  <2> QED
    BY <1>9, <2>1, <2>2, LookupSetsFinite DEF ToldLocal, ListShape, Owes, OwingPCs
<1>10. CASE PlusReply(t)
  <2>1. Finish(t)
    BY <1>10 DEF PlusReply
  <2>2. ASSUME NEW i \in Inos, klookup'[i] > 0
        PROVE  Right(i, kident'[i].record, kident'[i].gen)
    <3>1. CASE EntriesFor(t, i) = {}
      <4>1. klookup'[i] = klookup[i] /\ kident'[i] = kident[i]
        <5>1. Cardinality(EntriesFor(t, i)) = 0
          BY <3>1, FS_EmptySet
        <5>2. klookup'[i] = klookup[i] + Cardinality(EntriesFor(t, i)) /\ klookup[i] \in Nat
          BY <1>1, <1>10 DEF PlusReply
        <5> QED
          BY <1>10, <3>1, <5>1, <5>2 DEF PlusReply
      <4> QED
        BY <1>3, <2>2, <4>1
    <3>2. CASE EntriesFor(t, i) # {}
      <4>1. kident'[i] = LastFor(t, i)
        BY <1>10, <3>2 DEF PlusReply
      <4>2. PICK a \in EntriesFor(t, i) :
              LastFor(t, i) = [gen |-> buffer[t][a].gen, record |-> buffer[t][a].record]
        BY <1>2, <3>2, LastForType
      <4>3. a \in 1..Len(buffer[t]) /\ buffer[t][a].ino = i
        BY DEF EntriesFor
      <4>4. kident'[i].record = buffer[t][a].record /\ kident'[i].gen = buffer[t][a].gen
        BY <4>1, <4>2
      <4>5. Right(buffer[t][a].ino, buffer[t][a].record, buffer[t][a].gen)
        BY <1>3, <4>3
      <4> QED
        BY <4>3, <4>4, <4>5
    <3> QED
      BY <3>1, <3>2
  <2> QED
    BY <1>9, <2>1, <2>2
<1>11. CASE Reply(t)
  <2>1. Finish(t)
    BY <1>11 DEF Reply
  <2>2. CASE op[t] = "open"
    <3>1. klookup' = klookup /\ kident' = kident
      BY <1>11, <2>2 DEF Reply
    <3> QED
      BY <1>3, <1>9, <2>1, <3>1
  <2>3. CASE op[t] # "open"
    <3>1. /\ klookup' = [klookup EXCEPT ![id[t]] = @ + 1]
          /\ kident' = [kident EXCEPT ![id[t]] = [gen |-> gen[t], record |-> want[t]]]
          /\ pc[t] = "reply"
      BY <1>11, <2>3 DEF Reply
    <3>2. Owes(t) /\ id[t] \in Inos
      BY <1>2, <1>4, <2>3, <3>1 DEF Owes, OwingPCs, TellShape
    <3>3. Right(id[t], want[t], gen[t])
      BY <1>3, <3>2
    <3>4. \A i \in Inos : klookup'[i] > 0 => Right(i, kident'[i].record, kident'[i].gen)
      BY <1>1, <1>3, <3>1, <3>2, <3>3
    <3> QED
      BY <1>9, <2>1, <3>4
  <2> QED
    BY <2>2, <2>3
<1>12. CASE PlusPanic(t) \/ ReplyLost(t)
  <2>1. Finish(t) /\ UNCHANGED <<klookup, kident>>
    BY <1>12 DEF PlusPanic, ReplyLost, kernelVars
  <2> QED
    BY <1>3, <1>9, <2>1
<1> QED
  BY <1>5, <1>6, <1>7, <1>8, <1>10, <1>11, <1>12 DEF Tells, TellAction

-----------------------------------------------------------------------------
(* Slot.lookups follows what the kernel is told *)

\* Its entries in the buffer leave it from the front.
LEMMA ListedUndo ==
  ASSUME CountedInv, NEW t \in Threads, PlusUndo(t), NEW i
  PROVE  /\ Cardinality(Listed(i)') =
              Cardinality(Listed(i)) - (IF Head(buffer[t]).ino = i THEN 1 ELSE 0)
         /\ Head(buffer[t]) = buffer[t][1] /\ 1 \in 1..Len(buffer[t])
<1>1. buffer \in [Threads -> Seq(Entry)] /\ Cardinality(Names) \in Nat /\ ListShape(t)
  BY LookupSetsFinite DEF CountedInv, TypeOK, ListInv
<1>2. buffer' = [buffer EXCEPT ![t] = Tail(buffer[t])] /\ buffer[t] # <<>>
  BY DEF PlusUndo
<1>3. /\ Len(buffer[t]) \in Nat /\ Len(buffer[t]) >= 1 /\ Len(buffer[t]) <= Cardinality(Names)
      /\ Len(buffer'[t]) = Len(buffer[t]) - 1 /\ Head(buffer[t]) = buffer[t][1]
      /\ \A a \in 1..(Len(buffer[t]) - 1) : buffer'[t][a] = buffer[t][a + 1]
      /\ \A u \in Threads \ {t} : buffer'[u] = buffer[u]
      /\ \A u \in Threads : Len(buffer[u]) \in Nat
  BY <1>1, <1>2 DEF ListShape
<1> DEFINE S == Listed(i) \ {<<t, 1>>}
           f == [k \in S |-> IF k[1] = t THEN <<t, k[2] - 1>> ELSE k]
<1>4. \A k \in S : /\ k = <<k[1], k[2]>> /\ k[1] \in Threads /\ k[2] \in 1..Len(buffer[k[1]])
                   /\ k[1] = t => k[2] # 1
                   /\ buffer[k[1]][k[2]].ino = i /\ buffer[k[1]][k[2]].retained
                   /\ k[2] <= Cardinality(Names)
  BY <1>1, <1>3 DEF Listed
<1>5. f \in [S -> Listed(i)']
  <2> SUFFICES ASSUME NEW k \in S PROVE f[k] \in Listed(i)'
    OBVIOUS
  <2>1. CASE k[1] = t
    <3>1. f[k] = <<t, k[2] - 1>>
      BY <2>1
    <3>2. /\ k[2] - 1 \in 1..(Len(buffer[t]) - 1) /\ k[2] - 1 \in 1..Cardinality(Names)
          /\ (k[2] - 1) + 1 = k[2]
      BY <1>1, <1>3, <1>4, <2>1
    <3>3. buffer'[t][k[2] - 1] = buffer[t][k[2]]
      BY <1>3, <3>2
    <3>4. k[2] - 1 <= Len(buffer'[t])
      BY <1>3, <3>2
    <3>5. buffer'[t][k[2] - 1].ino = i /\ buffer'[t][k[2] - 1].retained
      BY <1>4, <2>1, <3>3
    <3>6. <<t, k[2] - 1>> \in Listed(i)'
      BY <3>2, <3>4, <3>5 DEF Listed
    <3> QED
      BY <3>1, <3>6
  <2>2. CASE k[1] # t
    <3>1. f[k] = k
      BY <2>2
    <3> QED
      BY <1>3, <1>4, <2>2, <3>1 DEF Listed
  <2> QED
    BY <2>1, <2>2
<1>6. \A k, l \in S : f[k] = f[l] => k = l
  <2> SUFFICES ASSUME NEW k \in S, NEW l \in S, f[k] = f[l] PROVE k = l
    OBVIOUS
  <2>1. /\ k = <<k[1], k[2]>> /\ k[2] \in Nat
        /\ l = <<l[1], l[2]>> /\ l[2] \in Nat
    BY <1>4
  <2>2. /\ f[k] = IF k[1] = t THEN <<t, k[2] - 1>> ELSE k
        /\ f[l] = IF l[1] = t THEN <<t, l[2] - 1>> ELSE l
    OBVIOUS
  <2>3. CASE k[1] = t /\ l[1] = t
    <3>1. <<t, k[2] - 1>> = <<t, l[2] - 1>>
      BY <2>2, <2>3
    <3>2. k[2] - 1 = l[2] - 1
      BY <3>1
    <3>3. k[2] = l[2]
      BY <2>1, <3>2
    <3> QED
      BY <2>1, <2>3, <3>3
  <2>4. CASE k[1] = t /\ l[1] # t
    <3>1. <<t, k[2] - 1>> = <<l[1], l[2]>>
      BY <2>1, <2>2, <2>4
    <3> QED
      BY <2>4, <3>1
  <2>5. CASE k[1] # t /\ l[1] = t
    <3>1. <<t, l[2] - 1>> = <<k[1], k[2]>>
      BY <2>1, <2>2, <2>5
    <3> QED
      BY <2>5, <3>1
  <2>6. CASE k[1] # t /\ l[1] # t
    BY <2>2, <2>6
  <2> QED
    BY <2>3, <2>4, <2>5, <2>6
<1>7. \A l \in Listed(i)' : \E k \in S : f[k] = l
  <2> SUFFICES ASSUME NEW l \in Listed(i)' PROVE \E k \in S : f[k] = l
    OBVIOUS
  <2>1. /\ l = <<l[1], l[2]>> /\ l[1] \in Threads /\ l[2] \in 1..Cardinality(Names)
        /\ l[2] <= Len(buffer'[l[1]])
        /\ buffer'[l[1]][l[2]].ino = i /\ buffer'[l[1]][l[2]].retained
    BY DEF Listed
  <2>2. CASE l[1] = t
    <3> DEFINE k == <<t, l[2] + 1>>
    <3>1. l[2] \in 1..(Len(buffer[t]) - 1) /\ l[2] + 1 \in 1..Cardinality(Names)
      BY <1>1, <1>3, <2>1, <2>2
    <3>2. buffer[t][l[2] + 1] = buffer'[t][l[2]]
      BY <1>3, <3>1
    <3>3. k \in S
      BY <1>3, <2>1, <2>2, <3>1, <3>2 DEF Listed
    <3>4. f[k] = <<t, (l[2] + 1) - 1>>
      BY <3>3
    <3> QED
      BY <2>1, <2>2, <3>1, <3>3, <3>4
  <2>3. CASE l[1] # t
    <3>1. l \in S
      BY <1>3, <2>1, <2>3 DEF Listed
    <3> QED
      BY <2>3, <3>1
  <2> QED
    BY <2>2, <2>3
<1> HIDE DEF f
<1>8. ExistsBijection(S, Listed(i)')
  BY <1>5, <1>6, <1>7 DEF ExistsBijection, Bijection, Injection, Surjection, IsInjective
<1>9. IsFiniteSet(S)
  BY LookupSetsFinite, FS_RemoveElement
<1>10. Cardinality(Listed(i)') = Cardinality(S)
  BY <1>8, <1>9, FS_Bijection
<1>11. <<t, 1>> \in Listed(i) <=> Head(buffer[t]).ino = i
  <2>1. 1 \in 1..Cardinality(Names) /\ 1 \in 1..Len(buffer[t]) /\ buffer[t][1].retained
    BY <1>1, <1>3 DEF ListShape
  <2> QED
    BY <1>3, <2>1 DEF Listed
<1>12. Cardinality(S) = IF <<t, 1>> \in Listed(i) THEN Cardinality(Listed(i)) - 1
                        ELSE Cardinality(Listed(i))
  BY LookupSetsFinite, FS_RemoveElement
<1> QED
  BY <1>3, <1>10, <1>11, <1>12, LookupSetsFinite

\* They leave it together when the reply is sent, or given up.
LEMMA ListedClear ==
  ASSUME CountedInv, NEW t \in Threads, buffer' = [buffer EXCEPT ![t] = <<>>], NEW i
  PROVE  Cardinality(Listed(i)) = Cardinality(Listed(i)') + Cardinality(EntriesFor(t, i))
<1>1. buffer \in [Threads -> Seq(Entry)] /\ Cardinality(Names) \in Nat /\ ListShape(t)
  BY LookupSetsFinite DEF CountedInv, TypeOK, ListInv
<1> DEFINE E == {t} \X EntriesFor(t, i)
<1>2. IsFiniteSet(EntriesFor(t, i)) /\ Cardinality(EntriesFor(t, i)) \in Nat
  BY LastForType DEF CountedInv
<1>3. IsFiniteSet(E) /\ Cardinality(E) = 1 * Cardinality(EntriesFor(t, i))
  <2>1. IsFiniteSet({t}) /\ Cardinality({t}) = 1
    BY FS_Singleton
  <2> QED
    BY <1>2, <2>1, FS_Product
<1>4. /\ \A u \in Threads : Len(buffer[u]) \in Nat
      /\ buffer'[t] = <<>> /\ Len(buffer'[t]) = 0
      /\ \A u \in Threads \ {t} : buffer'[u] = buffer[u]
      /\ \A a \in 1..Len(buffer[t]) : a \in 1..Cardinality(Names) /\ buffer[t][a].retained
  BY <1>1 DEF ListShape
<1>5. E = Listed(i) \ Listed(i)'
  <2>1. \A a \in EntriesFor(t, i) : <<t, a>> \in Listed(i) /\ <<t, a>> \notin Listed(i)'
    BY <1>4 DEF EntriesFor, Listed
  <2>2. \A k \in Listed(i) : k \notin Listed(i)' => k[1] = t /\ k = <<t, k[2]>>
    BY <1>4 DEF Listed
  <2>3. \A k \in Listed(i) : k[1] = t => k[2] \in EntriesFor(t, i)
    BY <1>4 DEF Listed, EntriesFor
  <2> QED
    BY <2>1, <2>2, <2>3
<1>6. Listed(i)' \in SUBSET Listed(i)
  BY <1>4 DEF Listed
<1>7. Listed(i) \cap Listed(i)' = Listed(i)'
  BY <1>6
<1>8. Cardinality(E) = Cardinality(Listed(i)) - Cardinality(Listed(i)')
  BY <1>5, <1>7, LookupSetsFinite, FS_Difference
<1>9. Cardinality(Listed(i)') \in Nat
  BY <1>6, LookupSetsFinite, FS_Subset, FS_CardinalityType
<1> QED
  BY <1>2, <1>3, <1>8, <1>9, LookupSetsFinite

\* They join it at the end, with their lookup.
LEMMA ListedAdd ==
  ASSUME CountedInv, NEW t \in Threads, PlusRetain(t), id[t] \in DOMAIN map, NEW i
  PROVE  /\ id[t] \in Inos /\ RetainLookup(id[t])
         /\ Cardinality(Listed(i)') = Cardinality(Listed(i)) + (IF id[t] = i THEN 1 ELSE 0)
<1>1. /\ buffer \in [Threads -> Seq(Entry)] /\ Cardinality(Names) \in Nat /\ ListShape(t)
      /\ pc[t] = "rdp_add"
  BY LookupSetsFinite DEF CountedInv, TypeOK, ListInv, PlusRetain
<1>2. id[t] \in Inos
  BY <1>1 DEF CountedInv, TellShape
<1> DEFINE e == [ino |-> id[t], gen |-> gen[t], record |-> want[t], retained |-> TRUE]
           n == Len(buffer[t]) + 1
<1>4. RetainLookup(id[t]) /\ buffer' = [buffer EXCEPT ![t] = Append(buffer[t], e)]
  BY DEF PlusRetain
<1>5. e \in Entry
  <2>1. gen[t] \in Nat /\ want[t] \in Nat /\ TRUE \in BOOLEAN
    BY DEF CountedInv, TypeOK
  <2> QED
    BY <1>2, <2>1, Zenon DEF Entry
<1>6. e.ino = id[t] /\ e.retained
  OBVIOUS
<1> HIDE DEF e
<1>7. /\ \A u \in Threads : Len(buffer[u]) \in Nat
      /\ \A u \in Threads \ {t} : buffer'[u] = buffer[u]
      /\ Len(buffer'[t]) = n /\ buffer'[t][n] = e
      /\ \A a \in 1..Len(buffer[t]) : buffer'[t][a] = buffer[t][a]
      /\ n \in 1..Cardinality(Names)
  BY <1>1, <1>4, <1>5 DEF ListShape
<1>8. <<t, n>> \notin Listed(i)
  BY <1>7 DEF Listed
<1>9. CASE id[t] = i
  <2>1. Listed(i)' = Listed(i) \cup {<<t, n>>}
    <3>1. \A k \in Listed(i) : k \in Listed(i)'
      BY <1>7 DEF Listed
    <3>2. <<t, n>> \in Listed(i)'
      BY <1>6, <1>7, <1>9 DEF Listed
    <3>3. ASSUME NEW k \in Listed(i)' PROVE k \in Listed(i) \/ k = <<t, n>>
      <4>1. /\ k = <<k[1], k[2]>> /\ k[1] \in Threads /\ k[2] \in 1..Cardinality(Names)
            /\ k[2] <= Len(buffer'[k[1]])
            /\ buffer'[k[1]][k[2]].ino = i /\ buffer'[k[1]][k[2]].retained
        BY <3>3 DEF Listed
      <4>2. k[1] = t => k[2] = n \/ k[2] \in 1..Len(buffer[t])
        BY <1>7, <4>1
      <4> QED
        BY <1>7, <4>1, <4>2 DEF Listed
    <3> QED
      BY <3>1, <3>2, <3>3
  <2>2. Cardinality(Listed(i) \cup {<<t, n>>}) = Cardinality(Listed(i)) + 1
    BY <1>8, LookupSetsFinite, FS_AddElement
  <2> QED
    BY <1>2, <1>4, <1>9, <2>1, <2>2
<1>10. CASE id[t] # i
  <2>1. \A k \in Listed(i) : k \in Listed(i)'
    BY <1>7 DEF Listed
  <2>2. ASSUME NEW k \in Listed(i)' PROVE k \in Listed(i)
    <3>1. /\ k = <<k[1], k[2]>> /\ k[1] \in Threads /\ k[2] \in 1..Cardinality(Names)
          /\ k[2] <= Len(buffer'[k[1]])
          /\ buffer'[k[1]][k[2]].ino = i /\ buffer'[k[1]][k[2]].retained
      BY <2>2 DEF Listed
    <3>2. k[1] = t => k[2] \in 1..Len(buffer[t])
      BY <1>6, <1>7, <1>10, <3>1
    <3> QED
      BY <1>7, <3>1, <3>2 DEF Listed
  <2>3. Listed(i)' = Listed(i)
    BY <2>1, <2>2
  <2> QED
    BY <1>2, <1>4, <1>10, <2>3, LookupSetsFinite
<1> QED
  BY <1>9, <1>10

\* An entry reply is owed from the count of its lookup to its sending.
LEMMA OwedChange ==
  ASSUME NEW t \in Threads,
         \A u \in Threads \ {t} : pc'[u] = pc[u] /\ op'[u] = op[u] /\ id'[u] = id[u],
         NEW i
  PROVE  /\ Owes(t)' /\ id'[t] = i => Owed(i)' = Owed(i) \cup {t}
         /\ ~(Owes(t)' /\ id'[t] = i) => Owed(i)' = Owed(i) \ {t}
         /\ t \in Owed(i) <=> Owes(t) /\ id[t] = i
BY DEF Owed, Owes

\* What is in the hands of the others stays there.
OthersSame(t) ==
  \A u \in Threads \ {t} :
    /\ pc'[u] = pc[u] /\ op'[u] = op[u] /\ id'[u] = id[u] /\ want'[u] = want[u]
    /\ gen'[u] = gen[u] /\ buffer'[u] = buffer[u]

LEMMA TellLookups ==
  ASSUME TellInv, UNCHANGED faults, NEW t \in Threads, OthersSame(t), Tells(t)
  PROVE  LookupsInv'
<1>1. /\ klookup \in [Inos -> Nat] /\ LookupsOf \in [Inos -> Nat]
      /\ buffer \in [Threads -> Seq(Entry)] /\ id \in [Threads -> Inos \cup {0}]
      /\ pc \in [Threads -> PCs] /\ op \in [Threads -> Ops]
      /\ TableInv /\ TypeOK /\ TellShape(t) /\ ListShape(t) /\ CountedInv
  BY CountsType DEF TellInv, CountedInv, TypeOK, ListInv
<1>2. Recovered' <=> Recovered
  BY DEF Recovered
<1>3. \A u \in Threads \ {t} : pc'[u] = pc[u] /\ op'[u] = op[u] /\ id'[u] = id[u]
  BY DEF OthersSame
<1>4. \A i : /\ Cardinality(Owed(i)) \in Nat /\ Cardinality(Listed(i)) \in Nat
             /\ IsFiniteSet(Owed(i)) /\ IsFiniteSet(Listed(i))
  BY LookupSetsFinite
<1>5. \A i \in Inos :
        /\ LookupsOf[i] >= klookup[i] + Cardinality(Owed(i)) + Cardinality(Listed(i))
        /\ Recovered =>
             LookupsOf[i] = klookup[i] + Cardinality(Owed(i)) + Cardinality(Listed(i))
  BY <1>1 DEF CountedInv, LookupsInv
<1>6. ASSUME NEW i
      PROVE  /\ Owes(t)' /\ id'[t] = i =>
                  Cardinality(Owed(i)') =
                    Cardinality(Owed(i)) + (IF Owes(t) /\ id[t] = i THEN 0 ELSE 1)
             /\ ~(Owes(t)' /\ id'[t] = i) =>
                  Cardinality(Owed(i)') =
                    Cardinality(Owed(i)) - (IF Owes(t) /\ id[t] = i THEN 1 ELSE 0)
  <2>1. /\ Owes(t)' /\ id'[t] = i => Owed(i)' = Owed(i) \cup {t}
        /\ ~(Owes(t)' /\ id'[t] = i) => Owed(i)' = Owed(i) \ {t}
        /\ t \in Owed(i) <=> Owes(t) /\ id[t] = i
    BY <1>3, OwedChange
  <2>2. Cardinality(Owed(i) \cup {t}) =
          IF t \in Owed(i) THEN Cardinality(Owed(i)) ELSE Cardinality(Owed(i)) + 1
    BY <1>4, FS_AddElement
  <2>3. Cardinality(Owed(i) \ {t}) =
          IF t \in Owed(i) THEN Cardinality(Owed(i)) - 1 ELSE Cardinality(Owed(i))
    BY <1>4, FS_RemoveElement
  <2>4. CASE t \in Owed(i)
    <3>1. (Owes(t) /\ id[t] = i) /\ Cardinality(Owed(i)) \in Nat
      BY <1>4, <2>1, <2>4
    <3>2. Cardinality(Owed(i) \cup {t}) = Cardinality(Owed(i)) + 0
      BY <2>2, <2>4, <3>1
    <3>3. Cardinality(Owed(i) \ {t}) = Cardinality(Owed(i)) - 1
      BY <2>3, <2>4
    <3> QED
      BY <2>1, <3>1, <3>2, <3>3
  <2>5. CASE t \notin Owed(i)
    <3>1. ~(Owes(t) /\ id[t] = i) /\ Cardinality(Owed(i)) \in Nat
      BY <1>4, <2>1, <2>5
    <3>2. Cardinality(Owed(i) \cup {t}) = Cardinality(Owed(i)) + 1
      BY <2>2, <2>5
    <3>3. Cardinality(Owed(i) \ {t}) = Cardinality(Owed(i)) - 0
      BY <2>3, <2>5, <3>1
    <3> QED
      BY <2>1, <3>1, <3>2, <3>3
  <2> QED
    BY <2>4, <2>5
<1>7. ASSUME buffer' = buffer PROVE \A i : Listed(i)' = Listed(i)
  BY <1>7 DEF Listed
<1>8. pc[t] \notin PlusPCs => [buffer EXCEPT ![t] = <<>>] = buffer
  BY <1>1 DEF ListShape
<1>9. CASE Steady(t)
  <2>2. \A i : Cardinality(Owed(i)') = Cardinality(Owed(i)) /\ Listed(i)' = Listed(i)
    BY <1>4, <1>6, <1>7, <1>9 DEF Steady
  <2> QED
    BY <1>2, <1>5, <1>9, <2>2 DEF Steady, LookupsInv
<1>10. CASE EntryRetain(t)
  <2>1. /\ RetainLookup(id[t]) /\ id[t] \in Inos /\ UNCHANGED <<klookup, buffer, id, op>>
        /\ pc[t] = "entry_attr" /\ pc'[t] = "entry_ref"
    BY <1>1, <1>10 DEF EntryRetain, RetainLookup, kernelVars, Goto, TableInv, TableTypeOK
  <2>2. LookupsOf' = [LookupsOf EXCEPT ![id[t]] = @ + 1]
    BY <1>1, <2>1, RetainCounts
  <2>3. ~Owes(t) /\ Owes(t)' /\ id'[t] = id[t]
    BY <1>1, <2>1 DEF Owes, OwingPCs, TellShape, EntryPCs
  <2>4. \A i \in Inos :
          Cardinality(Owed(i)') = Cardinality(Owed(i)) + (IF id[t] = i THEN 1 ELSE 0)
    BY <1>4, <1>6, <2>3
  <2>5. \A i \in Inos : /\ LookupsOf'[i] = LookupsOf[i] + (IF id[t] = i THEN 1 ELSE 0)
                        /\ klookup'[i] = klookup[i] /\ Listed(i)' = Listed(i)
    BY <1>1, <1>7, <2>1, <2>2
  <2> SUFFICES ASSUME NEW i \in Inos
               PROVE  /\ LookupsOf'[i] >= klookup'[i] + Cardinality(Owed(i)') + Cardinality(Listed(i)')
                      /\ Recovered' =>
                           LookupsOf'[i] = klookup'[i] + Cardinality(Owed(i)') + Cardinality(Listed(i)')
    BY DEF LookupsInv
  <2>7. LookupsOf[i] \in Nat /\ klookup[i] \in Nat
    BY <1>1
  <2>8. CASE id[t] = i
    BY <1>2, <1>4, <1>5, <2>4, <2>5, <2>7, <2>8
  <2>9. CASE id[t] # i
    BY <1>2, <1>4, <1>5, <2>4, <2>5, <2>7, <2>9
  <2> QED
    BY <2>8, <2>9
<1>11. CASE PlusRetain(t)
  <2>1. RetainLookup(id[t]) /\ id[t] \in Inos
    BY <1>1, <1>11, ListedAdd DEF Tells, Right
  <2>2. \A i \in Inos :
          Cardinality(Listed(i)') = Cardinality(Listed(i)) + (IF id[t] = i THEN 1 ELSE 0)
    BY <1>1, <1>11, ListedAdd DEF Tells, Right
  <2>3. LookupsOf' = [LookupsOf EXCEPT ![id[t]] = @ + 1] /\ klookup' = klookup
    BY <1>1, <1>11, <2>1, RetainCounts DEF PlusRetain, kernelVars
  <2>4. ~Owes(t) /\ ~Owes(t)'
    BY <1>1, <1>11 DEF PlusRetain, Goto, Owes, OwingPCs
  <2>5. \A i \in Inos : Cardinality(Owed(i)') = Cardinality(Owed(i))
    BY <1>4, <1>6, <2>4
  <2>6. \A i \in Inos : /\ LookupsOf'[i] = LookupsOf[i] + (IF id[t] = i THEN 1 ELSE 0)
                        /\ klookup'[i] = klookup[i]
    BY <1>1, <2>1, <2>3
  <2> SUFFICES ASSUME NEW i \in Inos
               PROVE  /\ LookupsOf'[i] >= klookup'[i] + Cardinality(Owed(i)') + Cardinality(Listed(i)')
                      /\ Recovered' =>
                           LookupsOf'[i] = klookup'[i] + Cardinality(Owed(i)') + Cardinality(Listed(i)')
    BY DEF LookupsInv
  <2>7. LookupsOf[i] \in Nat /\ klookup[i] \in Nat
    BY <1>1
  <2>8. CASE id[t] = i
    BY <1>2, <1>4, <1>5, <2>2, <2>5, <2>6, <2>7, <2>8
  <2>9. CASE id[t] # i
    BY <1>2, <1>4, <1>5, <2>2, <2>5, <2>6, <2>7, <2>9
  <2> QED
    BY <2>8, <2>9
<1>12. CASE PlusUndo(t)
  <2> DEFINE e == Head(buffer[t])
  <2>1. \A i \in Inos :
          Cardinality(Listed(i)') = Cardinality(Listed(i)) - (IF e.ino = i THEN 1 ELSE 0)
    BY <1>1, <1>12, ListedUndo
  <2>2. e = buffer[t][1] /\ 1 \in 1..Len(buffer[t])
    BY <1>1, <1>12, ListedUndo
  <2>3. e \in Entry /\ e.retained
    BY <1>1, <2>2 DEF ListShape
  <2>4. e.ino \in Inos /\ e.ino \in DOMAIN map
    BY <1>1, <2>2, <2>3, ToldPins DEF ToldInv, Entry
  <2>5. Forget(e.ino, 1) /\ klookup' = klookup
    BY <1>12, <2>3, <2>4 DEF PlusUndo, kernelVars
  <2>6. LookupsOf' = [LookupsOf EXCEPT ![e.ino] = Minus(@, 1)]
    BY <1>1, <2>4, <2>5, ForgetCounts
  <2>7. ~Owes(t) /\ ~Owes(t)'
    BY <1>12 DEF PlusUndo, Owes, OwingPCs
  <2>8. \A i \in Inos : Cardinality(Owed(i)') = Cardinality(Owed(i))
    BY <1>4, <1>6, <2>7
  <2> HIDE DEF e
  <2>9. \A i \in Inos : Cardinality(Listed(i)') \in Nat
    <3>1. <<t, 1>> \in Listed(e.ino)
      BY <1>1, <2>2, <2>3, LookupSetsFinite DEF Listed, ListShape
    <3>2. Cardinality(Listed(e.ino)) # 0
      BY <1>4, <3>1, HasMember
    <3> QED
      BY <1>4, <2>1, <2>4, <3>2
  <2>10. LookupsOf[e.ino] >= 1 /\ LookupsOf' = [LookupsOf EXCEPT ![e.ino] = @ - 1]
    <3>1. Cardinality(Listed(e.ino)) >= 1
      BY <1>4, <2>1, <2>4, <2>9
    <3>2. LookupsOf[e.ino] >= 1
      BY <1>1, <1>4, <1>5, <2>4, <3>1
    <3> QED
      <4>1. LookupsOf[e.ino] \in Nat /\ Minus(LookupsOf[e.ino], 1) = LookupsOf[e.ino] - 1
        BY <1>1, <2>4, <3>2 DEF Minus
      <4> QED
        BY <2>6, <3>2, <4>1
  <2> QED
    BY <1>1, <1>2, <1>4, <1>5, <2>1, <2>4, <2>5, <2>8, <2>10 DEF LookupsInv
<1>13. CASE PlusReply(t)
  <2>1. /\ Finish(t) /\ UNCHANGED tableVars
        /\ klookup' = [i \in Inos |-> klookup[i] + Cardinality(EntriesFor(t, i))]
        /\ pc[t] = "rdp_reply"
    BY <1>13 DEF PlusReply
  <2>2. LookupsOf' = LookupsOf
    BY <2>1 DEF tableVars, LookupsOf
  <2>3. \A i : /\ Cardinality(Listed(i)) = Cardinality(Listed(i)') + Cardinality(EntriesFor(t, i))
               /\ Cardinality(EntriesFor(t, i)) \in Nat
    BY <1>1, <2>1, ListedClear, LastForType DEF Finish
  <2>4. ~Owes(t) /\ ~Owes(t)'
    BY <1>1, <2>1 DEF Finish, Goto, Owes, OwingPCs
  <2>5. \A i \in Inos : Cardinality(Owed(i)') = Cardinality(Owed(i))
    BY <1>4, <1>6, <2>4
  <2>6. \A i \in Inos : /\ klookup'[i] = klookup[i] + Cardinality(EntriesFor(t, i))
                        /\ Cardinality(Listed(i)') \in Int
    <3>2. \A i : Listed(i)' \in SUBSET Listed(i)
      BY <1>1, <2>1 DEF Listed, Finish
    <3>3. \A i : IsFiniteSet(Listed(i)')
      BY <1>4, <3>2, FS_Subset
    <3> QED
      BY <2>1, <3>3, FS_CardinalityType
  <2> QED
    BY <1>1, <1>2, <1>4, <1>5, <2>2, <2>3, <2>5, <2>6 DEF LookupsInv
<1>14. CASE Reply(t) \/ ReplyLost(t)
  <2>1. Finish(t) /\ UNCHANGED tableVars /\ pc[t] = "reply"
    BY <1>14 DEF Reply, ReplyLost
  <2>2. LookupsOf' = LookupsOf
    BY <2>1 DEF tableVars, LookupsOf
  <2>3. \A i : Listed(i)' = Listed(i)
    BY <1>7, <1>8, <2>1 DEF Finish, PlusPCs
  <2>4. ~Owes(t)' /\ (Owes(t) <=> op[t] # "open") /\ id[t] \in Inos
    BY <1>1, <2>1 DEF Finish, Goto, Owes, OwingPCs, TellShape, EntryOps, DirWriters
  <2>5. \A i \in Inos :
          Cardinality(Owed(i)') =
            Cardinality(Owed(i)) - (IF op[t] # "open" /\ id[t] = i THEN 1 ELSE 0)
    BY <1>4, <1>6, <2>4
  <2>6. CASE op[t] = "open" /\ Reply(t)
    BY <1>2, <1>4, <1>5, <2>2, <2>3, <2>5, <2>6 DEF Reply, LookupsInv
  <2>7. CASE op[t] # "open" /\ Reply(t)
    <3>1. klookup' = [klookup EXCEPT ![id[t]] = @ + 1]
      BY <2>7 DEF Reply
    <3> QED
      BY <1>1, <1>2, <1>4, <1>5, <2>2, <2>3, <2>4, <2>5, <2>7, <3>1 DEF LookupsInv
  <2>8. CASE ReplyLost(t)
    <3>1. klookup' = klookup /\ ~Recovered
      BY <2>8 DEF ReplyLost, kernelVars, Recovered
    <3>2. \A i \in Inos : /\ Cardinality(Owed(i)') <= Cardinality(Owed(i))
                          /\ Cardinality(Owed(i)') \in Int
      BY <1>4, <2>5
    <3> QED
      BY <1>1, <1>2, <1>4, <1>5, <2>2, <2>3, <3>1, <3>2 DEF LookupsInv
  <2> QED
    BY <1>14, <2>6, <2>7, <2>8
<1>15. CASE PlusPanic(t)
  <2>1. UNCHANGED <<LookupsOf, klookup>> /\ ~Recovered
    BY <1>1, <1>15, QuietCounts DEF PlusPanic, Recovered, kernelVars, Threads
  <2>2. ~Owes(t) /\ ~Owes(t)' /\ buffer' = [buffer EXCEPT ![t] = <<>>]
    BY <1>1, <1>15 DEF PlusPanic, Finish, Goto, Owes, OwingPCs
  <2>3. \A i \in Inos : Cardinality(Owed(i)') = Cardinality(Owed(i))
    BY <1>4, <1>6, <2>2
  <2>4. \A i : /\ Cardinality(Listed(i)') <= Cardinality(Listed(i))
               /\ Cardinality(Listed(i)') \in Nat
    <3>1. \A i : Listed(i)' \in SUBSET Listed(i)
      BY <1>1, <2>2 DEF Listed
    <3> QED
      BY <1>4, <3>1, FS_Subset, FS_CardinalityType
  <2> QED
    BY <1>1, <1>2, <1>4, <1>5, <2>1, <2>3, <2>4 DEF LookupsInv
<1> QED
  BY <1>9, <1>10, <1>11, <1>12, <1>13, <1>14, <1>15 DEF Tells, TellAction

\* What the kernel is told stays right: the number is pinned by its lookup.
LEMMA TellKept ==
  ASSUME TellInv, UNCHANGED faults, NEW t \in Threads, OthersSame(t), Tells(t),
         Operation, TableInv', TypeOK', \A u \in Threads : TellShape(u)'
  PROVE  TellInv'
<1>1. ToldLocal(t)
  BY TellTold
<1>2. \A u \in Threads \ {t} :
        /\ pc'[u] = pc[u] /\ op'[u] = op[u] /\ id'[u] = id[u] /\ want'[u] = want[u]
        /\ gen'[u] = gen[u] /\ buffer'[u] = buffer[u]
  BY DEF OthersSame
<1>3. /\ \A u \in Threads : Owes(u) => Right(id[u], want[u], gen[u])
      /\ \A u \in Threads : \A a \in 1..Len(buffer[u]) :
           Right(buffer[u][a].ino, buffer[u][a].record, buffer[u][a].gen)
  BY ToldRight
<1>4. ListInv'
  BY <1>1, <1>2 DEF TellInv, CountedInv, ListInv, ListShape, ToldLocal
<1>0. CountedInv'
  BY <1>4, TellLookups DEF CountedInv
<1>5. ToldInv'
  BY <1>0, ToldPinsNext
<1>6. ASSUME NEW i, NEW r, NEW g, Right(i, r, g), i \in DOMAIN map'
      PROVE  map'[i].record = r /\ map'[i].generation = g
  BY <1>6, OperationKeepsNodes DEF Right, SameNode, TellInv, CountedInv
<1>7. OwedInv'
  <2> SUFFICES ASSUME NEW u \in Threads, Owes(u)'
               PROVE  map'[id'[u]].record = want'[u] /\ map'[id'[u]].generation = gen'[u]
    BY DEF OwedInv
  <2>1. Right(id'[u], want'[u], gen'[u])
    <3>1. CASE u = t
      BY <1>1, <3>1 DEF ToldLocal
    <3>2. CASE u # t
      BY <1>2, <1>3, <3>2 DEF Owes
    <3> QED
      BY <3>1, <3>2
  <2> QED
    BY <1>5, <1>6, <2>1 DEF ToldInv
<1>8. BufferInv'
  <2> SUFFICES ASSUME NEW u \in Threads, NEW a \in 1..Len(buffer'[u])
               PROVE  /\ map'[buffer'[u][a].ino].record = buffer'[u][a].record
                      /\ map'[buffer'[u][a].ino].generation = buffer'[u][a].gen
    BY DEF BufferInv
  <2>1. Right(buffer'[u][a].ino, buffer'[u][a].record, buffer'[u][a].gen)
    <3>1. CASE u = t
      BY <1>1, <3>1 DEF ToldLocal
    <3>2. CASE u # t
      BY <1>2, <1>3, <3>2
    <3> QED
      BY <3>1, <3>2
  <2> QED
    BY <1>5, <1>6, <2>1 DEF ToldInv
<1>9. KernelInv'
  <2> SUFFICES ASSUME NEW i \in Inos, klookup'[i] > 0
               PROVE  map'[i].record = kident'[i].record /\ map'[i].generation = kident'[i].gen
    BY DEF KernelInv
  <2>1. Right(i, kident'[i].record, kident'[i].gen)
    BY <1>1 DEF ToldLocal
  <2> QED
    BY <1>5, <1>6, <2>1 DEF ToldInv
<1> QED
  BY <1>0, <1>7, <1>8, <1>9 DEF TellInv

\* A forget takes back what the kernel was told.
LEMMA ForgetTell ==
  ASSUME TellInv, NEW i \in Inos, NEW n \in 1..MaxLookups, KernelForget(i, n), UNCHANGED faults,
         TableInv', TypeOK'
  PROVE  TellInv'
<1>0. /\ TableInv /\ n \in Nat /\ klookup \in [Inos -> Nat] /\ LookupsOf \in [Inos -> Nat]
      /\ buffer \in [Threads -> Seq(Entry)]
  BY RuntimeBoundsNat, CountsType DEF TellInv, CountedInv, TypeOK
<1>1. IF i \in DOMAIN map THEN Forget(i, n) ELSE UNCHANGED tableVars
  BY DEF KernelForget
<1>2. Operation
  BY <1>0, <1>1 DEF Operation, Counting
<1>3. \A j \in DOMAIN map \cap DOMAIN map' :
        map'[j].record = map[j].record /\ map'[j].generation = map[j].generation
  BY <1>0, <1>2, OperationKeepsNodes DEF SameNode
<1>4. /\ UNCHANGED <<kident, pc, op, id, want, gen, buffer>>
      /\ klookup' = [klookup EXCEPT ![i] = @ - n] /\ n <= klookup[i]
  BY DEF KernelForget, threadVars, requestVars
<1>6. ToldInv
  BY ToldPins DEF TellInv
<1>11. \A j : Owed(j)' = Owed(j) /\ Listed(j)' = Listed(j)
  BY <1>4 DEF Owed, Owes, Listed
<1>12. LookupsInv'
  <2>1. LookupsOf' = [LookupsOf EXCEPT ![i] = Minus(@, n)]
    BY <1>0, <1>1, ForgetCounts
  <2>2. \A j \in Inos :
          /\ LookupsOf[j] >= klookup[j] + Cardinality(Owed(j)) + Cardinality(Listed(j))
          /\ Recovered =>
               LookupsOf[j] = klookup[j] + Cardinality(Owed(j)) + Cardinality(Listed(j))
          /\ Cardinality(Owed(j)) \in Nat /\ Cardinality(Listed(j)) \in Nat
    BY LookupSetsFinite DEF TellInv, CountedInv, LookupsInv
  <2>3. Minus(LookupsOf[i], n) = LookupsOf[i] - n
    BY <1>0, <1>4, <2>2 DEF Minus
  <2>4. \A j \in Inos : /\ LookupsOf'[j] = LookupsOf[j] - (IF j = i THEN n ELSE 0)
                        /\ klookup'[j] = klookup[j] - (IF j = i THEN n ELSE 0)
    BY <1>0, <1>4, <2>1, <2>3
  <2>5. Recovered' <=> Recovered
    BY DEF Recovered
  <2> SUFFICES ASSUME NEW j \in Inos
               PROVE  /\ LookupsOf'[j] >= klookup'[j] + Cardinality(Owed(j)) + Cardinality(Listed(j))
                      /\ Recovered =>
                           LookupsOf'[j] = klookup'[j] + Cardinality(Owed(j)) + Cardinality(Listed(j))
    BY <1>11, <2>5 DEF LookupsInv
  <2>6. LookupsOf[j] \in Nat /\ klookup[j] \in Nat
    BY <1>0
  <2>7. CASE j = i
    BY <1>0, <2>2, <2>4, <2>6, <2>7
  <2>8. CASE j # i
    BY <2>2, <2>4, <2>6, <2>8
  <2> QED
    BY <2>7, <2>8
<1>13. ListInv'
  BY <1>4 DEF TellInv, CountedInv, ListInv, ListShape
<1>5. CountedInv'
  BY <1>4, <1>12, <1>13 DEF TellInv, CountedInv, TellShape
<1>14. ToldInv'
  BY <1>5, ToldPinsNext
<1>15. OwedInv'
  <2>1. \A t \in Threads : Owes(t)' => Owes(t)
    BY <1>4 DEF Owes
  <2> QED
    BY <1>3, <1>4, <1>6, <1>14, <2>1 DEF TellInv, OwedInv, ToldInv
<1>16. BufferInv'
  BY <1>3, <1>4, <1>6, <1>14 DEF TellInv, BufferInv, ToldInv
<1>17. KernelInv'
  <2>1. \A j \in Inos : klookup'[j] > 0 => klookup[j] > 0
    BY <1>0, <1>4
  <2> QED
    BY <1>3, <1>4, <1>6, <1>14, <2>1 DEF TellInv, KernelInv, ToldInv
<1> QED
  BY <1>5, <1>15, <1>16, <1>17 DEF TellInv

LEMMA LockedTold ==
  ASSUME Serial, AnyOrderInv, AnyOrderInv', LockedInv, UNCHANGED faults,
         NEW t \in Threads, LocalAction(t) \/ OpenAction(t)
  PROVE  LookupsInv' /\ ListInv' /\ OwedInv' /\ BufferInv' /\ KernelInv'
<1>1. TellInv
  BY TellHolds
<1>2. OthersSame(t)
  BY LocalSteps, OpenLocally, OneThread DEF QuietLocal, OthersSame
<1>3. Operation /\ TableInv' /\ TypeOK'
  BY LocalOperation, OpenOperation DEF AnyOrderInv
<1>4. \A u \in Threads : TellShape(u)'
  BY DEF AnyOrderInv, ShapeInv, Shape, TellShape, EntryPCs, OwingPCs, EntryOps, OpenOps,
     PlusPCs, DirWriters
<1>5. Steady(t) \/ TellAction(t)
  BY SteadySteps DEF LocalAction, TellAction
<1>6. ASSUME PlusRetain(t) PROVE Right(id[t], want[t], gen[t])
  <2>1. Targets(t) /\ pc[t] = "rdp_add" /\ id[t] \in Inos
    BY <1>6 DEF PlusRetain, Targets, AnyOrderInv, ShapeInv, Shape, PlusPCs
  <2> QED
    BY <2>1, NamesThere, InosFacts DEF LockedInv, TargetInv, Right
<1>7. TellInv'
  BY <1>1, <1>2, <1>3, <1>4, <1>5, <1>6, TellKept DEF Tells
<1> QED
  BY <1>7 DEF TellInv, CountedInv

-----------------------------------------------------------------------------
(* No file is left without an owner *)

\* A request keeps its new file until it has answered.
LEMMA KeepsFile ==
  ASSUME AnyOrderInv, NEW t \in Threads, LocalAction(t), Holds(t), ~Reply(t), ~ReplyLost(t)
  PROVE  Holds(t)' /\ fh'[t] = fh[t]
<1>1. /\ pc \in [Threads -> PCs] /\ op \in [Threads -> Ops] /\ fh \in [Threads -> Fh \cup {0}]
      /\ Shape(t)
  BY DEF AnyOrderInv, TypeOK, ShapeInv
<1> USE <1>1 DEF Goto, Start, Finish, StartOnNode, requestVars, threadVars, Holds,
        Shape, PCs, Ops, DirWriters, DirReaders,
        EntryOps, OpenOps, OpeningPCs, EntryPCs, ReleasePCs, PlusPCs
<1> DEFINE Keeps == Holds(t)' /\ fh'[t] = fh[t]
<1>2. ASSUME QuietAction(t) PROVE Keeps
  <2>1. ASSUME NEW n \in Names, Lookup(t, n) PROVE Keeps
    BY <2>1 DEF Lookup
  <2>2. ASSUME NEW n \in Names, Revalidate(t, n) PROVE Keeps
    BY <2>2 DEF Revalidate
  <2>3. ASSUME NEW n \in Names, Emit(t, n) PROVE Keeps
    BY <2>3 DEF Emit
  <2>4. ASSUME NEW i \in Inos, Open(t, i) PROVE Keeps
    BY <2>4 DEF Open
  <2>5. ASSUME NEW i \in Inos, OnNode(t, i) PROVE Keeps
    BY <2>5 DEF OnNode
  <2>6. ASSUME NEW h \in Fh, NEW i \in Inos, OnFile(t, h, i) PROVE Keeps
    BY <2>6 DEF OnFile
  <2>7. ASSUME NEW h \in Fh, ReadDirPlus(t, h) PROVE Keeps
    BY <2>7 DEF ReadDirPlus
  <2>8. CASE EntryGet(t)
    BY <2>8 DEF EntryGet
  <2>9. CASE EntryFail(t)
    BY <2>9 DEF EntryFail
  <2>10. CASE EntryDone(t)
    BY <2>10 DEF EntryDone
  <2>11. CASE OpenFail(t)
    BY <2>11 DEF OpenFail
  <2>12. CASE LeaseHandle(t)
    BY <2>12 DEF LeaseHandle
  <2>13. CASE CallbackDone(t)
    BY <2>13 DEF CallbackDone
  <2>14. CASE DropNode(t)
    BY <2>14 DEF DropNode
  <2>15. CASE ReleaseNode(t)
    BY <2>15 DEF ReleaseNode
  <2>16. CASE ReleaseDrained(t)
    BY <2>16 DEF ReleaseDrained
  <2>17. CASE PlusEntry(t)
    BY <2>17 DEF PlusEntry
  <2>18. CASE PlusFull(t)
    BY <2>18 DEF PlusFull
  <2>19. CASE PlusError(t)
    BY <2>19 DEF PlusError
  <2>20. CASE PlusPanic(t)
    BY <2>20 DEF PlusPanic
  <2>21. CASE PlusOk(t)
    BY <2>21 DEF PlusOk
  <2>22. CASE PlusDrop(t)
    BY <2>22 DEF PlusDrop
  <2>23. CASE PlusUndone(t)
    BY <2>23 DEF PlusUndone
  <2>24. CASE PlusReplyLost(t)
    BY <2>24 DEF PlusReplyLost
  <2>25. CASE CountOpen(t) /\ id[t] \notin DOMAIN map
    BY <2>25 DEF CountOpen
  <2> QED
    BY <1>2, <2>1, <2>2, <2>3, <2>4, <2>5, <2>6, <2>7, <2>8, <2>9, <2>10, <2>11, <2>12,
       <2>13, <2>14, <2>15, <2>16, <2>17, <2>18, <2>19, <2>20, <2>21, <2>22, <2>23, <2>24,
       <2>25
       DEF QuietAction
<1>3. ASSUME DirAction(t) PROVE Keeps
  BY <1>3 DEF DirAction, Mknod, Create, MakeNode, Link, Unlink, Rename
<1>4. CASE EntryRetain(t)
  BY <1>4 DEF EntryRetain
<1>5. CASE PlusRetain(t)
  BY <1>5 DEF PlusRetain
<1>6. CASE PlusUndo(t)
  BY <1>6 DEF PlusUndo
<1>7. CASE PlusReply(t)
  BY <1>7 DEF PlusReply
<1> QED
  BY <1>2, <1>3, <1>4, <1>5, <1>6, <1>7 DEF LocalAction

LEMMA LockedFiles ==
  ASSUME AnyOrderInv, LockedInv, UNCHANGED faults, NEW t \in Threads, LocalAction(t) \/ OpenAction(t)
  PROVE  FilesInv'
<1> SUFFICES ASSUME Recovered, NEW h \in DOMAIN files'
             PROVE  \/ \E k \in kopen' : k[1] = h
                    \/ \E u \in Threads : Holds(u)' /\ fh'[u] = h
  BY DEF FilesInv, Recovered
<1>1. /\ pc \in [Threads -> PCs] /\ op \in [Threads -> Ops] /\ fh \in [Threads -> Fh \cup {0}]
      /\ Shape(t)
  BY DEF AnyOrderInv, TypeOK, ShapeInv
<1>2. \A u \in Threads \ {t} : Holds(u) => Holds(u)' /\ fh'[u] = fh[u]
  <2>1. \A u \in Threads \ {t} : op'[u] = op[u] /\ fh'[u] = fh[u]
    BY LocalSteps, OpenLocally, OneThread DEF QuietLocal
  <2> QED
    BY <2>1 DEF Holds
<1>3. h \in DOMAIN files => \/ \E k \in kopen : k[1] = h
                            \/ \E u \in Threads : Holds(u) /\ fh[u] = h
  BY DEF LockedInv, FilesInv
<1>4. CASE LocalAction(t)
  <2>1. files' = files
    BY <1>4, LocalOperation
  <2>2. CASE Reply(t)
    <3>1. kopen' = IF op[t] \in OpenOps THEN kopen \cup {<<fh[t], id[t]>>} ELSE kopen
      BY <2>2 DEF Reply, OpenOps
    <3>2. Holds(t) => <<fh[t], id[t]>> \in kopen' /\ <<fh[t], id[t]>>[1] = fh[t]
      BY <3>1 DEF Holds
    <3>3. kopen \subseteq kopen'
      BY <3>1
    <3> QED
      BY <1>2, <1>3, <2>1, <3>2, <3>3
  <2>3. CASE ReplyLost(t)
    <3>1. FALSE
      BY <2>3 DEF ReplyLost, Recovered
    <3> QED
      BY <3>1
  <2>4. CASE ~Reply(t) /\ ~ReplyLost(t)
    <3>1. kopen' = kopen
      BY <1>4, <2>4, KernelTypes
    <3>2. Holds(t) => Holds(t)' /\ fh'[t] = fh[t]
      BY <1>4, <2>4, KeepsFile
    <3> QED
      BY <1>2, <1>3, <2>1, <3>1, <3>2
  <2> QED
    BY <2>2, <2>3, <2>4
<1>5. CASE CountOpen(t) /\ id[t] \in DOMAIN map
  <2>1. files' = files /\ kopen' = kopen /\ op' = op /\ fh' = fh
    BY <1>5 DEF CountOpen, handleVars, kernelVars, requestVars
  <2> QED
    BY <1>3, <2>1 DEF Holds
<1>6. CASE AddFile(t)
  <2>1. /\ files' = [g \in DOMAIN files \cup {next_fh} |->
                       IF g = next_fh THEN [ino |-> id[t], record |-> want[t]] ELSE files[g]]
        /\ kopen' = kopen /\ op'[t] = op[t] /\ fh'[t] = next_fh /\ pc[t] = "add_file"
    BY <1>1, <1>6 DEF AddFile, kernelVars
  <2>2. next_fh # 0 /\ op[t] \in OpenOps /\ fh[t] = 0
    BY <1>1, <2>1, RuntimeBoundsNat DEF AnyOrderInv, TypeOK, Shape
  <2>3. h \in DOMAIN files \/ h = next_fh
    BY <2>1
  <2> QED
    BY <1>2, <1>3, <2>1, <2>2, <2>3 DEF Holds
<1>7. CASE ReleaseCount(t)
  <2>1. files' = files /\ kopen' = kopen /\ op' = op /\ fh' = fh
    BY <1>7 DEF ReleaseCount, handleVars, kernelVars, requestVars
  <2> QED
    BY <1>3, <2>1 DEF Holds
<1>8. ASSUME NEW g \in Fh, NEW i \in Inos, Release(t, g, i)
      PROVE  \/ \E k \in kopen' : k[1] = h
             \/ \E u \in Threads : Holds(u)' /\ fh'[u] = h
  <2>1. /\ files' = [f \in DOMAIN files \ {g} |-> files[f]]
        /\ kopen' = kopen \ {<<g, i>>} /\ pc[t] = "idle"
    BY <1>8, ReleaseFinds DEF Release
  <2>2. ~Holds(t)
    BY <1>1, <2>1 DEF Holds, Shape, OpenOps
  <2> QED
    BY <1>2, <1>3, <2>1, <2>2
<1> QED
  BY <1>4, <1>5, <1>6, <1>7, <1>8 DEF OpenAction

-----------------------------------------------------------------------------
(* forget and forget_multi may come at any time *)

LEMMA ForgetLocked ==
  ASSUME AnyOrderInv, AnyOrderInv', LockedInv, NEW i \in Inos, NEW n \in 1..MaxLookups,
         KernelForget(i, n), UNCHANGED faults
  PROVE  LockedInv'
<1>0. TableInv /\ n \in Nat
  BY RuntimeBoundsNat DEF AnyOrderInv
<1>1. IF i \in DOMAIN map THEN Forget(i, n) ELSE UNCHANGED tableVars
  BY DEF KernelForget
<1>2. Operation
  BY <1>0, <1>1 DEF Operation, Counting
<1>3. \A j \in DOMAIN map \cap DOMAIN map' :
        map'[j].record = map[j].record /\ map'[j].generation = map[j].generation
  BY <1>0, <1>2, OperationKeepsNodes DEF SameNode
<1>4. /\ UNCHANGED <<names, files, next_fh, kident, kopen, pc, op, id, want, gen, fh, buffer>>
      /\ klookup' = [klookup EXCEPT ![i] = @ - n] /\ n <= klookup[i]
  BY DEF KernelForget, fsVars, handleVars, threadVars, requestVars
<1>5. ref' = ref
  BY <1>1 DEF Forget, tableVars
<1>6. PinInv /\ PinInv'
  BY Pins, PinsNext
<1>7. LockInv'
  BY <1>4 DEF LockedInv, LockInv
<1>8. TargetInv'
  <2> SUFFICES ASSUME NEW t \in Threads, Targets(t)
               PROVE  /\ \E m \in Names : names[m] = id[t]
                      /\ map'[id[t]].record = want[t]
                      /\ pc[t] = "rdp_add" => map'[id[t]].generation = gen[t]
    BY <1>4 DEF TargetInv, Targets
  <2>1. id[t] # 0
    BY InosFacts DEF AnyOrderInv, ShapeInv, Shape, Targets
  <2>2. id[t] \in DOMAIN map \cap DOMAIN map'
    BY <1>4, <1>6, <2>1 DEF LockedInv, TargetInv, PinInv
  <2> QED
    BY <1>3, <2>2 DEF LockedInv, TargetInv
<1>9. RefInv'
  BY <1>4, <1>5 DEF LockedInv, RefInv
<1>10. KeepInv'
  BY <1>3, <1>4, <1>6 DEF LockedInv, KeepInv, PinInv
<1>11. TellInv'
  BY TellHolds, ForgetTell DEF AnyOrderInv
<1>12. LookupsInv' /\ OwedInv' /\ ListInv' /\ BufferInv' /\ KernelInv'
  BY <1>11 DEF TellInv, CountedInv
<1>18. FilesInv'
  BY <1>4 DEF LockedInv, FilesInv, Recovered, Holds
<1> QED
  BY <1>7, <1>8, <1>9, <1>10, <1>12, <1>18 DEF LockedInv

LEMMA LockedInit == Init => LockedInv
<1> SUFFICES ASSUME Init PROVE LockedInv
  OBVIOUS
<1>0. AnyOrderInv
  BY AnyOrderInit
<1>1. /\ LockInv /\ TargetInv /\ RefInv /\ KeepInv
  BY DEF Init, LockInv, TargetInv, Targets, RefInv, KeepInv, OpeningPCs, DirWriters
<1>2. OwedInv /\ KernelInv
  BY DEF Init, OwedInv, Owes, OwingPCs, KernelInv
<1>3. ListInv /\ BufferInv
  BY LookupSetsFinite DEF Init, ListInv, ListShape, BufferInv
<1>4. FilesInv
  BY DEF Init, FilesInv
<1>5. LookupsInv
  <2>1. \A i \in Inos : LookupsOf[i] = 0 /\ klookup[i] = 0
    BY DEF Init, TableInit, LookupsOf, NewSlot
  <2>2. \A i \in Inos : Owed(i) = {} /\ Listed(i) = {}
    BY DEF Init, Owed, Owes, OwingPCs, Listed
  <2> QED
    BY <2>1, <2>2, FS_EmptySet DEF LookupsInv
<1> QED
  BY <1>1, <1>2, <1>3, <1>4, <1>5 DEF LockedInv

LEMMA LockedStep ==
  ASSUME Serial
  PROVE  AnyOrderInv /\ LockedInv /\ [Next]_vars => LockedInv'
<1> SUFFICES ASSUME AnyOrderInv, LockedInv, [Next]_vars PROVE LockedInv'
  OBVIOUS
<1>0. AnyOrderInv'
  BY AnyOrderStep
<1>1. ASSUME UNCHANGED faults, NEW t \in Threads, LocalAction(t) \/ OpenAction(t)
      PROVE  LockedInv'
  BY <1>0, <1>1, LockedNodes, LockedTold, LockedFiles DEF LockedInv
<1>2. CASE Next
  BY <1>0, <1>1, <1>2, NextKinds, ForgetLocked
<1>3. CASE UNCHANGED vars
  <2>1. /\ UNCHANGED <<faults, map, ref, names, files, next_fh, klookup, kident, kopen>>
        /\ UNCHANGED <<pc, op, id, want, gen, fh, buffer>>
    BY <1>3 DEF vars, tableVars, fsVars, handleVars, kernelVars, threadVars, requestVars
  <2>2. LockInv' /\ TargetInv' /\ RefInv' /\ KeepInv' /\ ListInv' /\ FilesInv'
    BY <2>1 DEF LockedInv, LockInv, TargetInv, Targets, RefInv, KeepInv, ListInv, ListShape, FilesInv,
       Recovered, Holds
  <2>3. OwedInv' /\ BufferInv' /\ KernelInv' /\ LookupsInv'
    BY <2>1 DEF LockedInv, OwedInv, Owes, BufferInv, KernelInv, LookupsInv, LookupsOf, Owed,
       Listed, Recovered
  <2> QED
    BY <2>2, <2>3 DEF LockedInv
<1> QED
  BY <1>2, <1>3

\* With the kernel's directory lock, the whole invariant holds for any number
\* of workers, names, nodes, handles and lookups, and whatever is lost.
THEOREM LockedInvariance ==
  ASSUME Serial
  PROVE  Spec => [](AnyOrderInv /\ LockedInv)
<1>1. Init => AnyOrderInv /\ LockedInv
  BY AnyOrderInit, LockedInit
<1>2. AnyOrderInv /\ LockedInv /\ [Next]_vars => (AnyOrderInv /\ LockedInv)'
  BY AnyOrderStep, LockedStep
<1> QED
  BY <1>1, <1>2, PTL DEF Spec

\* The number that entry_for and add_open find again after the filesystem has
\* named it is still the node the filesystem meant.
THEOREM EntryIsTargetHolds ==
  ASSUME Serial
  PROVE  Spec => []EntryIsTarget
<1>1. AnyOrderInv /\ LockedInv => EntryIsTarget
  <2> SUFFICES ASSUME AnyOrderInv, LockedInv, NEW t \in Threads, Targets(t)
               PROVE  id[t] \in DOMAIN map /\ map[id[t]].record = want[t]
    BY DEF EntryIsTarget, Targets
  <2>1. id[t] # 0
    BY InosFacts DEF AnyOrderInv, ShapeInv, Shape, Targets
  <2> QED
    BY <2>1, Pins DEF PinInv, LockedInv, TargetInv
<1> QED
  BY <1>1, LockedInvariance, PTL

\* An inode the kernel believes in is in the table under the generation and the
\* record the kernel was told of: no forget, release or unlink frees it early.
THEOREM KernelInodeLiveHolds ==
  ASSUME Serial
  PROVE  Spec => []KernelInodeLive
<1>1. AnyOrderInv /\ LockedInv => KernelInodeLive
  BY TellHolds, ToldPins DEF TellInv, ToldInv, KernelInv, KernelInodeLive
<1> QED
  BY <1>1, LockedInvariance, PTL

\* retain_lookup and forget are paired: Slot.lookups is what the kernel counts
\* and will be told, and a failed readdirplus takes its own back.
THEOREM LookupsExactHolds ==
  ASSUME Serial
  PROVE  Spec => []LookupsExact
<1>1. AnyOrderInv /\ LockedInv => LookupsExact
  <2> SUFFICES ASSUME AnyOrderInv, LockedInv, NEW i \in DOMAIN map
               PROVE  /\ map[i].lookups >= klookup[i] + Unsent(i)
                      /\ Recovered => map[i].lookups = klookup[i] + Unsent(i)
    BY DEF LookupsExact
  <2>1. i \in Inos /\ LookupsOf[i] = map[i].lookups
    BY CountsThere DEF AnyOrderInv
  <2>2. Unsent(i) = Cardinality(Owed(i)) + Cardinality(Listed(i))
    <3>1. Owed(i) = {t \in Threads : id[t] = i /\ op[t] \in DirWriters \cup {"lookup", "revalidate"}
                                  /\ pc[t] \in {"entry_ref", "add_open", "add_file", "reply"}}
      BY DEF Owed, Owes, EntryOps, OwingPCs
    <3> QED
      BY <3>1 DEF Unsent, Listed
  <2>3. /\ klookup[i] \in Nat /\ Cardinality(Owed(i)) \in Nat /\ Cardinality(Listed(i)) \in Nat
        /\ LookupsOf[i] >= klookup[i] + Cardinality(Owed(i)) + Cardinality(Listed(i))
        /\ Recovered =>
             LookupsOf[i] = klookup[i] + Cardinality(Owed(i)) + Cardinality(Listed(i))
    BY <2>1, LookupSetsFinite DEF AnyOrderInv, TypeOK, LockedInv, LookupsInv
  <2> QED
    BY <2>1, <2>2, <2>3
<1> QED
  BY <1>1, LockedInvariance, PTL

\* A handle stays with the very node it was opened on up to the filesystem's
\* release(): its number is not recycled in between.
THEOREM HandleKeepsNodeHolds ==
  ASSUME Serial
  PROVE  Spec => []HandleKeepsNode
<1>1. AnyOrderInv /\ LockedInv => HandleKeepsNode
  <2> SUFFICES ASSUME AnyOrderInv, LockedInv PROVE HandleKeepsNode
    OBVIOUS
  <2>1. HandlePinned
    BY PinnedNow
  <2>2. \A h \in DOMAIN files : map[files[h].ino].record = files[h].record
    BY DEF LockedInv, KeepInv
  <2>3. \A t \in Threads : pc[t] = "rel_node" => map[id[t]].record = want[t]
    BY DEF LockedInv, KeepInv, OpeningPCs
  <2>4. \A t \in Threads : pc[t] \in {"rel_count", "rel_drain"} => ref[t].record = want[t]
    <3> SUFFICES ASSUME NEW t \in Threads, pc[t] \in {"rel_count", "rel_drain"}
                 PROVE  ref[t].record = want[t]
      OBVIOUS
    <3>1. ref[t] = [id |-> id[t], record |-> want[t]]
      BY DEF LockedInv, RefInv
    <3> QED
      BY <3>1
  <2> QED
    BY <2>1, <2>2, <2>3, <2>4 DEF HandleKeepsNode
<1> QED
  BY <1>1, LockedInvariance, PTL

\* Without a fault that the code does not recover from, a node that no name,
\* lookup, open file or request refers to is gone from the table.
THEOREM FreedWhenUnreferencedHolds ==
  ASSUME Serial
  PROVE  Spec => []FreedWhenUnreferenced
<1>1. AnyOrderInv /\ LockedInv => FreedWhenUnreferenced
  <2> SUFFICES ASSUME AnyOrderInv, LockedInv, Recovered,
                      NEW i \in DOMAIN map \ {ROOT},
                      \A n \in Names : names[n] # i,
                      ~(klookup[i] > 0),
                      \A k \in kopen : k[2] # i,
                      \A t \in Threads : /\ id[t] # i /\ ref[t].id # i
                                         /\ \A a \in 1..Len(buffer[t]) : buffer[t][a].ino # i
               PROVE  FALSE
    BY DEF FreedWhenUnreferenced, AlwaysFreed
  <2>1. /\ i \in Inos /\ LinksOf[i] = map[i].links /\ LookupsOf[i] = map[i].lookups
        /\ OpensOf[i] = map[i].opens
    BY CountsThere DEF AnyOrderInv
  <2>2. map[i].links = 0
    <3>1. NamesFor(i) = {}
      BY DEF NamesFor
    <3>2. Cardinality(NamesFor(i)) = 0
      BY <3>1, FS_EmptySet
    <3> QED
      BY <2>1, <3>2 DEF AnyOrderInv, LinksInv
  <2>3. map[i].lookups = 0
    <3>1. klookup[i] = 0
      BY <2>1 DEF AnyOrderInv, TypeOK
    <3>2. Owed(i) = {}
      BY DEF Owed
    <3>3. Listed(i) = {}
      BY DEF Listed, AnyOrderInv, TypeOK
    <3>4. Cardinality(Owed(i)) = 0 /\ Cardinality(Listed(i)) = 0
      BY <3>2, <3>3, FS_EmptySet
    <3> QED
      BY <2>1, <3>1, <3>4 DEF LockedInv, LookupsInv
  <2>4. map[i].opens = 0
    <3>1. Opening(i) = {}
      BY DEF Opening
    <3>2. FilesOn(i) = {}
      <4> SUFFICES ASSUME NEW h \in DOMAIN files, files[h].ino = i PROVE FALSE
        BY DEF FilesOn
      <4>1. (\E k \in kopen : k[1] = h) \/ (\E t \in Threads : Holds(t) /\ fh[t] = h)
        BY DEF LockedInv, FilesInv
      <4> QED
        BY <4>1 DEF AnyOrderInv, HandleInv
    <3>3. Cardinality(FilesOn(i)) = 0 /\ Cardinality(Opening(i)) = 0
      BY <3>1, <3>2, FS_EmptySet
    <3> QED
      BY <2>1, <3>3 DEF AnyOrderInv, OpensInv
  <2>5. map[i].leases = 0
    <3>1. HoldersOf(i) = {}
      BY DEF HoldersOf, Threads
    <3> QED
      BY <3>1, FS_EmptySet DEF AnyOrderInv, TableInv, LeaseInv
  <2> QED
    BY <2>2, <2>3, <2>4, <2>5 DEF AnyOrderInv, TableInv, NoZombie, Droppable
<1> QED
  BY <1>1, LockedInvariance, PTL
=============================================================================
