----------------------------- MODULE NodeTable -----------------------------
(***************************************************************************)
(* The inode table of typed_fuse_core's Runtime (runtime.rs: Slot,         *)
(* NodeTable, NodeRef, Cx).  One action is one critical section of the     *)
(* table's mutex.  The clients are the runtime itself and the filesystem   *)
(* behind it, which is user code: they are given no discipline here, any   *)
(* operation may be called with any inode number at any time.              *)
(***************************************************************************)
EXTENDS Naturals, Sequences, FiniteSets, Functions

CONSTANTS
  Holders,     \* who may keep a NodeRef, each one at a time
  Parents,     \* the inode numbers clients name as a parent
  MaxRecords,  \* bound: how many nodes are ever inserted
  MaxCount     \* bound: how far a client drives a slot's counters

ASSUME HoldersFinite == IsFiniteSet(Holders)
ASSUME BoundsNat == MaxRecords \in Nat /\ MaxCount \in Nat
ASSUME ParentsNat == Parents \subseteq Nat

ROOT == 1                    \* NodeId::ROOT
Inos == 1..(MaxRecords + 1)
NoRef == [id |-> 0, record |-> 0]

Slot == [record : Nat, generation : Nat, links : Nat, lookups : Nat, opens : Nat,
         leases : Nat, parent : Nat]

VARIABLES
  map,       \* NodeTable.map: a function from the inode numbers in use to slots
  next_ino,  \* NodeTable.next_ino
  free,      \* NodeTable.free: a stack of <<ino, generation>>
  ref,       \* ref[t]: the NodeRef t holds (record: which Arc), or NoRef
  records,   \* history: the number of NodeRecords allocated, names the next
  history    \* history: <<ino, generation, record>> of every node ever inserted

tableVars == <<map, next_ino, free, ref, records, history>>

TableTypeOK ==
  /\ DOMAIN map \subseteq Inos
  /\ map \in [DOMAIN map -> Slot]
  /\ next_ino \in Nat
  /\ free \in Seq(Nat \X Nat)
  /\ ref \in [Holders -> [id : Nat, record : Nat]]
  /\ records \in Nat
  /\ history \subseteq Nat \X Nat \X Nat

-----------------------------------------------------------------------------

\* Mutant of Droppable: leases do not count.
DroppableLeased(s) == s.links = 0 /\ s.lookups = 0 /\ s.opens = 0

Droppable(s) == s.links = 0 /\ s.lookups = 0 /\ s.opens = 0 /\ s.leases = 0

NewSlot(r, g, p) ==
  [record |-> r, generation |-> g, links |-> 1, lookups |-> 0, opens |-> 0,
   leases |-> 0, parent |-> p]

\* Runtime::new: the root, before the filesystem's populate().
TableInit ==
  /\ map = [i \in {ROOT} |-> NewSlot(1, 0, ROOT)]
  /\ next_ino = 2
  /\ free = <<>>
  /\ ref = [t \in Holders |-> NoRef]
  /\ records = 1
  /\ history = {<<ROOT, 0, 1>>}

Minus(a, b) == IF a < b THEN 0 ELSE a - b       \* saturating_sub

\* Mutant of SetAndMaybeDrop: the number is freed with its old generation.
SetAndDropSameGeneration(i, s) ==
  IF Droppable(s)
    THEN /\ map' = Restrict(map, DOMAIN map \ {i})
         /\ free' = Append(free, <<i, s.generation>>)
    ELSE /\ map' = [map EXCEPT ![i] = s]
         /\ UNCHANGED free

\* Slot i becomes s, and maybe_drop(i) runs before the table is unlocked.
SetAndMaybeDrop(i, s) ==
  IF Droppable(s)
    THEN /\ map' = Restrict(map, DOMAIN map \ {i})
         /\ free' = Append(free, <<i, s.generation + 1>>)
    ELSE /\ map' = [map EXCEPT ![i] = s]
         /\ UNCHANGED free

-----------------------------------------------------------------------------
(* Cx and NodeRef *)

\* Mutant of Insert: alloc() reads the top of the free stack and leaves it there.
InsertWithoutPop(p) ==
  LET reuse == free # <<>>
      ino == IF reuse THEN free[Len(free)][1] ELSE next_ino
      generation == IF reuse THEN free[Len(free)][2] ELSE 0
  IN /\ records <= MaxRecords
     /\ next_ino' = IF reuse THEN next_ino ELSE next_ino + 1
     /\ map' = [i \in DOMAIN map \cup {ino} |->
                  IF i = ino THEN NewSlot(records + 1, generation, p) ELSE map[i]]
     /\ records' = records + 1
     /\ history' = history \cup {<<ino, generation, records + 1>>}
     /\ UNCHANGED <<free, ref>>

\* alloc() pops the free stack, or counts next_ino up.
Insert(p) ==
  LET reuse == free # <<>>
      ino == IF reuse THEN free[Len(free)][1] ELSE next_ino
      generation == IF reuse THEN free[Len(free)][2] ELSE 0
  IN /\ records <= MaxRecords
     /\ IF reuse
          THEN free' = SubSeq(free, 1, Len(free) - 1) /\ UNCHANGED next_ino
          ELSE next_ino' = next_ino + 1 /\ UNCHANGED free
     /\ map' = [i \in DOMAIN map \cup {ino} |->
                  IF i = ino THEN NewSlot(records + 1, generation, p) ELSE map[i]]
     /\ records' = records + 1
     /\ history' = history \cup {<<ino, generation, records + 1>>}
     /\ UNCHANGED ref

\* Cx::get finds the node by its number alone.
Get(t, i) ==
  /\ i \in DOMAIN map
  /\ ref[t] = NoRef
  /\ map' = [map EXCEPT ![i].leases = @ + 1]
  /\ ref' = [ref EXCEPT ![t] = [id |-> i, record |-> map[i].record]]
  /\ UNCHANGED <<next_ino, free, records, history>>

\* NodeRef::drop counts down only the slot its record is still in, and runs
\* maybe_drop on the number in any case.
DropRef(t) ==
  LET i == ref[t].id
      s == map[i]
      mine == s.record = ref[t].record
  IN /\ ref[t] # NoRef
     /\ ref' = [ref EXCEPT ![t] = NoRef]
     /\ IF i \in DOMAIN map
          THEN SetAndMaybeDrop(i, IF mine THEN [s EXCEPT !.leases = Minus(@, 1)] ELSE s)
          ELSE UNCHANGED <<map, free>>
     /\ UNCHANGED <<next_ino, records, history>>

AddLink(i) ==
  /\ i \in DOMAIN map
  /\ map' = [map EXCEPT ![i].links = @ + 1]
  /\ UNCHANGED <<next_ino, free, ref, records, history>>

\* Mutant of RemoveLink: no maybe_drop.
RemoveLinkOnly(i) ==
  /\ i \in DOMAIN map
  /\ map' = [map EXCEPT ![i].links = Minus(@, 1)]
  /\ UNCHANGED <<next_ino, free, ref, records, history>>

RemoveLink(i) ==
  /\ i \in DOMAIN map
  /\ SetAndMaybeDrop(i, [map[i] EXCEPT !.links = Minus(@, 1)])
  /\ UNCHANGED <<next_ino, ref, records, history>>

Reparent(i, p) ==
  /\ i \in DOMAIN map
  /\ map' = [map EXCEPT ![i].parent = p]
  /\ UNCHANGED <<next_ino, free, ref, records, history>>

-----------------------------------------------------------------------------
(* The runtime's own bookkeeping *)

\* retain_lookup, and the end of entry_for
RetainLookup(i) ==
  /\ i \in DOMAIN map
  /\ map' = [map EXCEPT ![i].lookups = @ + 1]
  /\ UNCHANGED <<next_ino, free, ref, records, history>>

Forget(i, n) ==
  /\ i \in DOMAIN map
  /\ SetAndMaybeDrop(i, [map[i] EXCEPT !.lookups = Minus(@, n)])
  /\ UNCHANGED <<next_ino, ref, records, history>>

AddOpen(i) ==
  /\ i \in DOMAIN map
  /\ map' = [map EXCEPT ![i].opens = @ + 1]
  /\ UNCHANGED <<next_ino, free, ref, records, history>>

RemoveOpen(i) ==
  /\ i \in DOMAIN map
  /\ SetAndMaybeDrop(i, [map[i] EXCEPT !.opens = Minus(@, 1)])
  /\ UNCHANGED <<next_ino, ref, records, history>>

\* An operation on an unknown number: None, ENOENT, or nothing to do.
Missing(i) ==
  /\ i \notin DOMAIN map
  /\ UNCHANGED tableVars

-----------------------------------------------------------------------------

TableNext ==
  \/ \E p \in Parents : Insert(p)
  \/ \E t \in Holders : DropRef(t) \/ \E i \in Inos : Get(t, i)
  \/ \E i \in Inos :
       \/ AddLink(i) /\ map[i].links < MaxCount
       \/ RetainLookup(i) /\ map[i].lookups < MaxCount
       \/ AddOpen(i) /\ map[i].opens < MaxCount
       \/ RemoveLink(i)
       \/ RemoveOpen(i)
       \/ \E n \in 1..MaxCount : Forget(i, n)
       \/ \E p \in Parents : Reparent(i, p)
       \/ Missing(i)

TableSpec == TableInit /\ [][TableNext]_tableVars

-----------------------------------------------------------------------------
(* Properties, for clients of any behaviour *)

HoldersOf(i) == {t \in Holders : ref[t] # NoRef /\ ref[t].id = i}

\* "Keeping this value alive prevents the inode from being reclaimed or
\* reused" (NodeRef): as long as anybody holds a NodeRef its slot stays in the
\* table with the same record, whatever is unlinked, forgotten or released.
LeasePins ==
  \A t \in Holders :
    ref[t] # NoRef => /\ ref[t].id \in DOMAIN map
                      /\ map[ref[t].id].record = ref[t].record

\* No slot outlives its last reference: a droppable slot is never left in the
\* table, so no sequence of calls leaks an inode number.
NoZombie == \A i \in DOMAIN map : ~Droppable(map[i])

\* A (number, generation) pair, which is what a kernel or an NFS client keeps,
\* never names two nodes over the life of the mount.
IdentityUnique ==
  \A e, f \in history : e[1] = f[1] /\ e[2] = f[2] => e[3] = f[3]

\* Numbers on the free stack are distinct and none of them is in use, and the
\* numbers in use and free together are exactly the ones handed out: none is
\* lost.
FreeListExact ==
  /\ \A a, b \in 1..Len(free) : free[a][1] = free[b][1] => a = b
  /\ {free[a][1] : a \in 1..Len(free)} \cap DOMAIN map = {}
  /\ {free[a][1] : a \in 1..Len(free)} \cup DOMAIN map = 1..(next_ino - 1)

\* A live slot is never taken over in place: to become another node a number
\* first leaves the table.
NoTakeover ==
  [][\A i \in DOMAIN map \cap DOMAIN map' :
       /\ map'[i].record = map[i].record
       /\ map'[i].generation = map[i].generation]_tableVars
=============================================================================
