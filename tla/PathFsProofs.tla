---------------------------- MODULE PathFsProofs ----------------------------
(***************************************************************************)
(* Proofs about PathFs, for any number of workers, names, nodes and        *)
(* objects.  The first part holds whatever the kernel orders: with and     *)
(* without its directory lock, and with lookups and listings in parallel   *)
(* or not.  The second part is about requests on the directory one at a    *)
(* time, and shows that a name then never leads to another object.         *)
(*                                                                         *)
(* As in RuntimeProofs the links of a node are compared with its names for *)
(* every inode number, in the table or not: a node that a name stands for  *)
(* has a link and so is in the table, and a number that alloc() hands out  *)
(* is no name's.                                                           *)
(***************************************************************************)
EXTENDS PathFs, RuntimeProofs

\* The requests of this filesystem.
PathOps == {"none", "lookup", "revalidate", "mknod", "link", "readdir", "readdirplus"}

ListOps == {"readdir", "readdirplus"}

\* Where a request can be, and what it then has in its hands.
PathShape(t) ==
  /\ op[t] \in PathOps
  /\ pc[t] = "idle" <=> op[t] = "none"
  /\ pc[t] \in {"idle", "reply", "drop_node"} \cup EntryPCs \cup PlusPCs
  /\ pc[t] \in EntryPCs \cup {"reply"} => op[t] \in EntryOps
  /\ pc[t] \in PlusPCs \cup {"drop_node"} => op[t] \in ListOps
  /\ pc[t] = "rdp_plus" => op[t] = "readdirplus"
  /\ op[t] # "none" => id[t] \in Inos

PathShapeInv == \A t \in Threads : PathShape(t)

NsTypeOK ==
  /\ names \in [Names -> Inos \cup {0}]
  /\ aliases \in [Inos -> SUBSET Names]
  /\ keys \in [1..records -> Inos]
  /\ object \in [1..records -> 0..MaxObjects]

\* Every name has a link and is an alias; there may be more of either.
LinksCover == \A i \in Inos : Cardinality(NamesFor(i)) <= LinksOf[i]
AliasCover == \A i \in Inos : NamesFor(i) \subseteq aliases[i]

\* A node is found under its own key.
KeysInv == \A i \in DOMAIN map : map[i].record \in 1..records /\ keys[map[i].record] = i

NsInv ==
  /\ TableInv
  /\ NsTypeOK
  /\ LinksCover
  /\ AliasCover
  /\ KeysInv

\* The state outside the namespace and the table.
RestTypeOK ==
  /\ faults \in FaultSets
  /\ DOMAIN files \subseteq Fh
  /\ files \in [DOMAIN files -> [ino : Inos, record : Nat]]
  /\ next_fh \in 1..(MaxFh + 1)
  /\ klookup \in [Inos -> Nat]
  /\ kident \in [Inos -> [gen : Nat, record : Nat]]
  /\ kopen \subseteq Fh \X Inos
  /\ store \in [Names -> 0..MaxObjects]
  /\ objects \in 0..MaxObjects
  /\ file \in [1..MaxObjects -> 1..MaxObjects]
  /\ inserted \in [Threads -> Seq(Names)]
  /\ fresh \in [Threads -> Seq(Names)]

ThreadsTypeOK ==
  /\ pc \in [Threads -> PCs]
  /\ op \in [Threads -> Ops]
  /\ id \in [Threads -> Inos \cup {0}]
  /\ want \in [Threads -> Nat]
  /\ gen \in [Threads -> Nat]
  /\ fh \in [Threads -> Fh \cup {0}]
  /\ buffer \in [Threads -> Seq(Entry)]

PathInv ==
  /\ NsInv
  /\ RestTypeOK
  /\ ThreadsTypeOK
  /\ PathShapeInv

LEMMA PathTypes == PathInv => PathTypeOK
BY DEF PathInv, NsInv, TableInv, NsTypeOK, RestTypeOK, ThreadsTypeOK, PathTypeOK, TypeOK

-----------------------------------------------------------------------------
(* What the operations of the namespace keep *)

LEMMA NamesFinitelyMany ==
  ASSUME NEW i
  PROVE  /\ IsFiniteSet(NamesFor(i)) /\ Cardinality(NamesFor(i)) \in Nat
         /\ IsFiniteSet(NamesFor(i)') /\ Cardinality(NamesFor(i)') \in Nat
<1>1. NamesFor(i) \in SUBSET Names /\ NamesFor(i)' \in SUBSET Names
  BY DEF NamesFor
<1> QED
  BY <1>1, NamesFinite, FS_Subset, FS_CardinalityType

\* Only an insertion brings a number into the table.
LEMMA NoNewNodes ==
  ASSUME TableInv, Operation, records' = records
  PROVE  DOMAIN map' \subseteq DOMAIN map
<1>0. records \in Nat /\ DOMAIN map \subseteq Inos /\ Inos \subseteq Nat
  BY InosFacts DEF TableInv, TableTypeOK
<1>1. ASSUME NEW p \in Nat, Insert(p) PROVE FALSE
  BY <1>0, <1>1 DEF Insert
<1>2. ASSUME NEW i \in Inos, Counting(i) PROVE DOMAIN map' \subseteq DOMAIN map
  <2>1. PICK s \in Slot : SetAndMaybeDrop(i, s)
    BY <1>0, <1>2, CountingUpdates
  <2> QED
    BY <2>1 DEF SetAndMaybeDrop, Restrict
<1>3. ASSUME NEW t \in Holders, DropRef(t) PROVE DOMAIN map' \subseteq DOMAIN map
  BY <1>3 DEF DropRef, SetAndMaybeDrop, Restrict
<1>4. ASSUME NEW t \in Holders, NEW i \in Inos, Get(t, i) PROVE DOMAIN map' \subseteq DOMAIN map
  BY <1>4 DEF Get
<1>5. CASE UNCHANGED tableVars
  BY <1>5 DEF tableVars
<1> QED
  BY <1>1, <1>2, <1>3, <1>4, <1>5 DEF Operation

LEMMA KeysKept ==
  ASSUME TableInv, KeysInv, Operation, records' = records, keys' = keys
  PROVE  KeysInv'
<1>1. \A i \in DOMAIN map' : i \in DOMAIN map /\ map'[i].record = map[i].record
  BY NoNewNodes, OperationKeepsNodes DEF SameNode
<1> QED
  BY <1>1 DEF KeysInv

\* A step that leaves the names and the links alone.
LEMMA NsSame ==
  ASSUME NsInv, Operation, records' = records, LinksOf' = LinksOf, UNCHANGED nsVars
  PROVE  NsInv'
<1>0. names' = names /\ aliases' = aliases /\ keys' = keys /\ object' = object
  BY DEF nsVars
<1>1. TableInv' /\ KeysInv'
  BY <1>0, OperationInv, KeysKept DEF NsInv
<1>2. NsTypeOK'
  BY <1>0 DEF NsInv, NsTypeOK
<1>3. \A i : NamesFor(i)' = NamesFor(i)
  BY <1>0 DEF NamesFor
<1>4. LinksCover' /\ AliasCover'
  BY <1>0, <1>3 DEF NsInv, LinksCover, AliasCover
<1> QED
  BY <1>1, <1>2, <1>4 DEF NsInv

\* A name's number is in the table.
LEMMA NameThere ==
  ASSUME NsInv, NEW n \in Names, names[n] # 0
  PROVE  names[n] \in Inos /\ names[n] \in DOMAIN map /\ map[names[n]].record \in Nat
<1> DEFINE i == names[n]
<1>1. i \in Inos
  BY DEF NsInv, NsTypeOK
<1>2. n \in NamesFor(i)
  BY DEF NamesFor
<1>3. Cardinality(NamesFor(i)) \in Nat /\ Cardinality(NamesFor(i)) # 0
  BY <1>2, NamesFinitelyMany, HasMember
<1>4. LinksOf[i] # 0
  BY <1>1, <1>3 DEF NsInv, LinksCover
<1>5. i \in DOMAIN map
  BY <1>1, <1>4, CountedIsThere
<1> QED
  BY <1>1, <1>5 DEF NsInv, TableInv, TableTypeOK, Slot

\* Namespace::insert: the new dentry gets a number no name had.
LEMMA NsInsertInv ==
  ASSUME NsInv, NEW n \in Names, NEW o \in 0..MaxObjects, NsInsert(n, o)
  PROVE  NsInv' /\ NsId(n) \in Inos /\ NsRecord(n) \in Nat
<1>0. /\ TableInv /\ NsTypeOK /\ records \in Nat /\ LinksOf \in [Inos -> Nat] /\ 0 \notin Inos
      /\ DOMAIN map \subseteq Inos
  BY CountsType, InosFacts DEF NsInv, TableInv, TableTypeOK
<1>1. CASE names[n] # 0
  <2>1. UNCHANGED <<tableVars, nsVars>>
    BY <1>1 DEF NsInsert
  <2>2. Operation /\ records' = records /\ LinksOf' = LinksOf
    BY <2>1 DEF Operation, tableVars, LinksOf
  <2> QED
    BY <1>1, <2>1, <2>2, NsSame, NameThere DEF NsId, NsRecord
<1>2. CASE names[n] = 0
  <2>1. /\ Insert(ROOT)
        /\ names' = [names EXCEPT ![n] = Allocated]
        /\ aliases' = [aliases EXCEPT ![Allocated] = @ \cup {n}]
        /\ keys' = [r \in 1..(records + 1) |-> IF r = records + 1 THEN Allocated ELSE keys[r]]
        /\ object' = [r \in 1..(records + 1) |-> IF r = records + 1 THEN o ELSE object[r]]
    BY <1>2 DEF NsInsert
  <2>2. /\ Allocated \in Inos /\ Allocated \notin DOMAIN map
        /\ LinksOf[Allocated] = 0 /\ LinksOf' = [LinksOf EXCEPT ![Allocated] = 1]
        /\ Allocated \in DOMAIN map' /\ map'[Allocated].record = records + 1
    BY <1>0, <2>1, InsertCounts
  <2>3. records' = records + 1 /\ DOMAIN map' = DOMAIN map \cup {Allocated}
        /\ \A i \in DOMAIN map : i # Allocated => map'[i] = map[i]
    BY <2>1 DEF Insert, Allocated
  <2>a. PICK a \in Inos : a = Allocated
    BY <2>2
  <2>4. NsId(n) = a /\ NsRecord(n) = records + 1
    BY <1>2, <2>a DEF NsId, NsRecord
  <2>5. TableInv'
    <3>1. ROOT \in Nat
      BY DEF ROOT
    <3> QED
      BY <1>0, <2>1, <3>1, InsertInv
  <2>6. NsTypeOK'
    <3>1. names' \in [Names -> Inos \cup {0}] /\ aliases' \in [Inos -> SUBSET Names]
      BY <1>0, <2>1, <2>2 DEF NsTypeOK
    <3>2. keys' \in [1..records' -> Inos]
      <4>1. \A r \in 1..(records + 1) : r # records + 1 => r \in 1..records
        BY <1>0
      <4> QED
        BY <1>0, <2>1, <2>2, <2>3, <4>1 DEF NsTypeOK
    <3>3. object' \in [1..records' -> 0..MaxObjects]
      <4>1. \A r \in 1..(records + 1) : r # records + 1 => r \in 1..records
        BY <1>0
      <4> QED
        BY <1>0, <2>1, <2>3, <4>1 DEF NsTypeOK
    <3> QED
      BY <3>1, <3>2, <3>3 DEF NsTypeOK
  <2>7. NamesFor(a)' = NamesFor(a) \cup {n} /\ NamesFor(a) = {}
    <3>1. NamesFor(a) = {}
      <4> SUFFICES ASSUME NEW m \in Names, names[m] = a PROVE FALSE
        BY DEF NamesFor
      <4> QED
        BY <2>a, <1>0, <2>2, NameThere
    <3> QED
      BY <2>a, <1>0, <2>1, <3>1 DEF NsTypeOK, NamesFor
  <2>8. \A j \in Inos \ {a} : NamesFor(j)' = NamesFor(j)
    BY <2>a, <1>0, <1>2, <2>1 DEF NsTypeOK, NamesFor
  <2>9. LinksCover'
    <3> SUFFICES ASSUME NEW j \in Inos PROVE Cardinality(NamesFor(j)') <= LinksOf'[j]
      BY DEF LinksCover
    <3>1. CASE j = a
      <4>1. Cardinality(NamesFor(a)') = 1
        BY <2>7, FS_Singleton
      <4> QED
        BY <2>a, <1>0, <2>2, <3>1, <4>1
    <3>2. CASE j # a
      BY <2>a, <1>0, <2>2, <2>8, <3>2 DEF NsInv, LinksCover
    <3> QED
      BY <3>1, <3>2
  <2>10. AliasCover'
    <3> SUFFICES ASSUME NEW j \in Inos PROVE NamesFor(j)' \subseteq aliases'[j]
      BY DEF AliasCover
    <3>1. CASE j = a
      BY <2>a, <1>0, <2>1, <2>2, <2>7, <3>1 DEF NsTypeOK
    <3>2. CASE j # a
      BY <2>a, <1>0, <2>1, <2>8, <3>2 DEF NsTypeOK, NsInv, AliasCover
    <3> QED
      BY <3>1, <3>2
  <2>11. KeysInv'
    <3> SUFFICES ASSUME NEW j \in DOMAIN map'
                 PROVE  map'[j].record \in 1..records' /\ keys'[map'[j].record] = j
      BY DEF KeysInv
    <3>1. CASE j = a
      BY <2>a, <1>0, <2>1, <2>2, <2>3, <3>1
    <3>2. CASE j # a
      <4>1. /\ j \in DOMAIN map /\ map'[j] = map[j]
            /\ map[j].record \in 1..records /\ keys[map[j].record] = j
        BY <2>a, <2>3, <3>2 DEF NsInv, KeysInv
      <4> QED
        BY <1>0, <2>1, <2>3, <4>1
    <3> QED
      BY <3>1, <3>2
  <2> QED
    BY <2>a, <1>0, <2>2, <2>4, <2>5, <2>6, <2>9, <2>10, <2>11 DEF NsInv
<1> QED
  BY <1>1, <1>2

\* A link goes together with one of the names it was for.
LEMMA LinkRemoved ==
  ASSUME NsInv, NEW i \in Inos, NEW n \in Names, names[n] = i, RemoveLink(i)
  PROVE  /\ LinksOf' = [LinksOf EXCEPT ![i] = @ - 1] /\ LinksOf[i] - 1 \in Nat
         /\ Cardinality(NamesFor(i) \ {n}) <= LinksOf[i] - 1
         /\ Operation /\ records' = records
<1>0. TableInv /\ LinksOf \in [Inos -> Nat]
  BY CountsType DEF NsInv
<1>1. LinksOf' = [LinksOf EXCEPT ![i] = Minus(@, 1)]
  BY <1>0, RemoveLinkCounts
<1>2. n \in NamesFor(i)
  BY DEF NamesFor
<1>3. Cardinality(NamesFor(i) \ {n}) = Cardinality(NamesFor(i)) - 1
  BY <1>2, NamesFinitelyMany, FS_RemoveElement
<1>4. /\ Cardinality(NamesFor(i)) \in Nat /\ Cardinality(NamesFor(i)) # 0
      /\ Cardinality(NamesFor(i)) <= LinksOf[i]
  BY <1>2, NamesFinitelyMany, HasMember DEF NsInv, LinksCover
<1>5. Minus(LinksOf[i], 1) = LinksOf[i] - 1
  BY <1>0, <1>4 DEF Minus
<1>6. Operation /\ records' = records
  BY DEF Operation, Counting, RemoveLink
<1>7. LinksOf' = [LinksOf EXCEPT ![i] = @ - 1]
  BY <1>1, <1>5
<1> QED
  BY <1>0, <1>3, <1>4, <1>6, <1>7

\* Namespace::remove and remove_link.
LEMMA NsRemoveInv ==
  ASSUME NsInv, NEW n \in Names, NsRemove(n)
  PROVE  NsInv'
<1>0. TableInv /\ NsTypeOK /\ LinksOf \in [Inos -> Nat] /\ 0 \notin Inos
  BY CountsType, InosFacts DEF NsInv
<1>1. CASE names[n] = 0
  <2>1. UNCHANGED <<tableVars, nsVars>>
    BY <1>1 DEF NsRemove
  <2>2. Operation /\ records' = records /\ LinksOf' = LinksOf
    BY <2>1 DEF Operation, tableVars, LinksOf
  <2> QED
    BY <2>1, <2>2, NsSame
<1>2. CASE names[n] # 0
  <2>0. PICK i \in Inos : i = names[n]
    BY <1>0, <1>2 DEF NsTypeOK
  <2>1. /\ RemoveLink(i) /\ names' = [names EXCEPT ![n] = 0]
        /\ aliases' = [aliases EXCEPT ![i] = @ \ {n}]
        /\ keys' = keys /\ object' = object
    BY <1>2, <2>0 DEF NsRemove
  <2>2. /\ LinksOf' = [LinksOf EXCEPT ![i] = @ - 1] /\ LinksOf[i] - 1 \in Nat
        /\ Cardinality(NamesFor(i) \ {n}) <= LinksOf[i] - 1
        /\ Operation /\ records' = records
    BY <2>0, <2>1, LinkRemoved
  <2>3. TableInv' /\ KeysInv'
    BY <1>0, <2>1, <2>2, OperationInv, KeysKept DEF NsInv
  <2>4. NsTypeOK'
    BY <1>0, <2>1, <2>2 DEF NsTypeOK
  <2>5. NamesFor(i)' = NamesFor(i) \ {n} /\ \A j \in Inos \ {i} : NamesFor(j)' = NamesFor(j)
    BY <1>0, <2>0, <2>1 DEF NsTypeOK, NamesFor
  <2>6. LinksCover'
    BY <1>0, <2>2, <2>5 DEF NsInv, LinksCover
  <2>7. AliasCover'
    BY <1>0, <2>1, <2>5 DEF NsTypeOK, NsInv, AliasCover
  <2> QED
    BY <2>3, <2>4, <2>6, <2>7 DEF NsInv
<1> QED
  BY <1>1, <1>2

\* link(): whatever the name stood for, its new node gets a link for it.
LEMMA NsLinkInv ==
  ASSUME NsInv, NEW t \in Threads, NEW i \in Inos, NEW n \in Names, PathLink(t, i, n)
  PROVE  NsInv' /\ map[i].record \in Nat
<1>0. TableInv /\ NsTypeOK /\ LinksOf \in [Inos -> Nat] /\ 0 \notin Inos
  BY CountsType, InosFacts DEF NsInv
<1>1. /\ AddLink(i) /\ names' = [names EXCEPT ![n] = i]
      /\ aliases' = [aliases EXCEPT ![i] = @ \cup {n}]
      /\ keys' = keys /\ object' = object
  BY DEF PathLink
<1>2. LinksOf' = [LinksOf EXCEPT ![i] = @ + 1]
  BY <1>0, <1>1, AddLinkCounts
<1>3. Operation /\ records' = records /\ map[i].record \in Nat
  BY <1>0, <1>1 DEF Operation, Counting, AddLink, TableInv, TableTypeOK, Slot
<1>4. TableInv' /\ KeysInv'
  BY <1>0, <1>1, <1>3, OperationInv, KeysKept DEF NsInv
<1>5. NsTypeOK'
  BY <1>0, <1>1, <1>3 DEF NsTypeOK
<1>6. NamesFor(i)' = NamesFor(i) \cup {n}
      /\ \A j \in Inos \ {i} : NamesFor(j)' = NamesFor(j) \ {n}
  BY <1>0, <1>1 DEF NsTypeOK, NamesFor
<1>7. LinksCover'
  <2> SUFFICES ASSUME NEW j \in Inos PROVE Cardinality(NamesFor(j)') <= LinksOf'[j]
    BY DEF LinksCover
  <2>0. /\ Cardinality(NamesFor(j)) \in Nat /\ Cardinality(NamesFor(j)) <= LinksOf[j]
        /\ IsFiniteSet(NamesFor(j)) /\ Cardinality(NamesFor(j)') \in Nat
    BY NamesFinitelyMany DEF NsInv, LinksCover
  <2>1. CASE j = i
    <3>1. Cardinality(NamesFor(i) \cup {n}) =
            IF n \in NamesFor(i) THEN Cardinality(NamesFor(i)) ELSE Cardinality(NamesFor(i)) + 1
      BY <2>0, <2>1, FS_AddElement
    <3>2. Cardinality(NamesFor(i) \cup {n}) <= Cardinality(NamesFor(i)) + 1
      BY <2>0, <2>1, <3>1
    <3> QED
      BY <1>0, <1>2, <1>6, <2>0, <2>1, <3>2
  <2>2. CASE j # i
    <3>1. NamesFor(j)' \subseteq NamesFor(j)
      BY <1>6, <2>2
    <3>2. Cardinality(NamesFor(j)') <= Cardinality(NamesFor(j))
      BY <2>0, <3>1, FS_Subset
    <3> QED
      BY <1>0, <1>2, <2>0, <2>2, <3>2
  <2> QED
    BY <2>1, <2>2
<1>8. AliasCover'
  BY <1>0, <1>1, <1>6 DEF NsTypeOK, NsInv, AliasCover
<1> QED
  BY <1>3, <1>4, <1>5, <1>7, <1>8 DEF NsInv

\* rename(): the name moves, and with it its link; the link of the name that
\* was there goes.
LEMMA NsRenameInv ==
  ASSUME NsInv, NEW t \in Threads, NEW n \in Names, NEW m \in Names, PathRename(t, n, m)
  PROVE  NsInv'
<1>0. TableInv /\ NsTypeOK /\ LinksOf \in [Inos -> Nat] /\ 0 \notin Inos /\ n # m
  BY CountsType, InosFacts DEF NsInv, PathRename
<1>1. CASE names[n] = 0 \/ names[n] = names[m]
  <2>1. UNCHANGED <<tableVars, nsVars>>
    BY <1>1 DEF PathRename
  <2>2. Operation /\ records' = records /\ LinksOf' = LinksOf
    BY <2>1 DEF Operation, tableVars, LinksOf
  <2> QED
    BY <2>1, <2>2, NsSame
<1>2. CASE ~(names[n] = 0 \/ names[n] = names[m])
  <2>0. PICK i \in Inos : i = names[n]
    BY <1>0, <1>2 DEF NsTypeOK
  <2> DEFINE k == names[m]
  <2>1. /\ IF k # 0 THEN RemoveLink(k) ELSE UNCHANGED tableVars
        /\ names' = [names EXCEPT ![m] = i, ![n] = 0]
        /\ aliases' = [j \in Inos |-> IF j = i THEN (aliases[j] \ {n}) \cup {m}
                                      ELSE IF j = k THEN aliases[j] \ {m}
                                      ELSE aliases[j]]
        /\ keys' = keys /\ object' = object
        /\ k # i
    BY <1>2, <2>0 DEF PathRename
  <2>2. /\ NamesFor(i)' = (NamesFor(i) \ {n}) \cup {m}
        /\ n \in NamesFor(i) /\ m \notin NamesFor(i)
        /\ \A j \in Inos \ {i} : NamesFor(j)' = NamesFor(j) \ {m}
    BY <1>0, <2>0, <2>1 DEF NsTypeOK, NamesFor
  <2>3. Cardinality(NamesFor(i)') = Cardinality(NamesFor(i))
    <3>1. /\ Cardinality(NamesFor(i) \ {n}) = Cardinality(NamesFor(i)) - 1
          /\ IsFiniteSet(NamesFor(i) \ {n}) /\ m \notin NamesFor(i) \ {n}
      BY <2>2, NamesFinitelyMany, FS_RemoveElement
    <3>2. Cardinality((NamesFor(i) \ {n}) \cup {m}) = Cardinality(NamesFor(i) \ {n}) + 1
      BY <3>1, FS_AddElement
    <3> QED
      BY <2>2, <3>1, <3>2, NamesFinitelyMany
  <2>4. /\ Operation /\ records' = records
        /\ LinksOf' = IF k = 0 THEN LinksOf ELSE [LinksOf EXCEPT ![k] = @ - 1]
        /\ k # 0 => k \in Inos /\ Cardinality(NamesFor(k) \ {m}) <= LinksOf[k] - 1
    <3>1. CASE k = 0
      <4>1. UNCHANGED tableVars
        BY <2>1, <3>1
      <4> QED
        BY <3>1, <4>1 DEF Operation, tableVars, LinksOf
    <3>2. CASE k # 0
      <4>1. k \in Inos /\ RemoveLink(k)
        BY <1>0, <2>1, <3>2 DEF NsTypeOK
      <4>2. /\ LinksOf' = [LinksOf EXCEPT ![k] = @ - 1]
            /\ Cardinality(NamesFor(k) \ {m}) <= LinksOf[k] - 1
            /\ Operation /\ records' = records
        BY <4>1, LinkRemoved
      <4> QED
        BY <3>2, <4>1, <4>2
    <3> QED
      BY <3>1, <3>2
  <2>5. TableInv' /\ KeysInv'
    BY <1>0, <2>1, <2>4, OperationInv, KeysKept DEF NsInv
  <2>6. NsTypeOK'
    BY <1>0, <2>1, <2>4 DEF NsTypeOK
  <2>7. LinksCover'
    <3> SUFFICES ASSUME NEW j \in Inos PROVE Cardinality(NamesFor(j)') <= LinksOf'[j]
      BY DEF LinksCover
    <3>0. Cardinality(NamesFor(j)) <= LinksOf[j]
      BY DEF NsInv, LinksCover
    <3>1. CASE j = i
      <4>1. LinksOf'[i] = LinksOf[i]
        BY <1>0, <2>1, <2>4
      <4> QED
        BY <2>3, <3>0, <3>1, <4>1
    <3>2. CASE j = k
      BY <1>0, <2>1, <2>2, <2>4, <3>2
    <3>3. CASE j # i /\ j # k
      <4>1. NamesFor(j)' = NamesFor(j)
        BY <2>2, <3>3 DEF NamesFor
      <4>2. LinksOf'[j] = LinksOf[j]
        BY <1>0, <2>4, <3>3
      <4> QED
        BY <3>0, <4>1, <4>2
    <3> QED
      BY <3>1, <3>2, <3>3
  <2>8. AliasCover'
    <3> SUFFICES ASSUME NEW j \in Inos PROVE NamesFor(j)' \subseteq aliases'[j]
      BY DEF AliasCover
    <3>1. NamesFor(j) \subseteq aliases[j]
      BY DEF NsInv, AliasCover
    <3>2. aliases'[j] = IF j = i THEN (aliases[j] \ {n}) \cup {m}
                        ELSE IF j = k THEN aliases[j] \ {m}
                        ELSE aliases[j]
      BY <2>1
    <3> QED
      BY <2>2, <3>1, <3>2
  <2> QED
    BY <2>5, <2>6, <2>7, <2>8 DEF NsInv
<1> QED
  BY <1>1, <1>2

-----------------------------------------------------------------------------
(* What a step leaves in the hands of its thread *)

\* The steps that leave the table and the names to the runtime.
Passing(t) ==
  \/ RuntimeStep(t) /\ UNCHANGED pathVars
  \/ List(t, "readdir") \/ List(t, "readdirplus")
  \/ Accept(t) \/ ListOk(t)

\* The steps that insert a name.
Inserting(t, n) ==
  PathLookup(t, n) \/ PathRevalidate(t, n) \/ PathMknod(t, n) \/ PathEmit(t, n)

\* The steps that remove a name.
Removing(t) ==
  (\E n \in Names : RemoveEntry(t, n)) \/ Refuse(t) \/ Rollback(t)

LEMMA StepKinds ==
  ASSUME NEW t \in Threads, PathRequest(t) \/ PathStep(t)
  PROVE  \/ Passing(t)
         \/ \E n \in Names : Inserting(t, n)
         \/ Removing(t)
         \/ \E n, m \in Names : PathRename(t, n, m)
         \/ \E i \in Inos, n \in Names : PathLink(t, i, n)
BY DEF PathRequest, PathStep, Passing, Inserting, Removing

HandsOK(t) == OnlyThread(t) /\ ThreadTypeOK(t)' /\ PathShape(t)'

LEMMA OnePathThread ==
  ASSUME ThreadsTypeOK, PathShapeInv, NEW t \in Threads, HandsOK(t)
  PROVE  ThreadsTypeOK' /\ PathShapeInv'
<1>1. \A u \in Threads \ {t} : pc'[u] = pc[u] /\ op'[u] = op[u] /\ id'[u] = id[u]
  BY DEF ThreadsTypeOK, HandsOK, OnlyThread
<1>2. ThreadsTypeOK'
  BY DEF ThreadsTypeOK, HandsOK, OnlyThread, ThreadTypeOK
<1>3. \A u \in Threads \ {t} : PathShape(u)'
  BY <1>1 DEF PathShapeInv, PathShape
<1> QED
  BY <1>2, <1>3 DEF PathShapeInv, HandsOK

LEMMA RuntimeHands ==
  ASSUME PathInv, NEW t \in Threads, RuntimeStep(t) \/ PlusRetain(t) \/ PlusOk(t)
  PROVE  HandsOK(t)
<1>1. /\ pc \in [Threads -> PCs] /\ op \in [Threads -> Ops] /\ id \in [Threads -> Inos \cup {0}]
      /\ want \in [Threads -> Nat] /\ gen \in [Threads -> Nat]
      /\ fh \in [Threads -> Fh \cup {0}] /\ buffer \in [Threads -> Seq(Entry)]
      /\ <<>> \in Seq(Entry)
  BY DEF PathInv, ThreadsTypeOK
<1>2. \A i \in DOMAIN map : i \in Inos /\ map[i].record \in Nat /\ map[i].generation \in Nat
  BY DEF PathInv, NsInv, TableInv, TableTypeOK, Slot
<1>3. PathShape(t)
  BY DEF PathInv, PathShapeInv
<1> USE <1>1, <1>2, <1>3 DEF Goto, Finish, requestVars, threadVars, HandsOK,
        OnlyThread, ThreadTypeOK, PathShape, PathOps, ListOps, PCs, Ops, DirWriters, DirReaders,
        EntryOps, EntryPCs, PlusPCs
<1>4. CASE EntryGet(t)
  <2>1. CASE id[t] \in DOMAIN map
    BY <1>4, <2>1 DEF EntryGet
  <2>2. CASE id[t] \notin DOMAIN map
    BY <1>4, <2>2 DEF EntryGet
  <2> QED
    BY <2>1, <2>2
<1>5. CASE EntryFail(t)
  BY <1>5 DEF EntryFail
<1>6. CASE EntryDone(t)
  BY <1>6 DEF EntryDone
<1>7. CASE EntryRetain(t)
  BY <1>7 DEF EntryRetain, RetainLookup
<1>8. CASE PlusEntry(t)
  BY <1>8 DEF PlusEntry
<1>9. CASE PlusFull(t)
  BY <1>9 DEF PlusFull
<1>10. CASE PlusError(t)
  BY <1>10 DEF PlusError
<1>11. CASE PlusUndo(t)
  <2>1. Tail(buffer[t]) \in Seq(Entry)
    BY <1>11, HeadTailProperties DEF PlusUndo
  <2> QED
    BY <1>11, <2>1 DEF PlusUndo
<1>12. CASE PlusUndone(t)
  BY <1>12 DEF PlusUndone
<1>13. CASE PlusDrop(t)
  BY <1>13 DEF PlusDrop
<1>14. CASE PlusReply(t)
  BY <1>14 DEF PlusReply
<1>15. CASE PlusReplyLost(t)
  BY <1>15 DEF PlusReplyLost
<1>16. CASE Reply(t)
  BY <1>16 DEF Reply
<1>17. CASE DropNode(t)
  <2>1. op[t] # "open"
    OBVIOUS
  <2> QED
    BY <1>17, <2>1 DEF DropNode
<1>18. CASE PlusOk(t)
  BY <1>18 DEF PlusOk
<1>19. CASE PlusRetain(t)
  <2> DEFINE e == [ino |-> id[t], gen |-> gen[t], record |-> want[t],
                   retained |-> id[t] \in DOMAIN map]
  <2>1. e \in Entry
    <3>1. id[t] \in Inos /\ gen[t] \in Nat /\ want[t] \in Nat
      BY <1>19 DEF PlusRetain
    <3>2. (id[t] \in DOMAIN map) \in BOOLEAN
      OBVIOUS
    <3> QED
      BY <3>1, <3>2, Zenon DEF Entry
  <2> HIDE DEF e
  <2>2. Append(buffer[t], e) \in Seq(Entry)
    BY <2>1, AppendProperties
  <2>3. buffer' = [buffer EXCEPT ![t] = Append(buffer[t], e)]
    BY <1>19 DEF PlusRetain, e
  <2> QED
    BY <1>19, <2>2, <2>3 DEF PlusRetain
<1> QED
  BY <1>4, <1>5, <1>6, <1>7, <1>8, <1>9, <1>10, <1>11, <1>12, <1>13, <1>14, <1>15,
     <1>16, <1>17, <1>18, <1>19 DEF RuntimeStep

LEMMA PathHands ==
  ASSUME PathInv, NEW t \in Threads, PathRequest(t) \/ PathStep(t)
  PROVE  HandsOK(t)
<1>1. /\ pc \in [Threads -> PCs] /\ op \in [Threads -> Ops] /\ id \in [Threads -> Inos \cup {0}]
      /\ want \in [Threads -> Nat] /\ gen \in [Threads -> Nat]
      /\ fh \in [Threads -> Fh \cup {0}] /\ buffer \in [Threads -> Seq(Entry)]
  BY DEF PathInv, ThreadsTypeOK
<1>2. /\ \A i \in DOMAIN map : i \in Inos /\ map[i].record \in Nat
      /\ store \in [Names -> 0..MaxObjects] /\ objects \in 0..MaxObjects /\ MaxObjects \in Nat
  BY ObjectsAssumption DEF PathInv, NsInv, TableInv, TableTypeOK, Slot, RestTypeOK
<1>3. PathShape(t)
  BY DEF PathInv, PathShapeInv
<1>4. ASSUME threadVars' = threadVars PROVE HandsOK(t)
  BY <1>1, <1>3, <1>4 DEF threadVars, requestVars, HandsOK, OnlyThread, ThreadTypeOK, PathShape
<1>5. ASSUME NEW i \in Inos, NEW r \in Nat, NEW o, NEW l,
             \/ o \in {"lookup", "revalidate", "mknod", "link"} /\ l = "entry"
             \/ o \in ListOps /\ l = "rdp",
             Start(t, o, i, r, 0, l)
      PROVE  HandsOK(t)
  BY <1>1, <1>5 DEF Start, Goto, HandsOK, OnlyThread, ThreadTypeOK, PathShape, PathOps, ListOps,
     PCs, Ops, DirWriters, DirReaders, EntryOps, EntryPCs, PlusPCs
<1>6. CASE Passing(t)
  <2>1. CASE RuntimeStep(t)
    BY <2>1, RuntimeHands
  <2>2. ASSUME NEW o \in {"readdir", "readdirplus"}, List(t, o) PROVE HandsOK(t)
    <3>1. CASE ROOT \in DOMAIN map
      <4>1. Start(t, o, ROOT, map[ROOT].record, 0, "rdp") /\ o \in ListOps
        BY <2>2, <3>1 DEF List, StartOnNode, ListOps
      <4> QED
        BY <1>2, <1>5, <3>1, <4>1
    <3>2. CASE ROOT \notin DOMAIN map
      BY <1>4, <2>2, <3>2 DEF List, StartOnNode
    <3> QED
      BY <3>1, <3>2
  <2>3. CASE Accept(t)
    <3>1. CASE op[t] = "readdirplus"
      BY <2>3, <3>1, RuntimeHands DEF Accept
    <3>2. CASE op[t] # "readdirplus"
      <4>1. Goto(t, "rdp") /\ requestVars' = requestVars
        BY <2>3, <3>2 DEF Accept
      <4> QED
        BY <1>1, <1>3, <2>3, <3>2, <4>1 DEF Accept, Goto, requestVars, HandsOK, OnlyThread,
           ThreadTypeOK, PathShape, PCs, ListOps, EntryPCs, PlusPCs
    <3> QED
      BY <3>1, <3>2
  <2>4. CASE ListOk(t)
    BY <2>4, RuntimeHands DEF ListOk
  <2> QED
    BY <1>6, <2>1, <2>2, <2>3, <2>4 DEF Passing
<1>7. ASSUME NEW n \in Names, Inserting(t, n) PROVE HandsOK(t)
  <2>1. ASSUME NEW o \in 0..MaxObjects, NsInsert(n, o) PROVE NsId(n) \in Inos /\ NsRecord(n) \in Nat
    BY <2>1, NsInsertInv DEF PathInv
  <2>2. store[n] \in 0..MaxObjects
    BY <1>2
  <2>3. CASE PathLookup(t, n) \/ PathRevalidate(t, n)
    <3>1. PICK o \in {"lookup", "revalidate"} :
            Start(t, o, NsId(n), NsRecord(n), 0, "entry") /\ NsInsert(n, store[n])
      BY <2>3 DEF PathLookup, PathRevalidate, LookupName
    <3> QED
      BY <1>5, <2>1, <2>2, <3>1
  <2>4. CASE PathMknod(t, n)
    <3>1. /\ Start(t, "mknod", NsId(n), NsRecord(n), 0, "entry")
          /\ NsInsert(n, objects + 1) /\ objects + 1 \in 0..MaxObjects
      BY <1>2, <2>4 DEF PathMknod
    <3> QED
      BY <1>5, <2>1, <3>1
  <2>5. CASE PathEmit(t, n)
    <3>1. NsInsert(n, store[n])
      BY <2>5 DEF PathEmit
    <3>2. NsId(n) \in Inos /\ NsRecord(n) \in Nat
      BY <2>1, <2>2, <3>1
    <3> QED
      BY <1>1, <1>3, <2>5, <3>2 DEF PathEmit, Goto, HandsOK, OnlyThread, ThreadTypeOK, PathShape,
         PCs, PathOps, ListOps, EntryPCs, PlusPCs, Ops
  <2> QED
    BY <1>7, <2>3, <2>4, <2>5 DEF Inserting
<1>8. CASE Removing(t)
  BY <1>4, <1>8 DEF Removing, RemoveEntry, Refuse, Rollback
<1>9. ASSUME NEW n \in Names, NEW m \in Names, PathRename(t, n, m) PROVE HandsOK(t)
  BY <1>4, <1>9 DEF PathRename
<1>10. ASSUME NEW i \in Inos, NEW n \in Names, PathLink(t, i, n) PROVE HandsOK(t)
  <2>1. Start(t, "link", i, map[i].record, 0, "entry") /\ map[i].record \in Nat
    BY <1>10, NsLinkInv DEF PathLink, PathInv
  <2> QED
    BY <1>5, <2>1
<1> QED
  BY <1>6, <1>7, <1>8, <1>9, <1>10, StepKinds

-----------------------------------------------------------------------------
(* The invariant *)

\* What the runtime does for the adapter changes no name and no link.
LEMMA PassingTable ==
  ASSUME PathInv, NEW t \in Threads, Passing(t)
  PROVE  Operation /\ records' = records /\ LinksOf' = LinksOf /\ UNCHANGED nsVars
<1>0. TableInv /\ t \in Holders /\ DOMAIN map \subseteq Inos /\ ROOT \in Inos
  BY InosFacts DEF PathInv, NsInv, Threads, TableInv, TableTypeOK
<1>1. UNCHANGED nsVars
  BY DEF Passing, RuntimeStep, EntryGet, EntryFail, EntryDone, EntryRetain, PlusEntry, PlusFull,
     PlusError, PlusUndo, PlusUndone, PlusDrop, PlusReply, PlusReplyLost, Reply, DropNode, List,
     StartOnNode, Accept, PlusRetain, ListOk, PlusOk, fsVars, nsVars, pathVars
<1> SUFFICES Operation /\ records' = records /\ LinksOf' = LinksOf
  BY <1>1
<1>2. ASSUME UNCHANGED tableVars \/ DropRef(t) \/ \E i \in Inos : Get(t, i)
      PROVE  Operation /\ records' = records /\ LinksOf' = LinksOf
  <2>1. Operation /\ LinksOf' = LinksOf
    BY <1>0, <1>2, QuietCounts DEF Operation
  <2>2. records' = records
    BY <1>2 DEF tableVars, DropRef, Get
  <2> QED
    BY <2>1, <2>2
<1>3. ASSUME NEW i \in Inos, RetainLookup(i)
      PROVE  Operation /\ records' = records /\ LinksOf' = LinksOf
  BY <1>0, <1>3, RetainCounts DEF Operation, Counting, RetainLookup
<1>4. CASE RuntimeStep(t)
  <2>1. CASE EntryRetain(t)
    BY <1>0, <1>3, <2>1 DEF EntryRetain, RetainLookup
  <2>2. CASE PlusUndo(t)
    <3> DEFINE e == Head(buffer[t])
    <3>1. CASE e.retained /\ e.ino \in DOMAIN map
      <4>1. Forget(e.ino, 1) /\ e.ino \in Inos
        BY <1>0, <2>2, <3>1 DEF PlusUndo
      <4> HIDE DEF e
      <4>2. LinksOf' = LinksOf
        BY <1>0, <3>1, <4>1, ForgetCounts
      <4> QED
        BY <4>1, <4>2 DEF Operation, Counting, Forget
    <3>2. CASE ~(e.retained /\ e.ino \in DOMAIN map)
      BY <1>2, <2>2, <3>2 DEF PlusUndo
    <3> QED
      BY <3>1, <3>2
  <2>3. CASE EntryGet(t)
    BY <1>0, <1>2, <2>3 DEF EntryGet
  <2>4. CASE EntryFail(t) \/ EntryDone(t) \/ PlusDrop(t) \/ DropNode(t)
    BY <1>2, <2>4 DEF EntryFail, EntryDone, PlusDrop, DropNode
  <2>5. CASE PlusEntry(t) \/ PlusFull(t) \/ PlusError(t) \/ PlusUndone(t) \/ PlusReply(t)
             \/ PlusReplyLost(t) \/ Reply(t)
    BY <1>2, <2>5 DEF PlusEntry, PlusFull, PlusError, PlusUndone, PlusReply, PlusReplyLost, Reply
  <2> QED
    BY <1>4, <2>1, <2>2, <2>3, <2>4, <2>5 DEF RuntimeStep
<1>5. ASSUME NEW o, List(t, o) PROVE Operation /\ records' = records /\ LinksOf' = LinksOf
  <2>1. CASE ROOT \in DOMAIN map
    BY <1>0, <1>2, <1>5, <2>1 DEF List, StartOnNode
  <2>2. CASE ROOT \notin DOMAIN map
    BY <1>2, <1>5, <2>2 DEF List, StartOnNode
  <2> QED
    BY <2>1, <2>2
<1>6. CASE Accept(t)
  <2>1. CASE op[t] = "readdirplus" /\ id[t] \in DOMAIN map
    <3>1. RetainLookup(id[t])
      BY <1>6, <2>1 DEF Accept, PlusRetain
    <3> QED
      BY <1>0, <1>3, <2>1, <3>1
  <2>2. CASE ~(op[t] = "readdirplus" /\ id[t] \in DOMAIN map)
    BY <1>2, <1>6, <2>2 DEF Accept, PlusRetain
  <2> QED
    BY <2>1, <2>2
<1>7. CASE ListOk(t)
  BY <1>2, <1>7 DEF ListOk, PlusOk
<1> QED
  BY <1>4, <1>5, <1>6, <1>7 DEF Passing

LEMMA PathNs ==
  ASSUME PathInv, NEW t \in Threads, PathRequest(t) \/ PathStep(t)
  PROVE  NsInv'
<1>0. /\ NsInv /\ store \in [Names -> 0..MaxObjects] /\ objects \in 0..MaxObjects
      /\ MaxObjects \in Nat /\ inserted \in [Threads -> Seq(Names)]
      /\ fresh \in [Threads -> Seq(Names)]
  BY ObjectsAssumption DEF PathInv, RestTypeOK
<1>1. CASE Passing(t)
  BY <1>0, <1>1, PassingTable, NsSame
<1>2. ASSUME NEW n \in Names, Inserting(t, n) PROVE NsInv'
  <2>1. \E o \in 0..MaxObjects : NsInsert(n, o)
    <3>1. store[n] \in 0..MaxObjects
      BY <1>0
    <3>2. CASE PathMknod(t, n)
      <4>1. NsInsert(n, objects + 1) /\ objects + 1 \in 0..MaxObjects
        BY <1>0, <3>2 DEF PathMknod
      <4> QED
        BY <4>1
    <3>3. CASE ~PathMknod(t, n)
      <4>1. NsInsert(n, store[n])
        BY <1>2, <3>3 DEF Inserting, PathLookup, PathRevalidate, LookupName, PathEmit
      <4> QED
        BY <3>1, <4>1
    <3> QED
      BY <3>2, <3>3
  <2> QED
    BY <1>0, <2>1, NsInsertInv
<1>3. CASE Removing(t)
  <2>1. \E n \in Names : NsRemove(n)
    <3>1. ASSUME NEW n \in Names, RemoveEntry(t, n) PROVE NsRemove(n)
      BY <3>1 DEF RemoveEntry
    <3>2. CASE Refuse(t)
      <4>1. fresh[t] # <<>> /\ fresh[t] \in Seq(Names) /\ NsRemove(fresh[t][1])
        BY <1>0, <3>2 DEF Refuse
      <4>2. fresh[t][1] \in Names
        BY <4>1
      <4> QED
        BY <4>1, <4>2
    <3>3. CASE Rollback(t)
      <4>1. /\ inserted[t] # <<>> /\ inserted[t] \in Seq(Names)
            /\ NsRemove(inserted[t][Len(inserted[t])])
        BY <1>0, <3>3 DEF Rollback
      <4>2. inserted[t][Len(inserted[t])] \in Names
        BY <4>1
      <4> QED
        BY <4>1, <4>2
    <3> QED
      BY <1>3, <3>1, <3>2, <3>3 DEF Removing
  <2> QED
    BY <1>0, <2>1, NsRemoveInv
<1> QED
  BY <1>0, <1>1, <1>2, <1>3, NsRenameInv, NsLinkInv, StepKinds

LEMMA PathRest ==
  ASSUME PathInv, NEW t \in Threads, PathRequest(t) \/ PathStep(t), faults' = faults
  PROVE  RestTypeOK'
<1>0. /\ RestTypeOK /\ MaxObjects \in Nat /\ <<>> \in Seq(Names)
      /\ inserted[t] \in Seq(Names) /\ fresh[t] \in Seq(Names)
  BY ObjectsAssumption DEF PathInv, RestTypeOK
<1>1. files' = files /\ next_fh' = next_fh
  BY DEF PathRequest, PathStep, RuntimeStep, EntryGet, EntryFail, EntryDone, EntryRetain, PlusEntry,
     PlusFull, PlusError, PlusUndo, PlusUndone, PlusDrop, PlusReply, PlusReplyLost, Reply, DropNode,
     List, StartOnNode, Accept, PlusRetain, ListOk, PlusOk, PathLookup, PathRevalidate, LookupName,
     PathMknod, PathEmit, RemoveEntry, Refuse, Rollback, PathRename, PathLink, handleVars
<1>2. /\ klookup' \in [Inos -> Nat] /\ kident' \in [Inos -> [gen : Nat, record : Nat]]
      /\ kopen' \subseteq Fh \X Inos
  <2>0. /\ klookup \in [Inos -> Nat] /\ kident \in [Inos -> [gen : Nat, record : Nat]]
        /\ kopen \subseteq Fh \X Inos /\ want[t] \in Nat /\ gen[t] \in Nat
        /\ op[t] \notin {"open", "create"}
    BY DEF PathInv, RestTypeOK, ThreadsTypeOK, PathShapeInv, PathShape, PathOps
  <2>1. CASE PlusReply(t)
    <3>0. TypeOK
      BY PathTypes DEF PathTypeOK
    <3>1. \A i \in Inos : Cardinality(EntriesFor(t, i)) \in Nat
      BY <3>0, LastForType
    <3>2. \A i \in Inos : EntriesFor(t, i) # {} => LastFor(t, i) \in [gen : Nat, record : Nat]
      <4> SUFFICES ASSUME NEW i \in Inos, EntriesFor(t, i) # {}
                   PROVE  LastFor(t, i) \in [gen : Nat, record : Nat]
        OBVIOUS
      <4>1. PICK a \in EntriesFor(t, i) :
              LastFor(t, i) = [gen |-> buffer[t][a].gen, record |-> buffer[t][a].record]
        BY <3>0, LastForType
      <4>2. buffer[t] \in Seq(Entry) /\ a \in 1..Len(buffer[t])
        BY <3>0 DEF TypeOK, EntriesFor
      <4>3. buffer[t][a] \in Entry
        BY <4>2
      <4> QED
        BY <4>1, <4>3 DEF Entry
    <3> QED
      BY <2>0, <2>1, <3>1, <3>2 DEF PlusReply
  <2>2. CASE Reply(t)
    <3>1. op[t] # "open" /\ op[t] # "create"
      BY <2>0
    <3>2. /\ klookup' = [klookup EXCEPT ![id[t]] = @ + 1] /\ kopen' = kopen
          /\ kident' = [kident EXCEPT ![id[t]] = [gen |-> gen[t], record |-> want[t]]]
      BY <2>2, <3>1 DEF Reply
    <3>3. klookup' \in [Inos -> Nat]
      <4>1. klookup' = [j \in Inos |-> IF j = id[t] THEN klookup[j] + 1 ELSE klookup[j]]
        BY <2>0, <3>2
      <4>2. \A j \in Inos : (IF j = id[t] THEN klookup[j] + 1 ELSE klookup[j]) \in Nat
        BY <2>0
      <4> QED
        BY <4>1, <4>2
    <3>4. [gen |-> gen[t], record |-> want[t]] \in [gen : Nat, record : Nat]
      BY <2>0
    <3>5. kident' \in [Inos -> [gen : Nat, record : Nat]]
      BY <2>0, <3>2, <3>4
    <3> QED
      BY <2>0, <3>2, <3>3, <3>5
  <2>3. CASE ~PlusReply(t) /\ ~Reply(t)
    <3>1. klookup' = klookup /\ kident' = kident /\ kopen' = kopen
      BY <2>3 DEF PathRequest, PathStep, RuntimeStep, EntryGet, EntryFail, EntryDone, EntryRetain,
         PlusEntry, PlusFull, PlusError, PlusUndo, PlusUndone, PlusDrop, PlusReplyLost, DropNode,
         List, StartOnNode, Accept, PlusRetain, ListOk, PlusOk, PathLookup, PathRevalidate,
         LookupName, PathMknod, PathEmit, RemoveEntry, Refuse, Rollback, PathRename, PathLink,
         kernelVars
    <3> QED
      BY <2>0, <3>1
  <2> QED
    BY <2>1, <2>2, <2>3
<1>3. store' \in [Names -> 0..MaxObjects] /\ objects' \in 0..MaxObjects
  <2>0. store \in [Names -> 0..MaxObjects] /\ objects \in 0..MaxObjects
    BY <1>0 DEF RestTypeOK
  <2>1. CASE Passing(t) \/ Refuse(t) \/ Rollback(t)
    BY <2>0, <2>1 DEF Passing, List, Accept, ListOk, Refuse, Rollback, pathVars, storeVars
  <2>2. ASSUME NEW n \in Names, Inserting(t, n)
        PROVE  store' \in [Names -> 0..MaxObjects] /\ objects' \in 0..MaxObjects
    <3>1. CASE PathMknod(t, n)
      BY <1>0, <2>0, <3>1 DEF PathMknod
    <3>2. CASE ~PathMknod(t, n)
      BY <2>0, <2>2, <3>2 DEF Inserting, PathLookup, PathRevalidate, LookupName, PathEmit, storeVars
    <3> QED
      BY <3>1, <3>2
  <2>3. ASSUME NEW n \in Names, RemoveEntry(t, n)
        PROVE  store' \in [Names -> 0..MaxObjects] /\ objects' \in 0..MaxObjects
    BY <1>0, <2>0, <2>3 DEF RemoveEntry
  <2>4. ASSUME NEW n \in Names, NEW m \in Names, PathRename(t, n, m)
        PROVE  store' \in [Names -> 0..MaxObjects] /\ objects' \in 0..MaxObjects
    <3>1. InnerRename(n, m) /\ store[n] \in 0..MaxObjects /\ MaxObjects \in Nat
      BY <1>0, <2>0, <2>4 DEF PathRename
    <3>2. CASE UNCHANGED storeVars
      BY <2>0, <3>2 DEF storeVars
    <3>3. ASSUME NEW o \in 0..MaxObjects, store' = [store EXCEPT ![m] = store[n], ![n] = o]
          PROVE  store' \in [Names -> 0..MaxObjects]
      BY <2>0, <3>1, <3>3
    <3>4. CASE objects' = objects /\ store' = [store EXCEPT ![m] = store[n], ![n] = 0]
      BY <2>0, <3>1, <3>3, <3>4
    <3>5. CASE /\ objects < MaxObjects /\ objects' = objects + 1
               /\ store' = [store EXCEPT ![m] = store[n], ![n] = objects + 1]
      BY <2>0, <3>1, <3>3, <3>5
    <3> QED
      BY <3>1, <3>2, <3>4, <3>5 DEF InnerRename
  <2>5. ASSUME NEW i \in Inos, NEW n \in Names, PathLink(t, i, n)
        PROVE  store' \in [Names -> 0..MaxObjects] /\ objects' \in 0..MaxObjects
    <3>1. PICK a \in aliases[i] : store' = [store EXCEPT ![n] = store[a]]
      BY <2>5 DEF PathLink
    <3>2. a \in Names
      BY <3>1 DEF PathInv, NsInv, NsTypeOK
    <3> QED
      BY <2>0, <2>5, <3>1, <3>2 DEF PathLink
  <2> QED
    BY <2>1, <2>2, <2>3, <2>4, <2>5, StepKinds DEF Removing
<1>5. file' \in [1..MaxObjects -> 1..MaxObjects]
  <2>0. /\ file \in [1..MaxObjects -> 1..MaxObjects] /\ MaxObjects \in Nat
        /\ store \in [Names -> 0..MaxObjects] /\ objects \in 0..MaxObjects
    BY <1>0 DEF RestTypeOK
  <2>1. ASSUME NEW n \in Names, NEW m \in Names, PathRename(t, n, m)
        PROVE  file' \in [1..MaxObjects -> 1..MaxObjects]
    <3>1. InnerRename(n, m) /\ store[n] \in 1..MaxObjects
      BY <2>0, <2>1 DEF PathRename
    <3>2. file[store[n]] \in 1..MaxObjects
      BY <2>0, <3>1
    <3> QED
      BY <2>0, <3>1, <3>2 DEF InnerRename, storeVars
  <2>2. CASE ~\E n, m \in Names : PathRename(t, n, m)
    <3>1. file' = file
      BY <2>2, StepKinds DEF Passing, List, Accept, ListOk, Inserting, PathLookup, PathRevalidate,
         LookupName, PathMknod, PathEmit, Removing, RemoveEntry, Refuse, Rollback, PathLink,
         pathVars, storeVars
    <3> QED
      BY <2>0, <3>1
  <2> QED
    BY <2>1, <2>2
<1>4. inserted' \in [Threads -> Seq(Names)] /\ fresh' \in [Threads -> Seq(Names)]
  <2>0. inserted \in [Threads -> Seq(Names)] /\ fresh \in [Threads -> Seq(Names)]
    BY <1>0 DEF RestTypeOK
  <2>1. CASE Accept(t)
    <3>1. inserted[t] \o fresh[t] \in Seq(Names)
      BY <1>0, ConcatProperties
    <3> QED
      BY <1>0, <2>0, <2>1, <3>1 DEF Accept
  <2>2. CASE Rollback(t)
    <3>1. Len(inserted[t]) \in Nat /\ Len(inserted[t]) >= 1
      BY <1>0, <2>2 DEF Rollback
    <3>2. SubSeq(inserted[t], 1, Len(inserted[t]) - 1) \in Seq(Names)
      BY <1>0, <3>1, PopProperties
    <3> QED
      BY <2>0, <2>2, <3>2 DEF Rollback
  <2>3. CASE ListOk(t) \/ Refuse(t)
    BY <1>0, <2>0, <2>3 DEF ListOk, Refuse
  <2>4. ASSUME NEW n \in Names, PathEmit(t, n)
        PROVE  inserted' \in [Threads -> Seq(Names)] /\ fresh' \in [Threads -> Seq(Names)]
    <3>1. <<n>> \in Seq(Names)
      OBVIOUS
    <3> QED
      BY <1>0, <2>0, <2>4, <3>1 DEF PathEmit
  <2>5. CASE ~Accept(t) /\ ~Rollback(t) /\ ~ListOk(t) /\ ~Refuse(t) /\ ~\E n \in Names : PathEmit(t, n)
    <3>1. inserted' = inserted /\ fresh' = fresh
      BY <2>5 DEF PathRequest, PathStep, List, PathLookup, PathRevalidate, LookupName, PathMknod,
         RemoveEntry, PathRename, PathLink, listVars, pathVars
    <3> QED
      BY <2>0, <3>1
  <2> QED
    BY <2>1, <2>2, <2>3, <2>4, <2>5
<1> QED
  BY <1>0, <1>1, <1>2, <1>3, <1>4, <1>5 DEF RestTypeOK

LEMMA PathForgetInv ==
  ASSUME PathInv, NEW i \in Inos, NEW n \in 1..MaxLookups, PathForget(i, n), faults' = faults
  PROVE  PathInv'
<1>0. TableInv /\ n \in Nat /\ NsInv
  BY RuntimeBoundsNat DEF PathInv, NsInv
<1>1. /\ IF i \in DOMAIN map THEN Forget(i, n) ELSE UNCHANGED tableVars
      /\ n <= klookup[i] /\ klookup' = [klookup EXCEPT ![i] = @ - n]
      /\ UNCHANGED <<names, files, next_fh, kident, kopen, store, objects, file, aliases, keys,
                     object, inserted, fresh>>
      /\ UNCHANGED <<pc, op, id, want, gen, fh, buffer>>
  BY DEF PathForget, KernelForget, fsVars, handleVars, threadVars, requestVars, pathVars,
     storeVars, listVars
<1>2. LinksOf' = LinksOf
  BY <1>0, <1>1, ForgetCounts
<1>3. Operation /\ records' = records
  BY <1>0, <1>1 DEF Operation, Counting, Forget, tableVars
<1>4. NsInv'
  BY <1>0, <1>1, <1>2, <1>3, NsSame DEF nsVars
<1>5. klookup' \in [Inos -> Nat]
  BY <1>0, <1>1 DEF PathInv, RestTypeOK
<1>6. RestTypeOK'
  BY <1>1, <1>5 DEF PathInv, RestTypeOK
<1>7. ThreadsTypeOK' /\ PathShapeInv'
  BY <1>1 DEF PathInv, ThreadsTypeOK, PathShapeInv, PathShape
<1> QED
  BY <1>4, <1>6, <1>7 DEF PathInv

LEMMA PathInitInv == PathInit => PathInv
<1> SUFFICES ASSUME PathInit PROVE PathInv
  OBVIOUS
<1>0. /\ Init /\ TableInit /\ objects = Cardinality(Names) /\ store \in [Names -> 0..objects]
      /\ file \in [1..MaxObjects -> 1..MaxObjects]
      /\ aliases = [i \in Inos |-> {}] /\ keys = [r \in {1} |-> ROOT] /\ object = [r \in {1} |-> 0]
      /\ inserted = [t \in Threads |-> <<>>] /\ fresh = [t \in Threads |-> <<>>]
      /\ MaxObjects \in Nat /\ Cardinality(Names) <= MaxObjects /\ Cardinality(Names) \in Nat
      /\ ROOT \in Inos /\ 0 \notin Inos
  BY ObjectsAssumption, InosFacts, NamesFinite, FS_CardinalityType DEF PathInit, Init
<1>1. TableInv /\ records = 1 /\ map = [i \in {ROOT} |-> NewSlot(1, 0, ROOT)]
  BY <1>0, InitInv DEF TableInit
<1>2. NsTypeOK
  <2>1. 1..1 = {1}
    OBVIOUS
  <2>2. names = [n \in Names |-> 0]
    BY <1>0 DEF Init
  <2> QED
    BY <1>0, <1>1, <2>1, <2>2 DEF NsTypeOK
<1>3. \A i \in Inos : NamesFor(i) = {}
  BY <1>0 DEF Init, NamesFor
<1>4. LinksCover /\ AliasCover
  <2>1. LinksOf \in [Inos -> Nat] /\ Cardinality({}) = 0
    BY <1>1, CountsType, FS_EmptySet
  <2> QED
    BY <1>3, <2>1 DEF LinksCover, AliasCover
<1>5. KeysInv
  <2>1. NewSlot(1, 0, ROOT).record = 1
    BY DEF NewSlot
  <2>2. keys[1] = ROOT
    BY <1>0
  <2> QED
    BY <1>1, <2>1, <2>2 DEF KeysInv
<1>6. RestTypeOK
  <2>1. store \in [Names -> 0..MaxObjects] /\ objects \in 0..MaxObjects
    BY <1>0
  <2> QED
    BY <1>0, <2>1, RuntimeBoundsNat DEF Init, RestTypeOK
<1>7. ThreadsTypeOK /\ PathShapeInv
  BY <1>0 DEF Init, ThreadsTypeOK, PathShapeInv, PathShape, PathOps, PCs, Ops, DirWriters,
     DirReaders, EntryPCs, PlusPCs
<1> QED
  BY <1>1, <1>2, <1>4, <1>5, <1>6, <1>7 DEF PathInv, NsInv

LEMMA PathStepInv == PathInv /\ [PathNext]_allVars => PathInv'
<1> SUFFICES ASSUME PathInv, [PathNext]_allVars PROVE PathInv'
  OBVIOUS
<1>1. ASSUME NEW t \in Threads, PathRequest(t) \/ PathStep(t), faults' = faults PROVE PathInv'
  <2>1. NsInv' /\ RestTypeOK' /\ HandsOK(t)
    BY <1>1, PathNs, PathRest, PathHands
  <2>2. ThreadsTypeOK' /\ PathShapeInv'
    BY <2>1, OnePathThread DEF PathInv
  <2> QED
    BY <2>1, <2>2 DEF PathInv
<1>2. ASSUME NEW i \in Inos, NEW n \in 1..MaxLookups, PathForget(i, n), faults' = faults
      PROVE  PathInv'
  BY <1>2, PathForgetInv
<1>3. CASE UNCHANGED allVars
  <2>1. UNCHANGED tableVars /\ UNCHANGED nsVars
    BY <1>3 DEF allVars, vars, pathVars, fsVars, nsVars
  <2>2. Operation /\ records' = records /\ LinksOf' = LinksOf
    BY <2>1 DEF Operation, tableVars, LinksOf
  <2>3. NsInv'
    BY <2>1, <2>2, NsSame DEF PathInv
  <2>4. RestTypeOK'
    BY <1>3 DEF PathInv, RestTypeOK, allVars, vars, pathVars, handleVars, kernelVars, storeVars, listVars
  <2>5. ThreadsTypeOK' /\ PathShapeInv'
    BY <1>3 DEF PathInv, ThreadsTypeOK, PathShapeInv, PathShape, allVars, vars, threadVars, requestVars
  <2> QED
    BY <2>3, <2>4, <2>5 DEF PathInv
<1> QED
  BY <1>1, <1>2, <1>3 DEF PathNext

\* The inductive invariant of the path adapter, whatever the kernel orders.
THEOREM PathInvariance == PathSpec => []PathInv
BY PathInitInv, PathStepInv, PTL DEF PathSpec

\* The adapter's structures, the runtime behind them and the requests on their
\* way keep their types.
THEOREM PathTypeCorrect == PathSpec => []PathTypeOK
BY PathInvariance, PathTypes, PTL

LEMMA BackedNow == PathInv => DentryBacked
<1> SUFFICES ASSUME PathInv PROVE DentryBacked
  OBVIOUS
<1>0. NsInv /\ TableInv
  BY DEF PathInv, NsInv
<1>1. ASSUME NEW n \in Names, names[n] # 0
      PROVE  names[n] \in DOMAIN map /\ n \in aliases[names[n]]
  <2>1. names[n] \in Inos /\ names[n] \in DOMAIN map
    BY <1>0, <1>1, NameThere
  <2>2. n \in NamesFor(names[n])
    BY DEF NamesFor
  <2> QED
    BY <1>0, <2>1, <2>2 DEF NsInv, AliasCover
<1>2. ASSUME NEW i \in DOMAIN map
      PROVE  Cardinality({n \in Names : names[n] = i}) <= map[i].links
  BY <1>0, CountsThere DEF NsInv, LinksCover, NamesFor
<1> QED
  BY <1>0, <1>1, <1>2 DEF NsInv, KeysInv, DentryBacked

\* No roll-back, rename or link leaves a name whose node is gone, or whose
\* number has been given to another node: not even with lookups and listings
\* of the directory in parallel.
THEOREM DentryBackedHolds == PathSpec => []DentryBacked
BY PathInvariance, BackedNow, PTL

-----------------------------------------------------------------------------
(* Requests on the directory one at a time: with the kernel's lock, and    *)
(* without parallel directory operations                                   *)

DirOps == DirWriters \cup DirReaders

\* The object that number i is for.
ObjectOf(i) == object[map[i].record]

\* The namespace has exactly the links, and every alias is a name.
AliasInv == \A i \in Inos : aliases[i] = NamesFor(i)

\* A new object is new.
StoreInv ==
  /\ \A n \in Names : store[n] <= objects
  /\ \A r \in 1..records : object[r] <= objects

\* Only the root is for no object.
RootInv == \A i \in DOMAIN map : ObjectOf(i) = 0 => i = ROOT

DentryInv ==
  \A n \in Names : names[n] # 0 => store[n] # 0 /\ ObjectOf(names[n]) = store[n]

\* An object with two names has been looked up, and is known by both.
TwinInv ==
  \A n, m \in Names :
    n # m /\ store[n] = store[m] /\ store[n] # 0 => names[n] = names[m] /\ names[n] # 0

DirInv ==
  /\ LinksInv
  /\ AliasInv
  /\ StoreInv
  /\ RootInv
  /\ DentryInv
  /\ TwinInv

\* A number that stays in the table stays for its object.
LEMMA ObjectKept ==
  ASSUME NsInv, Operation, \A r \in 1..records : object'[r] = object[r]
  PROVE  \A i \in DOMAIN map \cap DOMAIN map' : ObjectOf(i)' = ObjectOf(i)
<1>1. \A i \in DOMAIN map : map[i].record \in 1..records
  BY DEF NsInv, KeysInv
<1>2. \A i \in DOMAIN map \cap DOMAIN map' : map'[i].record = map[i].record
  BY OperationKeepsNodes DEF NsInv, SameNode
<1> QED
  BY <1>1, <1>2 DEF ObjectOf

NamesIn == \A n \in Names : names[n] # 0 => names[n] \in DOMAIN map

LEMMA NamesAreIn == NsInv => NamesIn
BY NameThere DEF NamesIn

LEMMA NamesAreInNext == NsInv' => NamesIn'
BY NamesAreIn, PTL

\* A step that leaves the names, the links and the inner filesystem alone.
LEMMA DirSame ==
  ASSUME NsInv, NsInv', DirInv, Operation, records' = records, LinksOf' = LinksOf,
         UNCHANGED nsVars, UNCHANGED storeVars
  PROVE  DirInv'
<1>0. /\ names' = names /\ aliases' = aliases /\ object' = object
      /\ store' = store /\ objects' = objects
  BY DEF nsVars, storeVars
<1>1. \A i \in DOMAIN map \cap DOMAIN map' : ObjectOf(i)' = ObjectOf(i)
  BY <1>0, ObjectKept
<1>2. DOMAIN map' \subseteq DOMAIN map
  BY NoNewNodes DEF NsInv
<1>3. \A i : NamesFor(i)' = NamesFor(i)
  BY <1>0 DEF NamesFor
<1>4. LinksInv' /\ AliasInv'
  BY <1>0, <1>3 DEF DirInv, LinksInv, AliasInv
<1>5. StoreInv' /\ TwinInv'
  BY <1>0 DEF DirInv, StoreInv, TwinInv
<1>6. RootInv'
  BY <1>1, <1>2 DEF DirInv, RootInv
<1>7. DentryInv'
  BY <1>0, <1>1, NamesAreIn, NamesAreInNext DEF NamesIn, DirInv, DentryInv
<1> QED
  BY <1>4, <1>5, <1>6, <1>7 DEF DirInv

\* A name of object o that has no dentry gets one.
LEMMA DirInsert ==
  ASSUME NsInv, NsInv', DirInv, NEW n \in Names, NEW o \in 1..MaxObjects,
         NsInsert(n, o), names[n] = 0,
         store \in [Names -> Nat], objects \in Nat, objects' \in Nat,
         store' = [store EXCEPT ![n] = o], objects <= objects', o <= objects',
         \A m \in Names \ {n} : store[m] # o
  PROVE  /\ DirInv'
         /\ Allocated \in Inos /\ Allocated \notin DOMAIN map /\ Allocated \in DOMAIN map'
         /\ map'[Allocated].record = records + 1 /\ names' = [names EXCEPT ![n] = Allocated]
         /\ \A i \in DOMAIN map : i \in DOMAIN map' /\ ObjectOf(i)' = ObjectOf(i)
         /\ object'[records + 1] = o
<1>0. /\ TableInv /\ NsTypeOK /\ records \in Nat /\ LinksOf \in [Inos -> Nat] /\ 0 \notin Inos
      /\ DOMAIN map \subseteq Inos /\ MaxObjects \in Nat /\ ROOT \in Inos
  BY CountsType, InosFacts, ObjectsAssumption DEF NsInv, TableInv, TableTypeOK
<1>1. /\ Insert(ROOT)
      /\ names' = [names EXCEPT ![n] = Allocated]
      /\ aliases' = [aliases EXCEPT ![Allocated] = @ \cup {n}]
      /\ object' = [r \in 1..(records + 1) |-> IF r = records + 1 THEN o ELSE object[r]]
  BY DEF NsInsert
<1>2. /\ Allocated \in Inos /\ Allocated \notin DOMAIN map
      /\ LinksOf' = [LinksOf EXCEPT ![Allocated] = 1] /\ LinksOf[Allocated] = 0
      /\ Allocated \in DOMAIN map' /\ map'[Allocated].record = records + 1
  BY <1>0, <1>1, InsertCounts
<1>3. DOMAIN map' = DOMAIN map \cup {Allocated} /\ records' = records + 1
  BY <1>1 DEF Insert, Allocated
<1>a. PICK a \in Inos : a = Allocated
  BY <1>2
<1>4. Operation
  <2>1. ROOT \in Nat
    BY DEF ROOT
  <2> QED
    BY <1>1, <2>1 DEF Operation
<1>5. /\ \A r \in 1..records : r \in 1..(records + 1) /\ r # records + 1 /\ object'[r] = object[r]
      /\ object'[records + 1] = o
  BY <1>0, <1>1
<1>6. \A i \in DOMAIN map : i \in DOMAIN map' /\ ObjectOf(i)' = ObjectOf(i)
  BY <1>3, <1>4, <1>5, ObjectKept
<1>7. ObjectOf(a)' = o
  BY <1>a, <1>2, <1>5 DEF ObjectOf
<1>8. NamesFor(a) = {}
  <2> SUFFICES ASSUME NEW m \in Names, names[m] = a PROVE FALSE
    BY DEF NamesFor
  <2> QED
    BY <1>a, <1>0, <1>2, NameThere
<1>9. NamesFor(a)' = {n} /\ \A j \in Inos \ {a} : NamesFor(j)' = NamesFor(j)
  BY <1>a, <1>0, <1>1, <1>8 DEF NsTypeOK, NamesFor
<1>10. ROOT # a
  <2>1. LinksOf[ROOT] = Cardinality(NamesFor(ROOT)) + 1 /\ Cardinality(NamesFor(ROOT)) \in Nat
    BY <1>0, NamesFinitelyMany DEF DirInv, LinksInv
  <2>2. LinksOf[ROOT] # 0
    BY <2>1
  <2> QED
    BY <1>a, <1>0, <1>2, <2>2, CountedIsThere
<1>11. LinksInv'
  <2> SUFFICES ASSUME NEW j \in Inos
               PROVE  LinksOf'[j] = Cardinality(NamesFor(j)') + (IF j = ROOT THEN 1 ELSE 0)
    BY DEF LinksInv
  <2>1. CASE j = a
    <3>1. Cardinality(NamesFor(a)') = 1
      BY <1>9, FS_Singleton
    <3> QED
      BY <1>a, <1>0, <1>2, <1>10, <2>1, <3>1
  <2>2. CASE j # a
    BY <1>a, <1>0, <1>2, <1>9, <2>2 DEF DirInv, LinksInv
  <2> QED
    BY <2>1, <2>2
<1>12. AliasInv'
  <2> SUFFICES ASSUME NEW j \in Inos PROVE aliases'[j] = NamesFor(j)'
    BY DEF AliasInv
  <2>1. aliases[j] = NamesFor(j)
    BY DEF DirInv, AliasInv
  <2>2. CASE j = a
    BY <1>a, <1>0, <1>1, <1>8, <1>9, <2>1, <2>2 DEF NsTypeOK
  <2>3. CASE j # a
    BY <1>a, <1>0, <1>1, <1>9, <2>1, <2>3 DEF NsTypeOK
  <2> QED
    BY <2>2, <2>3
<1>13. StoreInv'
  <2>1. \A m \in Names : store'[m] <= objects'
    BY DEF DirInv, StoreInv
  <2>2. ASSUME NEW r \in 1..records' PROVE object'[r] <= objects'
    <3>1. CASE r = records + 1
      BY <1>5, <3>1
    <3>2. CASE r # records + 1
      <4>1. r \in 1..records /\ object[r] \in Nat
        BY <1>0, <1>3, <3>2 DEF NsTypeOK
      <4> QED
        BY <1>5, <4>1 DEF DirInv, StoreInv
    <3> QED
      BY <3>1, <3>2
  <2> QED
    BY <2>1, <2>2 DEF StoreInv
<1>14. RootInv'
  BY <1>a, <1>3, <1>6, <1>7 DEF DirInv, RootInv
<1>15. DentryInv'
  <2> SUFFICES ASSUME NEW m \in Names, names'[m] # 0
               PROVE  store'[m] # 0 /\ object'[map'[names'[m]].record] = store'[m]
    BY DEF DentryInv, ObjectOf
  <2>1. CASE m = n
    BY <1>a, <1>0, <1>1, <1>7, <2>1 DEF NsTypeOK, ObjectOf
  <2>2. CASE m # n
    <3>1. names'[m] = names[m] /\ store'[m] = store[m]
      BY <1>0, <1>1, <2>2 DEF NsTypeOK
    <3>2. names[m] \in DOMAIN map
      BY <3>1, NameThere
    <3> QED
      BY <1>6, <3>1, <3>2 DEF DirInv, DentryInv, ObjectOf
  <2> QED
    BY <2>1, <2>2
<1>16. TwinInv'
  <2> SUFFICES ASSUME NEW k \in Names, NEW m \in Names, k # m, store'[k] = store'[m], store'[k] # 0
               PROVE  names'[k] = names'[m] /\ names'[k] # 0
    BY DEF TwinInv
  <2>1. k # n /\ m # n
    OBVIOUS
  <2> QED
    BY <1>0, <1>1, <2>1 DEF NsTypeOK, DirInv, TwinInv
<1> QED
  BY <1>1, <1>2, <1>5, <1>6, <1>11, <1>12, <1>13, <1>14, <1>15, <1>16 DEF DirInv

\* A name goes: from the inner filesystem too, or it is the only one of its object.
LEMMA DirRemove ==
  ASSUME NsInv, NsInv', DirInv, NEW n \in Names, NsRemove(n), names[n] # 0,
         store \in [Names -> Nat], objects' = objects, objects \in Nat,
         \/ store' = [store EXCEPT ![n] = 0]
         \/ store' = store /\ \A m \in Names \ {n} : store[m] # store[n]
  PROVE  DirInv' /\ Operation /\ object' = object /\ names' = [names EXCEPT ![n] = 0]
<1>0. TableInv /\ NsTypeOK /\ LinksOf \in [Inos -> Nat] /\ 0 \notin Inos
  BY CountsType, InosFacts DEF NsInv
<1>1. PICK i \in Inos : i = names[n]
  BY <1>0 DEF NsTypeOK
<1>2. /\ RemoveLink(i) /\ names' = [names EXCEPT ![n] = 0] /\ object' = object
      /\ aliases' = [aliases EXCEPT ![i] = @ \ {n}]
  BY <1>1 DEF NsRemove
<1>3. LinksOf' = [LinksOf EXCEPT ![i] = @ - 1] /\ Operation /\ records' = records
  BY <1>1, <1>2, LinkRemoved
<1>4. n \in NamesFor(i) /\ NamesFor(i)' = NamesFor(i) \ {n}
      /\ \A j \in Inos \ {i} : NamesFor(j)' = NamesFor(j)
  BY <1>0, <1>1, <1>2 DEF NsTypeOK, NamesFor
<1>5. \A j \in DOMAIN map \cap DOMAIN map' : ObjectOf(j)' = ObjectOf(j)
  BY <1>2, <1>3, ObjectKept
<1>6. DOMAIN map' \subseteq DOMAIN map
  BY <1>0, <1>3, NoNewNodes
<1>7. LinksInv'
  <2> SUFFICES ASSUME NEW j \in Inos
               PROVE  LinksOf'[j] = Cardinality(NamesFor(j)') + (IF j = ROOT THEN 1 ELSE 0)
    BY DEF LinksInv
  <2>0. LinksOf[j] = Cardinality(NamesFor(j)) + (IF j = ROOT THEN 1 ELSE 0)
    BY DEF DirInv, LinksInv
  <2>1. CASE j = i
    <3>1. /\ Cardinality(NamesFor(i)') = Cardinality(NamesFor(i)) - 1
          /\ Cardinality(NamesFor(i)) \in Nat
      BY <1>4, NamesFinitelyMany, FS_RemoveElement
    <3> QED
      BY <1>0, <1>3, <2>0, <2>1, <3>1
  <2>2. CASE j # i
    BY <1>0, <1>3, <1>4, <2>0, <2>2
  <2> QED
    BY <2>1, <2>2
<1>8. AliasInv'
  BY <1>0, <1>2, <1>4 DEF NsTypeOK, DirInv, AliasInv
<1>9. StoreInv'
  BY <1>2, <1>3 DEF DirInv, StoreInv
<1>10. RootInv'
  BY <1>5, <1>6 DEF DirInv, RootInv
<1>11. DentryInv'
  <2> SUFFICES ASSUME NEW m \in Names, names'[m] # 0
               PROVE  store'[m] # 0 /\ object'[map'[names'[m]].record] = store'[m]
    BY DEF DentryInv, ObjectOf
  <2>1. m # n /\ names'[m] = names[m] /\ store'[m] = store[m]
    BY <1>0, <1>2 DEF NsTypeOK
  <2>2. names[m] \in DOMAIN map \cap DOMAIN map'
    BY <2>1, NamesAreIn, NamesAreInNext DEF NamesIn
  <2> QED
    BY <1>5, <2>1, <2>2 DEF DirInv, DentryInv, ObjectOf
<1>12. TwinInv'
  <2> SUFFICES ASSUME NEW k \in Names, NEW m \in Names, k # m, store'[k] = store'[m], store'[k] # 0
               PROVE  names'[k] = names'[m] /\ names'[k] # 0
    BY DEF TwinInv
  <2>1. k # n /\ m # n
    OBVIOUS
  <2>2. store[k] = store[m] /\ store[k] # 0
    BY <2>1
  <2> QED
    BY <1>0, <1>2, <2>1, <2>2 DEF NsTypeOK, DirInv, TwinInv
<1> QED
  BY <1>2, <1>3, <1>7, <1>8, <1>9, <1>10, <1>11, <1>12 DEF DirInv

\* An object is given another name.
LEMMA DirLink ==
  ASSUME NsInv, NsInv', DirInv, NEW t \in Threads, NEW i \in Inos, NEW n \in Names,
         PathLink(t, i, n), store \in [Names -> Nat], objects \in Nat
  PROVE  /\ DirInv' /\ Operation /\ object' = object /\ names' = [names EXCEPT ![n] = i]
         /\ names[n] = 0
         /\ \E a \in Names : /\ names[a] = i /\ store[a] # 0
                             /\ store' = [store EXCEPT ![n] = store[a]]
<1>0. TableInv /\ NsTypeOK /\ LinksOf \in [Inos -> Nat] /\ 0 \notin Inos
  BY CountsType, InosFacts DEF NsInv
<1>1. /\ AddLink(i) /\ names' = [names EXCEPT ![n] = i] /\ object' = object
      /\ aliases' = [aliases EXCEPT ![i] = @ \cup {n}]
      /\ store[n] = 0 /\ objects' = objects
  BY DEF PathLink
<1>2. PICK a \in aliases[i] : store[a] # 0 /\ store' = [store EXCEPT ![n] = store[a]]
  BY DEF PathLink
<1>3. a \in Names /\ names[a] = i /\ a # n
  BY <1>1, <1>2 DEF DirInv, AliasInv, NamesFor
<1>4. names[n] = 0
  BY <1>1 DEF DirInv, DentryInv
<1>5. LinksOf' = [LinksOf EXCEPT ![i] = @ + 1]
  BY <1>0, <1>1, AddLinkCounts
<1>6. Operation /\ records' = records
  BY <1>1 DEF Operation, Counting, AddLink
<1>7. n \notin NamesFor(i) /\ NamesFor(i)' = NamesFor(i) \cup {n}
      /\ \A j \in Inos \ {i} : NamesFor(j)' = NamesFor(j)
  BY <1>0, <1>1, <1>4 DEF NsTypeOK, NamesFor
<1>8. \A j \in DOMAIN map \cap DOMAIN map' : ObjectOf(j)' = ObjectOf(j)
  BY <1>1, <1>6, ObjectKept
<1>9. DOMAIN map' \subseteq DOMAIN map
  BY <1>0, <1>6, NoNewNodes
<1>10. LinksInv'
  <2> SUFFICES ASSUME NEW j \in Inos
               PROVE  LinksOf'[j] = Cardinality(NamesFor(j)') + (IF j = ROOT THEN 1 ELSE 0)
    BY DEF LinksInv
  <2>0. LinksOf[j] = Cardinality(NamesFor(j)) + (IF j = ROOT THEN 1 ELSE 0)
    BY DEF DirInv, LinksInv
  <2>1. CASE j = i
    <3>1. /\ Cardinality(NamesFor(i)') = Cardinality(NamesFor(i)) + 1
          /\ Cardinality(NamesFor(i)) \in Nat
      BY <1>7, NamesFinitelyMany, FS_AddElement
    <3> QED
      BY <1>0, <1>5, <2>0, <2>1, <3>1
  <2>2. CASE j # i
    BY <1>0, <1>5, <1>7, <2>0, <2>2
  <2> QED
    BY <2>1, <2>2
<1>11. AliasInv'
  BY <1>0, <1>1, <1>7 DEF NsTypeOK, DirInv, AliasInv
<1>12. StoreInv'
  BY <1>1, <1>2, <1>3, <1>6 DEF DirInv, StoreInv
<1>13. RootInv'
  BY <1>8, <1>9 DEF DirInv, RootInv
<1>14. DentryInv'
  <2> SUFFICES ASSUME NEW m \in Names, names'[m] # 0
               PROVE  store'[m] # 0 /\ object'[map'[names'[m]].record] = store'[m]
    BY DEF DentryInv, ObjectOf
  <2>1. names'[m] \in DOMAIN map \cap DOMAIN map'
    BY <1>9, NamesAreInNext DEF NamesIn
  <2>2. CASE m = n
    <3>1. names'[m] = i /\ store'[m] = store[a]
      BY <1>0, <1>1, <1>2, <2>2 DEF NsTypeOK
    <3>2. ObjectOf(i) = store[a]
      BY <1>0, <1>3 DEF DirInv, DentryInv
    <3> QED
      BY <1>2, <1>8, <2>1, <3>1, <3>2 DEF ObjectOf
  <2>3. CASE m # n
    <3>1. names'[m] = names[m] /\ store'[m] = store[m]
      BY <1>0, <1>1, <1>2, <2>3 DEF NsTypeOK
    <3> QED
      BY <1>8, <2>1, <3>1 DEF DirInv, DentryInv, ObjectOf
  <2> QED
    BY <2>2, <2>3
<1>15. TwinInv'
  <2> SUFFICES ASSUME NEW k \in Names, NEW m \in Names, k # m, store'[k] = store'[m], store'[k] # 0
               PROVE  names'[k] = names'[m] /\ names'[k] # 0
    BY DEF TwinInv
  <2>1. \A y \in Names : store[y] = store[a] => names[y] = i
    BY <1>2, <1>3 DEF DirInv, TwinInv
  <2>2. names'[n] = i /\ store'[n] = store[a]
        /\ \A y \in Names : y # n => names'[y] = names[y] /\ store'[y] = store[y]
    BY <1>0, <1>1, <1>2 DEF NsTypeOK
  <2>3. CASE k = n
    BY <1>0, <2>1, <2>2, <2>3
  <2>4. CASE m = n
    BY <1>0, <2>1, <2>2, <2>4
  <2>5. CASE k # n /\ m # n
    BY <2>2, <2>5 DEF DirInv, TwinInv
  <2> QED
    BY <2>3, <2>4, <2>5
<1> QED
  BY <1>1, <1>2, <1>3, <1>4, <1>6, <1>10, <1>11, <1>12, <1>13, <1>14, <1>15 DEF DirInv

\* A name moves, over another or not.
LEMMA DirRename ==
  ASSUME NsInv, NsInv', DirInv, NEW t \in Threads, NEW n \in Names, NEW m \in Names,
         PathRename(t, n, m), names[n] # 0, store[n] # store[m],
         store \in [Names -> Nat], objects \in Nat
  PROVE  /\ DirInv' /\ Operation /\ object' = object
         /\ names' = [names EXCEPT ![m] = names[n], ![n] = 0]
         /\ \E o \in {0, objects + 1} : store' = [store EXCEPT ![m] = store[n], ![n] = o]
<1>0. /\ TableInv /\ NsTypeOK /\ LinksOf \in [Inos -> Nat] /\ 0 \notin Inos /\ n # m
      /\ store[n] # 0 /\ InnerRename(n, m)
  BY CountsType, InosFacts DEF NsInv, PathRename
<1>1. PICK i \in Inos : i = names[n]
  BY <1>0 DEF NsTypeOK
<1> DEFINE k == names[m]
<1>2. k # i
  BY <1>0, <1>1 DEF DirInv, DentryInv
<1>3. /\ IF k # 0 THEN RemoveLink(k) ELSE UNCHANGED tableVars
      /\ names' = [names EXCEPT ![m] = i, ![n] = 0]
      /\ aliases' = [j \in Inos |-> IF j = i THEN (aliases[j] \ {n}) \cup {m}
                                    ELSE IF j = k THEN aliases[j] \ {m}
                                    ELSE aliases[j]]
      /\ object' = object
  BY <1>0, <1>1, <1>2 DEF PathRename
<1>4. /\ NamesFor(i)' = (NamesFor(i) \ {n}) \cup {m}
      /\ n \in NamesFor(i) /\ m \notin NamesFor(i)
      /\ \A j \in Inos \ {i} : NamesFor(j)' = NamesFor(j) \ {m}
      /\ \A j \in Inos \ {i} : m \in NamesFor(j) <=> j = k
  BY <1>0, <1>1, <1>2, <1>3 DEF NsTypeOK, NamesFor
<1>5. /\ Operation /\ records' = records
      /\ LinksOf' = IF k = 0 THEN LinksOf ELSE [LinksOf EXCEPT ![k] = @ - 1]
      /\ k # 0 => k \in Inos
  <2>1. CASE k = 0
    <3>1. UNCHANGED tableVars
      BY <1>3, <2>1
    <3> QED
      BY <2>1, <3>1 DEF Operation, tableVars, LinksOf
  <2>2. CASE k # 0
    <3>1. k \in Inos /\ RemoveLink(k)
      BY <1>0, <1>3, <2>2 DEF NsTypeOK
    <3>2. LinksOf' = [LinksOf EXCEPT ![k] = @ - 1] /\ Operation /\ records' = records
      BY <3>1, LinkRemoved
    <3> QED
      BY <2>2, <3>1, <3>2
  <2> QED
    BY <2>1, <2>2
<1>6. \A j \in DOMAIN map \cap DOMAIN map' : ObjectOf(j)' = ObjectOf(j)
  BY <1>3, <1>5, ObjectKept
<1>7. DOMAIN map' \subseteq DOMAIN map
  BY <1>0, <1>5, NoNewNodes
<1>8. LinksInv'
  <2> SUFFICES ASSUME NEW j \in Inos
               PROVE  LinksOf'[j] = Cardinality(NamesFor(j)') + (IF j = ROOT THEN 1 ELSE 0)
    BY DEF LinksInv
  <2>0. LinksOf[j] = Cardinality(NamesFor(j)) + (IF j = ROOT THEN 1 ELSE 0)
    BY DEF DirInv, LinksInv
  <2>1. CASE j = i
    <3>1. /\ Cardinality(NamesFor(i) \ {n}) = Cardinality(NamesFor(i)) - 1
          /\ IsFiniteSet(NamesFor(i) \ {n}) /\ m \notin NamesFor(i) \ {n}
      BY <1>4, NamesFinitelyMany, FS_RemoveElement
    <3>2. Cardinality((NamesFor(i) \ {n}) \cup {m}) = Cardinality(NamesFor(i) \ {n}) + 1
      BY <3>1, FS_AddElement
    <3>3. Cardinality(NamesFor(i)') = Cardinality(NamesFor(i))
      BY <1>4, <3>1, <3>2, NamesFinitelyMany
    <3>4. LinksOf'[i] = LinksOf[i]
      BY <1>0, <1>2, <1>5
    <3> QED
      BY <2>0, <2>1, <3>3, <3>4
  <2>2. CASE j # i /\ j = k
    <3>1. /\ Cardinality(NamesFor(j)') = Cardinality(NamesFor(j)) - 1
          /\ Cardinality(NamesFor(j)) \in Nat
      BY <1>4, <2>2, NamesFinitelyMany, FS_RemoveElement
    <3>2. LinksOf'[j] = LinksOf[j] - 1
      BY <1>0, <1>5, <2>2
    <3> QED
      BY <2>0, <3>1, <3>2
  <2>3. CASE j # i /\ j # k
    <3>1. NamesFor(j)' = NamesFor(j)
      BY <1>4, <2>3
    <3>2. LinksOf'[j] = LinksOf[j]
      BY <1>0, <1>5, <2>3
    <3> QED
      BY <2>0, <3>1, <3>2
  <2> QED
    BY <2>1, <2>2, <2>3
<1>9. AliasInv'
  <2> SUFFICES ASSUME NEW j \in Inos PROVE aliases'[j] = NamesFor(j)'
    BY DEF AliasInv
  <2>1. aliases[j] = NamesFor(j)
    BY DEF DirInv, AliasInv
  <2>2. aliases'[j] = IF j = i THEN (aliases[j] \ {n}) \cup {m}
                      ELSE IF j = k THEN aliases[j] \ {m}
                      ELSE aliases[j]
    BY <1>3
  <2> QED
    BY <1>4, <2>1, <2>2
<1>11. RootInv'
  BY <1>6, <1>7 DEF DirInv, RootInv
<1>o. PICK o \in {0, objects + 1} : /\ store' = [store EXCEPT ![m] = store[n], ![n] = o]
                                   /\ objects' \in Nat /\ objects <= objects' /\ o <= objects'
  BY <1>0 DEF InnerRename
<1>12. /\ names'[n] = 0 /\ names'[m] = i /\ store'[n] = o /\ store'[m] = store[n]
       /\ \A y \in Names : y # n /\ y # m => names'[y] = names[y] /\ store'[y] = store[y]
  BY <1>0, <1>o, <1>3 DEF NsTypeOK
<1>10. StoreInv'
  <2>1. \A y \in Names : store'[y] <= objects'
    BY <1>o, <1>12 DEF DirInv, StoreInv
  <2>2. object \in [1..records -> 0..MaxObjects]
    BY <1>0 DEF NsTypeOK
  <2>3. \A r \in 1..records : object[r] <= objects'
    BY <1>o, <2>2, ObjectsAssumption DEF DirInv, StoreInv
  <2> QED
    BY <1>3, <1>5, <2>1, <2>3 DEF StoreInv
<1>13. DentryInv'
  <2> SUFFICES ASSUME NEW y \in Names, names'[y] # 0
               PROVE  store'[y] # 0 /\ object'[map'[names'[y]].record] = store'[y]
    BY DEF DentryInv, ObjectOf
  <2>1. names'[y] \in DOMAIN map \cap DOMAIN map'
    BY <1>7, NamesAreInNext DEF NamesIn
  <2>2. PICK x \in Names : names[x] = names'[y] /\ store[x] = store'[y]
    BY <1>1, <1>12
  <2> QED
    BY <1>6, <2>1, <2>2 DEF DirInv, DentryInv, ObjectOf
<1>14. TwinInv'
  <2> SUFFICES ASSUME NEW x \in Names, NEW y \in Names, x # y, store'[x] = store'[y], store'[x] # 0
               PROVE  names'[x] = names'[y] /\ names'[x] # 0
    BY DEF TwinInv
  <2>1. x # n /\ y # n
    <3>1. \A z \in Names : z # n => store'[z] <= objects
      BY <1>12 DEF DirInv, StoreInv
    <3> QED
      BY <1>12, <3>1
  <2>2. \A z \in Names : store[z] = store[n] => names[z] = i
    BY <1>0, <1>1 DEF DirInv, TwinInv
  <2>3. CASE x = m
    BY <1>0, <1>12, <2>1, <2>2, <2>3
  <2>4. CASE y = m
    BY <1>0, <1>12, <2>1, <2>2, <2>4
  <2>5. CASE x # m /\ y # m
    BY <1>12, <2>1, <2>5 DEF DirInv, TwinInv
  <2> QED
    BY <2>3, <2>4, <2>5
<1> QED
  BY <1>o, <1>1, <1>3, <1>5, <1>8, <1>9, <1>10, <1>11, <1>13, <1>14 DEF DirInv

-----------------------------------------------------------------------------
(* What the requests rely on meanwhile *)

OneInv == \A t, u \in Threads : op[t] \in DirOps /\ op[u] \in DirOps => t = u

\* The dentries that a listing of t may have to take back.
Dentries(t) ==
  {n \in Names : \/ \E a \in 1..Len(inserted[t]) : inserted[t][a] = n
                 \/ \E a \in 1..Len(fresh[t]) : fresh[t][a] = n}

ListingShape(t) ==
  /\ fresh[t] # <<>> => pc[t] \in {"rdp_plus", "rdp_add", "rdp_end"}
  /\ inserted[t] # <<>> => pc[t] \in {"rdp", "rdp_plus", "rdp_add", "rdp_end", "rdp_undo"}

ListingInv == \A t \in Threads : ListingShape(t)

\* t works on a node that it has from the namespace.
PathTargets(t) ==
  /\ op[t] # "revalidate"
  /\ pc[t] \in EntryPCs \cup {"reply", "rdp_plus", "rdp_add"}

PathTargetInv ==
  \A t \in Threads :
    PathTargets(t) =>
      /\ \E n \in Names : names[n] = id[t]
      /\ map[id[t]].record = want[t]
      /\ pc[t] = "rdp_add" /\ op[t] = "readdirplus" => map[id[t]].generation = gen[t]

\* The kernel holds what it is looking up again.
RevalInv == \A t \in Threads : op[t] = "revalidate" => klookup[id[t]] > 0

\* The kernel knows number i, or is about to.
Told(i) ==
  \/ klookup[i] > 0
  \/ \E t \in Threads : pc[t] # "rdp_undo" /\ \E a \in 1..Len(buffer[t]) : buffer[t][a].ino = i

\* Every name of i's object in the inner filesystem leads to i.
Anchored(i) == \A n \in Names : store[n] # 0 /\ store[n] = ObjectOf(i) => names[n] = i

AnchorInv == \A i \in Inos : Told(i) => Anchored(i)

\* A roll-back takes no name from an object that the kernel knows.
InsertedInv ==
  \A t \in Threads : \A n \in Dentries(t) :
    /\ \A m \in Names \ {n} : store[m] # store[n]
    /\ names[n] # 0 => klookup[names[n]] = 0

FreshInv ==
  \A t \in Threads :
    fresh[t] # <<>> =>
      /\ names[fresh[t][1]] = id[t]
      /\ \A a \in 1..Len(buffer[t]) : buffer[t][a].ino # id[t]

SerialInv ==
  /\ OneInv
  /\ DirInv
  /\ TellInv
  /\ ListingInv
  /\ PathTargetInv
  /\ RevalInv
  /\ AnchorInv
  /\ InsertedInv
  /\ FreshInv

\* What the kernel may rename, unlink or look up again has its dentry.
LEMMA KernelNamed ==
  ASSUME SerialInv, NEW n \in Names, KernelHas(n), store[n] # 0
  PROVE  names[n] \in Inos /\ klookup[names[n]] > 0
<1>1. PICK i \in Inos : klookup[i] > 0 /\ object[kident[i].record] = store[n]
  BY DEF KernelHas
<1>2. ObjectOf(i) = store[n]
  BY <1>1 DEF SerialInv, TellInv, KernelInv, ObjectOf
<1>3. Anchored(i)
  BY <1>1 DEF SerialInv, AnchorInv, Told
<1> QED
  BY <1>1, <1>2, <1>3 DEF Anchored

-----------------------------------------------------------------------------
(* What a step does to the directory *)

Alone(t) == \A u \in Threads \ {t} : op[u] \notin DirOps

Keeps ==
  /\ Operation /\ records' = records /\ LinksOf' = LinksOf
  /\ UNCHANGED nsVars /\ UNCHANGED storeVars

Gains(n, o) ==
  /\ NsInsert(n, o) /\ names[n] = 0
  /\ store' = [store EXCEPT ![n] = o]
  /\ objects' \in Nat /\ objects <= objects' /\ o <= objects'
  /\ \A m \in Names \ {n} : store[m] # o
  /\ o = store[n] \/ o = objects + 1

Loses(n) ==
  /\ NsRemove(n) /\ names[n] # 0
  /\ store' = [store EXCEPT ![n] = 0] /\ objects' = objects

RollsBack(t, n) ==
  /\ NsRemove(n) /\ names[n] # 0 /\ n \in Dentries(t)
  /\ \/ pc[t] = "rdp_undo"
     \/ pc[t] = "rdp_end" /\ fresh[t] # <<>> /\ n = fresh[t][1]
  /\ UNCHANGED storeVars

Moves(t, n, m) == PathRename(t, n, m) /\ names[n] # 0 /\ store[n] # store[m]

Changes(t) ==
  \/ \E n \in Names, o \in 1..MaxObjects : Gains(n, o)
  \/ \E n \in Names : Loses(n) \/ RollsBack(t, n)
  \/ \E n, m \in Names : Moves(t, n, m)
  \/ \E i \in Inos, n \in Names : PathLink(t, i, n)

LEMMA Effects ==
  ASSUME Serial, ~Parallel, PathInv, SerialInv, NEW t \in Threads, PathRequest(t) \/ PathStep(t)
  PROVE  Keeps \/ (Alone(t) /\ Changes(t))
<1>0. /\ store \in [Names -> 0..MaxObjects] /\ objects \in 0..MaxObjects /\ MaxObjects \in Nat
      /\ names \in [Names -> Inos \cup {0}] /\ 0 \notin Inos
      /\ inserted[t] \in Seq(Names) /\ fresh[t] \in Seq(Names)
      /\ DirInv /\ OneInv
  BY ObjectsAssumption, InosFacts DEF PathInv, NsInv, NsTypeOK, RestTypeOK, SerialInv
<1>1. ASSUME UNCHANGED <<tableVars, nsVars>>, UNCHANGED storeVars PROVE Keeps
  BY <1>1 DEF Keeps, Operation, tableVars, LinksOf
<1>2. ASSUME ReadLock \/ WriteLock PROVE Alone(t)
  BY <1>2 DEF ReadLock, WriteLock, MayRead, MayWrite, Alone, DirOps
<1>3. ASSUME op[t] \in ListOps PROVE Alone(t)
  BY <1>0, <1>3 DEF OneInv, Alone, DirOps, DirReaders, ListOps
<1>4. CASE Passing(t)
  <2>1. UNCHANGED storeVars
    BY <1>4 DEF Passing, List, Accept, ListOk, pathVars
  <2> QED
    BY <1>4, <2>1, PassingTable DEF Keeps
<1>5. ASSUME NEW n \in Names, store[n] # 0, NsInsert(n, store[n]), UNCHANGED storeVars, Alone(t)
      PROVE  Keeps \/ (Alone(t) /\ Changes(t))
  <2>1. CASE names[n] # 0
    BY <1>1, <1>5, <2>1 DEF NsInsert
  <2>2. CASE names[n] = 0
    <3>1. \A m \in Names \ {n} : store[m] # store[n]
      BY <1>0, <1>5, <2>2 DEF DirInv, TwinInv
    <3>2. store[n] \in 1..MaxObjects /\ objects \in Nat /\ store[n] <= objects
      BY <1>0, <1>5 DEF DirInv, StoreInv
    <3>3. store' = [store EXCEPT ![n] = store[n]] /\ objects' = objects
      BY <1>0, <1>5 DEF storeVars
    <3>4. Gains(n, store[n])
      BY <1>5, <2>2, <3>1, <3>2, <3>3 DEF Gains
    <3> QED
      BY <1>5, <3>2, <3>4 DEF Changes
  <2> QED
    BY <2>1, <2>2
<1>6. ASSUME NEW n \in Names, Inserting(t, n) PROVE Keeps \/ (Alone(t) /\ Changes(t))
  <2>1. CASE PathLookup(t, n)
    BY <1>2, <1>5, <2>1 DEF PathLookup, LookupName
  <2>2. CASE PathRevalidate(t, n)
    <3>1. names[n] # 0
      BY <1>0, <2>2, KernelNamed DEF PathRevalidate, LookupName
    <3> QED
      BY <1>1, <2>2, <3>1 DEF PathRevalidate, LookupName, NsInsert
  <2>3. CASE PathMknod(t, n)
    <3>1. names[n] = 0
      BY <1>0, <2>3 DEF PathMknod, DirInv, DentryInv
    <3>2. /\ objects + 1 \in 1..MaxObjects /\ objects' = objects + 1 /\ objects \in Nat
          /\ store' = [store EXCEPT ![n] = objects + 1] /\ NsInsert(n, objects + 1)
      BY <1>0, <2>3 DEF PathMknod
    <3>3. \A m \in Names : store[m] # objects + 1
      BY <1>0 DEF DirInv, StoreInv
    <3>4. Gains(n, objects + 1)
      BY <3>1, <3>2, <3>3 DEF Gains
    <3>5. Alone(t)
      BY <1>2, <2>3 DEF PathMknod
    <3> QED
      BY <3>2, <3>4, <3>5 DEF Changes
  <2>4. CASE PathEmit(t, n)
    <3>1. op[t] \in ListOps
      BY <2>4 DEF PathEmit, PathInv, PathShapeInv, PathShape, PlusPCs
    <3> QED
      BY <1>3, <1>5, <2>4, <3>1 DEF PathEmit
  <2> QED
    BY <1>6, <2>1, <2>2, <2>3, <2>4 DEF Inserting
<1>7. CASE Removing(t)
  <2>1. ASSUME NEW n \in Names, RemoveEntry(t, n) PROVE Keeps \/ (Alone(t) /\ Changes(t))
    <3>1. names[n] # 0
      BY <1>0, <2>1, KernelNamed DEF RemoveEntry
    <3>2. Loses(n)
      BY <2>1, <3>1 DEF Loses, RemoveEntry
    <3> QED
      BY <1>2, <2>1, <3>2 DEF RemoveEntry, Changes
  <2>2. ASSUME NEW n \in Names, NsRemove(n), UNCHANGED storeVars, n \in Dentries(t),
               pc[t] = "rdp_undo" \/ (pc[t] = "rdp_end" /\ fresh[t] # <<>> /\ n = fresh[t][1])
        PROVE  Keeps \/ (Alone(t) /\ Changes(t))
    <3>1. CASE names[n] = 0
      BY <1>1, <2>2, <3>1 DEF NsRemove
    <3>2. CASE names[n] # 0
      <4>1. RollsBack(t, n)
        BY <2>2, <3>2 DEF RollsBack
      <4>2. op[t] \in ListOps
        BY <2>2 DEF PathInv, PathShapeInv, PathShape, PlusPCs
      <4> QED
        BY <1>3, <4>1, <4>2 DEF Changes
    <3> QED
      BY <3>1, <3>2
  <2>3. CASE Refuse(t)
    <3>1. Len(fresh[t]) >= 1 /\ Len(fresh[t]) \in Nat /\ fresh[t][1] \in Names
      BY <1>0, <2>3 DEF Refuse
    <3>2. fresh[t][1] \in Dentries(t)
      BY <3>1 DEF Dentries
    <3> QED
      BY <2>2, <2>3, <3>1, <3>2 DEF Refuse
  <2>4. CASE Rollback(t)
    <3> DEFINE l == Len(inserted[t])
    <3>1. l \in Nat /\ l >= 1 /\ inserted[t][l] \in Names
      BY <1>0, <2>4 DEF Rollback
    <3>2. inserted[t][l] \in Dentries(t)
      BY <3>1 DEF Dentries
    <3> QED
      BY <2>2, <2>4, <3>1, <3>2 DEF Rollback
  <2> QED
    BY <1>7, <2>1, <2>3, <2>4 DEF Removing
<1>8. ASSUME NEW n \in Names, NEW m \in Names, PathRename(t, n, m)
      PROVE  Keeps \/ (Alone(t) /\ Changes(t))
  <2>1. names[n] # 0 /\ Alone(t)
    BY <1>0, <1>2, <1>8, KernelNamed DEF PathRename
  <2>2. CASE store[n] = store[m]
    <3>1. names[n] = names[m]
      BY <1>0, <1>8, <2>2 DEF PathRename, DirInv, TwinInv
    <3>2. UNCHANGED <<tableVars, nsVars>> /\ UNCHANGED storeVars
      <4>1. InnerRename(n, m) /\ UNCHANGED <<tableVars, nsVars>>
        BY <1>8, <3>1 DEF PathRename
      <4> QED
        BY <1>0, <1>8, <2>2, <4>1 DEF InnerRename, PathRename
    <3> QED
      BY <1>1, <3>2
  <2>3. CASE store[n] # store[m]
    BY <1>8, <2>1, <2>3 DEF Moves, Changes
  <2> QED
    BY <2>2, <2>3
<1>9. ASSUME NEW i \in Inos, NEW n \in Names, PathLink(t, i, n)
      PROVE  Keeps \/ (Alone(t) /\ Changes(t))
  BY <1>2, <1>9 DEF PathLink, Changes
<1> QED
  BY <1>4, <1>6, <1>7, <1>8, <1>9, StepKinds

LEMMA DirStep ==
  ASSUME Serial, ~Parallel, PathInv, PathInv', SerialInv, NEW t \in Threads,
         PathRequest(t) \/ PathStep(t)
  PROVE  DirInv'
<1>0. /\ store \in [Names -> 0..MaxObjects] /\ objects \in 0..MaxObjects /\ MaxObjects \in Nat
      /\ NsInv /\ NsInv' /\ DirInv
  BY ObjectsAssumption DEF PathInv, RestTypeOK, SerialInv
<1>1. store \in [Names -> Nat] /\ objects \in Nat
  BY <1>0
<1>2. CASE Keeps
  BY <1>0, <1>2, DirSame DEF Keeps
<1>3. ASSUME NEW n \in Names, NEW o \in 1..MaxObjects, Gains(n, o) PROVE DirInv'
  BY <1>0, <1>1, <1>3, DirInsert DEF Gains
<1>4. ASSUME NEW n \in Names, Loses(n) PROVE DirInv'
  BY <1>0, <1>1, <1>4, DirRemove DEF Loses
<1>5. ASSUME NEW n \in Names, RollsBack(t, n) PROVE DirInv'
  BY <1>0, <1>1, <1>5, DirRemove DEF RollsBack, storeVars, SerialInv, InsertedInv
<1>6. ASSUME NEW n \in Names, NEW m \in Names, Moves(t, n, m) PROVE DirInv'
  BY <1>0, <1>1, <1>6, DirRename DEF Moves
<1>7. ASSUME NEW i \in Inos, NEW n \in Names, PathLink(t, i, n) PROVE DirInv'
  BY <1>0, <1>1, <1>7, DirLink
<1> QED
  BY <1>2, <1>3, <1>4, <1>5, <1>6, <1>7, Effects DEF Changes

-----------------------------------------------------------------------------
(* What the kernel is told *)

\* Only a reply tells the kernel of a node, or takes it back.
LEMMA LookupsLeft ==
  ASSUME PathInv, NEW t \in Threads, PathRequest(t) \/ PathStep(t), ~TellAction(t)
  PROVE  LookupsOf' = LookupsOf
<1>0. /\ TableInv /\ t \in Holders /\ DOMAIN map \subseteq Inos /\ ROOT \in Inos
      /\ names \in [Names -> Inos \cup {0}]
  BY InosFacts DEF PathInv, NsInv, NsTypeOK, Threads, TableInv, TableTypeOK
<1>1. ASSUME UNCHANGED tableVars \/ DropRef(t) \/ \E i \in Inos : Get(t, i)
      PROVE  LookupsOf' = LookupsOf
  BY <1>0, <1>1, QuietCounts
<1>2. ASSUME NEW n \in Names, NEW o, NsInsert(n, o) PROVE LookupsOf' = LookupsOf
  BY <1>0, <1>1, <1>2, InsertCounts DEF NsInsert
<1>3. ASSUME NEW n \in Names, names[n] # 0, RemoveLink(names[n]) PROVE LookupsOf' = LookupsOf
  <2>1. PICK i \in Inos : i = names[n]
    BY <1>0, <1>3
  <2> QED
    BY <1>0, <1>3, <2>1, RemoveLinkCounts
<1>4. ASSUME NEW n \in Names, NsRemove(n) PROVE LookupsOf' = LookupsOf
  BY <1>1, <1>3, <1>4 DEF NsRemove
<1>5. CASE Passing(t)
  <2>1. ASSUME NEW o, List(t, o) PROVE LookupsOf' = LookupsOf
    <3>1. CASE ROOT \in DOMAIN map
      BY <1>0, <1>1, <2>1, <3>1 DEF List, StartOnNode
    <3>2. CASE ROOT \notin DOMAIN map
      BY <1>1, <2>1, <3>2 DEF List, StartOnNode
    <3> QED
      BY <3>1, <3>2
  <2>2. CASE EntryGet(t)
    BY <1>0, <1>1, <2>2 DEF EntryGet
  <2>3. CASE EntryFail(t) \/ EntryDone(t) \/ PlusDrop(t) \/ DropNode(t)
    BY <1>1, <2>3 DEF EntryFail, EntryDone, PlusDrop, DropNode
  <2>4. CASE PlusEntry(t) \/ PlusFull(t) \/ PlusError(t) \/ PlusUndone(t) \/ PlusReplyLost(t)
    BY <1>1, <2>4 DEF PlusEntry, PlusFull, PlusError, PlusUndone, PlusReplyLost
  <2>5. CASE Accept(t) \/ ListOk(t)
    BY <1>1, <2>5 DEF Accept, ListOk, PlusOk, TellAction
  <2> QED
    BY <1>5, <2>1, <2>2, <2>3, <2>4, <2>5 DEF Passing, RuntimeStep, TellAction
<1>6. ASSUME NEW n \in Names, Inserting(t, n) PROVE LookupsOf' = LookupsOf
  BY <1>2, <1>6 DEF Inserting, PathLookup, PathRevalidate, LookupName, PathMknod, PathEmit
<1>7. CASE Removing(t)
  <2>1. CASE Refuse(t)
    <3>1. fresh[t] # <<>> /\ fresh[t] \in Seq(Names) /\ NsRemove(fresh[t][1])
      BY <2>1 DEF Refuse, PathInv, RestTypeOK
    <3>2. fresh[t][1] \in Names
      BY <3>1
    <3> QED
      BY <1>4, <3>1, <3>2
  <2>2. CASE Rollback(t)
    <3>1. /\ inserted[t] # <<>> /\ inserted[t] \in Seq(Names)
          /\ NsRemove(inserted[t][Len(inserted[t])])
      BY <2>2 DEF Rollback, PathInv, RestTypeOK
    <3>2. inserted[t][Len(inserted[t])] \in Names
      BY <3>1
    <3> QED
      BY <1>4, <3>1, <3>2
  <2> QED
    BY <1>4, <1>7, <2>1, <2>2 DEF Removing, RemoveEntry
<1>8. ASSUME NEW n \in Names, NEW m \in Names, PathRename(t, n, m) PROVE LookupsOf' = LookupsOf
  BY <1>1, <1>3, <1>8 DEF PathRename
<1>9. ASSUME NEW i \in Inos, NEW n \in Names, PathLink(t, i, n) PROVE LookupsOf' = LookupsOf
  BY <1>0, <1>9, AddLinkCounts DEF PathLink
<1> QED
  BY <1>5, <1>6, <1>7, <1>8, <1>9, StepKinds

LEMMA PathSteady ==
  ASSUME PathInv, ListInv, NEW t \in Threads, PathRequest(t) \/ PathStep(t), ~TellAction(t)
  PROVE  Steady(t)
<1>0. /\ LookupsOf' = LookupsOf /\ buffer \in [Threads -> Seq(Entry)]
      /\ pc \in [Threads -> PCs] /\ op \in [Threads -> Ops] /\ id \in [Threads -> Inos \cup {0}]
      /\ want \in [Threads -> Nat] /\ gen \in [Threads -> Nat]
      /\ PathShape(t) /\ ListShape(t)
  BY LookupsLeft DEF PathInv, ThreadsTypeOK, PathShapeInv, ListInv
<1>1. klookup' = klookup /\ kident' = kident
  BY DEF PathRequest, PathStep, RuntimeStep, EntryGet, EntryFail, EntryDone, EntryRetain,
     PlusEntry, PlusFull, PlusError, PlusUndo, PlusUndone, PlusDrop, PlusReplyLost, DropNode,
     List, StartOnNode, Accept, PlusRetain, ListOk, PlusOk, PathLookup, PathRevalidate,
     LookupName, PathMknod, PathEmit, RemoveEntry, Refuse, Rollback, PathRename, PathLink,
     kernelVars, TellAction
<1> USE <1>0, <1>1 DEF Steady, Owes, OwingPCs, PathShape, PathOps, ListOps, EntryOps, EntryPCs,
        PlusPCs, DirWriters, DirReaders, ListShape, Goto, Finish, requestVars, threadVars
<1>2. ASSUME threadVars' = threadVars PROVE Steady(t)
  BY <1>2
<1>3. ASSUME NEW o, NEW i, NEW r, NEW h, NEW l \in {"entry", "rdp"}, Start(t, o, i, r, h, l)
      PROVE  Steady(t)
  BY <1>3 DEF Start
<1>4. CASE Passing(t)
  <2>1. ASSUME NEW o, List(t, o) PROVE Steady(t)
    <3>1. CASE ROOT \in DOMAIN map
      BY <1>3, <2>1, <3>1 DEF List, StartOnNode
    <3>2. CASE ROOT \notin DOMAIN map
      BY <1>2, <2>1, <3>2 DEF List, StartOnNode
    <3> QED
      BY <3>1, <3>2
  <2>2. CASE EntryGet(t)
    <3>1. CASE id[t] \in DOMAIN map
      BY <2>2, <3>1 DEF EntryGet
    <3>2. CASE id[t] \notin DOMAIN map
      BY <2>2, <3>2 DEF EntryGet
    <3> QED
      BY <3>1, <3>2
  <2>3. CASE EntryFail(t)
    BY <2>3 DEF EntryFail
  <2>4. CASE EntryDone(t)
    BY <2>4 DEF EntryDone
  <2>5. CASE DropNode(t)
    <3>1. op[t] # "open"
      BY <2>5 DEF DropNode
    <3> QED
      BY <2>5, <3>1 DEF DropNode
  <2>6. CASE PlusEntry(t)
    BY <2>6 DEF PlusEntry
  <2>7. CASE PlusFull(t) \/ PlusError(t) \/ PlusReplyLost(t) \/ PlusDrop(t)
    BY <2>7 DEF PlusFull, PlusError, PlusReplyLost, PlusDrop
  <2>8. CASE PlusUndone(t)
    <3>1. CASE ref[t] # NoRef
      BY <2>8, <3>1 DEF PlusUndone
    <3>2. CASE ref[t] = NoRef
      BY <2>8, <3>2 DEF PlusUndone
    <3> QED
      BY <3>1, <3>2
  <2>9. CASE Accept(t)
    BY <2>9 DEF Accept, TellAction
  <2>10. CASE ListOk(t)
    BY <2>10 DEF ListOk, PlusOk
  <2> QED
    BY <1>4, <2>1, <2>2, <2>3, <2>4, <2>5, <2>6, <2>7, <2>8, <2>9, <2>10
       DEF Passing, RuntimeStep, TellAction
<1>5. ASSUME NEW n \in Names, Inserting(t, n) PROVE Steady(t)
  <2>1. CASE PathLookup(t, n) \/ PathRevalidate(t, n) \/ PathMknod(t, n)
    BY <1>3, <2>1 DEF PathLookup, PathRevalidate, LookupName, PathMknod
  <2>2. CASE PathEmit(t, n)
    BY <2>2 DEF PathEmit
  <2> QED
    BY <1>5, <2>1, <2>2 DEF Inserting
<1>6. CASE Removing(t)
  BY <1>2, <1>6 DEF Removing, RemoveEntry, Refuse, Rollback
<1>7. ASSUME NEW n \in Names, NEW m \in Names, PathRename(t, n, m) PROVE Steady(t)
  BY <1>2, <1>7 DEF PathRename
<1>8. ASSUME NEW i \in Inos, NEW n \in Names, PathLink(t, i, n) PROVE Steady(t)
  BY <1>3, <1>8 DEF PathLink
<1> QED
  BY <1>4, <1>5, <1>6, <1>7, <1>8, StepKinds

\* A name's node is there, and stays the same one.
LEMMA TargetRight ==
  ASSUME PathInv, PathTargetInv, NEW t \in Threads, PathTargets(t)
  PROVE  id[t] \in DOMAIN map /\ id[t] \in Inos /\ map[id[t]].record = want[t]
<1>1. PICK n \in Names : names[n] = id[t]
  BY DEF PathTargetInv
<1>2. id[t] # 0
  <2>1. op[t] # "none"
    BY DEF PathTargets, PathInv, PathShapeInv, PathShape, EntryPCs
  <2> QED
    BY <2>1, InosFacts DEF PathInv, PathShapeInv, PathShape
<1> QED
  BY <1>1, <1>2, NameThere DEF PathInv, PathTargetInv

LEMMA PathOperation ==
  ASSUME PathInv, NEW t \in Threads, PathRequest(t) \/ PathStep(t)
  PROVE  Operation
<1>0. names \in [Names -> Inos \cup {0}] /\ ROOT \in Nat
  BY DEF PathInv, NsInv, NsTypeOK, ROOT
<1>1. ASSUME UNCHANGED tableVars PROVE Operation
  BY <1>1 DEF Operation
<1>2. ASSUME NEW n \in Names, NEW o, NsInsert(n, o) PROVE Operation
  BY <1>0, <1>1, <1>2 DEF NsInsert, Operation
<1>3. ASSUME NEW n \in Names, names[n] # 0, RemoveLink(names[n]) PROVE Operation
  BY <1>0, <1>3 DEF Operation, Counting
<1>4. ASSUME NEW n \in Names, NsRemove(n) PROVE Operation
  BY <1>1, <1>3, <1>4 DEF NsRemove
<1>5. CASE Passing(t)
  BY <1>5, PassingTable
<1>6. ASSUME NEW n \in Names, Inserting(t, n) PROVE Operation
  BY <1>2, <1>6 DEF Inserting, PathLookup, PathRevalidate, LookupName, PathMknod, PathEmit
<1>7. CASE Removing(t)
  <2>1. CASE Refuse(t)
    <3>1. fresh[t] # <<>> /\ fresh[t] \in Seq(Names) /\ NsRemove(fresh[t][1])
      BY <2>1 DEF Refuse, PathInv, RestTypeOK
    <3>2. fresh[t][1] \in Names
      BY <3>1
    <3> QED
      BY <1>4, <3>1, <3>2
  <2>2. CASE Rollback(t)
    <3>1. /\ inserted[t] # <<>> /\ inserted[t] \in Seq(Names)
          /\ NsRemove(inserted[t][Len(inserted[t])])
      BY <2>2 DEF Rollback, PathInv, RestTypeOK
    <3>2. inserted[t][Len(inserted[t])] \in Names
      BY <3>1
    <3> QED
      BY <1>4, <3>1, <3>2
  <2> QED
    BY <1>4, <1>7, <2>1, <2>2 DEF Removing, RemoveEntry
<1>8. ASSUME NEW n \in Names, NEW m \in Names, PathRename(t, n, m) PROVE Operation
  BY <1>1, <1>3, <1>8 DEF PathRename
<1>9. ASSUME NEW i \in Inos, NEW n \in Names, PathLink(t, i, n) PROVE Operation
  BY <1>9 DEF PathLink, Operation, Counting
<1> QED
  BY <1>5, <1>6, <1>7, <1>8, <1>9, StepKinds

LEMMA TellStep ==
  ASSUME PathInv, PathInv', SerialInv, faults' = faults,
         NEW t \in Threads, PathRequest(t) \/ PathStep(t)
  PROVE  TellInv' /\ Operation /\ OthersSame(t)
<1>1. OthersSame(t)
  <2>1. OnlyThread(t)
    BY PathHands DEF HandsOK
  <2> QED
    BY <2>1 DEF OnlyThread, OthersSame, PathInv, ThreadsTypeOK
<1>2. Tells(t)
  <2>1. Steady(t) \/ TellAction(t)
    BY PathSteady DEF SerialInv, TellInv, CountedInv
  <2>2. ASSUME PlusRetain(t) PROVE Right(id[t], want[t], gen[t])
    <3>1. pc[t] = "rdp_add"
      BY <2>2 DEF PlusRetain
    <3>2. op[t] \in ListOps
      BY <3>1 DEF PathInv, PathShapeInv, PathShape, PlusPCs
    <3>3. PathTargets(t)
      BY <3>1, <3>2 DEF PathTargets, ListOps
    <3>4. op[t] = "readdirplus"
      <4> SUFFICES ASSUME op[t] # "readdirplus" PROVE FALSE
        OBVIOUS
      <4>1. pc'[t] = "rdp" /\ Len(buffer'[t]) = Len(buffer[t]) + 1 /\ Len(buffer[t]) \in Nat
        <5> DEFINE e == [ino |-> id[t], gen |-> gen[t], record |-> want[t],
                         retained |-> id[t] \in DOMAIN map]
        <5>1. buffer \in [Threads -> Seq(Entry)] /\ pc \in [Threads -> PCs]
          BY DEF PathInv, ThreadsTypeOK
        <5>2. buffer' = [buffer EXCEPT ![t] = Append(@, e)] /\ pc' = [pc EXCEPT ![t] = "rdp"]
          BY <2>2 DEF PlusRetain, Goto
        <5> HIDE DEF e
        <5>3. buffer'[t] = Append(buffer[t], e)
          BY <5>1, <5>2
        <5> QED
          BY <5>1, <5>2, <5>3
      <4>2. buffer' = buffer \/ pc'[t] = "rdp_end"
        <5>1. pc \in [Threads -> PCs]
          BY DEF PathInv, ThreadsTypeOK
        <5> QED
          BY <3>1, <5>1 DEF PathRequest, PathStep, RuntimeStep, EntryGet, EntryFail, EntryDone,
             EntryRetain, PlusEntry, PlusFull, PlusError, PlusUndo, PlusUndone, PlusDrop, PlusReply,
             PlusReplyLost, Reply, DropNode, List, StartOnNode, Accept, ListOk, PlusOk, PathLookup,
             PathRevalidate, LookupName, PathMknod, PathEmit, RemoveEntry, Refuse, Rollback,
             PathRename, PathLink, Start, Goto, requestVars, threadVars
      <4> QED
        BY <4>1, <4>2
    <3> QED
      BY <3>1, <3>3, <3>4, TargetRight DEF Right, SerialInv, PathTargetInv
  <2> QED
    BY <2>1, <2>2 DEF Tells
<1>3. Operation
  BY PathOperation
<1>4. TableInv' /\ TypeOK'
  <2>1. PathTypeOK'
    BY PathTypes, PTL
  <2> QED
    BY <2>1 DEF PathTypeOK, PathInv, NsInv
<1>5. \A u \in Threads : TellShape(u)'
  BY DEF PathInv, PathShapeInv, PathShape, PathOps, TellShape, EntryPCs, OwingPCs, PlusPCs
<1> QED
  BY <1>1, <1>2, <1>3, <1>4, <1>5, TellKept DEF SerialInv

-----------------------------------------------------------------------------
(* The requests on the directory stay one at a time *)

LEMMA OneStep ==
  ASSUME Serial, ~Parallel, PathInv, SerialInv, NEW t \in Threads, PathRequest(t) \/ PathStep(t)
  PROVE  OneInv'
<1>0. op \in [Threads -> Ops] /\ PathShape(t) /\ OneInv
  BY DEF PathInv, ThreadsTypeOK, PathShapeInv, SerialInv
<1>1. op'[t] \in DirOps => op'[t] = op[t] \/ ReadLock \/ WriteLock
  <2>1. CASE RuntimeStep(t) \/ Accept(t) \/ ListOk(t)
    BY <1>0, <2>1 DEF RuntimeStep, EntryGet, EntryFail, EntryDone, EntryRetain, PlusEntry, PlusFull,
       PlusError, PlusUndo, PlusUndone, PlusDrop, PlusReply, PlusReplyLost, Reply, DropNode,
       Accept, PlusRetain, ListOk, PlusOk, Finish, requestVars, DirOps, DirWriters, DirReaders
  <2>2. CASE List(t, "readdir") \/ List(t, "readdirplus")
    BY <2>2 DEF List
  <2>3. ASSUME NEW n \in Names, Inserting(t, n)
        PROVE  op'[t] \in DirOps => op'[t] = op[t] \/ ReadLock \/ WriteLock
    BY <1>0, <2>3 DEF Inserting, PathLookup, PathRevalidate, LookupName, PathMknod, PathEmit,
       Start, DirOps, DirWriters, DirReaders
  <2>4. CASE Removing(t)
    BY <2>4 DEF Removing, RemoveEntry, Refuse, Rollback, threadVars, requestVars
  <2>5. ASSUME NEW n \in Names, NEW m \in Names, PathRename(t, n, m)
        PROVE  op'[t] \in DirOps => op'[t] = op[t] \/ ReadLock \/ WriteLock
    BY <2>5 DEF PathRename
  <2>6. ASSUME NEW i \in Inos, NEW n \in Names, PathLink(t, i, n)
        PROVE  op'[t] \in DirOps => op'[t] = op[t] \/ ReadLock \/ WriteLock
    BY <2>6 DEF PathLink
  <2> QED
    BY <2>1, <2>2, <2>3, <2>4, <2>5, <2>6, StepKinds DEF Passing
<1>2. ReadLock \/ WriteLock => \A u \in Threads : op[u] \notin DirOps
  BY DEF ReadLock, WriteLock, MayRead, MayWrite, DirOps
<1>3. \A u \in Threads \ {t} : op'[u] = op[u]
  BY <1>0, PathHands DEF HandsOK, OnlyThread
<1> QED
  BY <1>0, <1>1, <1>2, <1>3 DEF OneInv

\* A step of t leaves the listings of the others alone.
LEMMA ListsOfOthers ==
  ASSUME PathInv, NEW t \in Threads, PathRequest(t) \/ PathStep(t), NEW u \in Threads, u # t
  PROVE  inserted'[u] = inserted[u] /\ fresh'[u] = fresh[u]
<1>0. inserted \in [Threads -> Seq(Names)] /\ fresh \in [Threads -> Seq(Names)]
  BY DEF PathInv, RestTypeOK
<1> QED
  BY <1>0 DEF PathRequest, PathStep, List, PathLookup, PathRevalidate, LookupName, PathMknod,
     RemoveEntry, PathRename, PathLink, PathEmit, Accept, Refuse, Rollback, ListOk, listVars, pathVars

LEMMA ListingStep ==
  ASSUME PathInv, ListingInv, NEW t \in Threads, PathRequest(t) \/ PathStep(t)
  PROVE  ListingInv'
<1>0. /\ inserted \in [Threads -> Seq(Names)] /\ fresh \in [Threads -> Seq(Names)]
      /\ pc \in [Threads -> PCs] /\ ListingShape(t) /\ PathShape(t)
  BY DEF PathInv, RestTypeOK, ThreadsTypeOK, ListingInv, PathShapeInv
<1>1. ListingShape(t)'
  <2> USE <1>0 DEF ListingShape, Goto
  <2>1. CASE RuntimeStep(t) /\ UNCHANGED pathVars
    <3>0. inserted' = inserted /\ fresh' = fresh
      BY <2>1 DEF pathVars, listVars
    <3> QED
      BY <2>1, <3>0 DEF RuntimeStep, EntryGet, EntryFail, EntryDone, EntryRetain, PlusEntry,
         PlusFull, PlusError, PlusUndo, PlusUndone, PlusDrop, PlusReply, PlusReplyLost, Reply,
         DropNode, Finish
  <2>2. CASE List(t, "readdir") \/ List(t, "readdirplus")
    BY <2>2 DEF List, StartOnNode, Start, threadVars, pathVars, listVars
  <2>3. CASE Accept(t)
    BY <2>3 DEF Accept, PlusRetain
  <2>4. CASE ListOk(t)
    BY <2>4 DEF ListOk, PlusOk
  <2>5. ASSUME NEW n \in Names, Inserting(t, n) PROVE ListingShape(t)'
    <3>1. CASE PathEmit(t, n)
      BY <3>1 DEF PathEmit
    <3>2. CASE ~PathEmit(t, n)
      BY <2>5, <3>2 DEF Inserting, PathLookup, PathRevalidate, LookupName, PathMknod, Start, listVars
    <3> QED
      BY <3>1, <3>2
  <2>6. CASE Removing(t)
    BY <2>6 DEF Removing, RemoveEntry, Refuse, Rollback, threadVars, listVars
  <2>7. ASSUME NEW n \in Names, NEW m \in Names, PathRename(t, n, m) PROVE ListingShape(t)'
    BY <2>7 DEF PathRename, threadVars, listVars
  <2>8. ASSUME NEW i \in Inos, NEW n \in Names, PathLink(t, i, n) PROVE ListingShape(t)'
    BY <2>8 DEF PathLink, Start, listVars
  <2> QED
    BY <2>1, <2>2, <2>3, <2>4, <2>5, <2>6, <2>7, <2>8, StepKinds DEF Passing
<1>2. \A u \in Threads \ {t} : pc'[u] = pc[u]
  BY <1>0, PathHands DEF HandsOK, OnlyThread
<1>3. \A u \in Threads \ {t} : ListingShape(u)'
  BY <1>2, ListsOfOthers DEF ListingInv, ListingShape
<1> QED
  BY <1>1, <1>3 DEF ListingInv

\* The directory does not change under a request on it.
LEMMA Undisturbed ==
  ASSUME Serial, ~Parallel, PathInv, SerialInv, NEW t \in Threads, PathRequest(t) \/ PathStep(t),
         NEW u \in Threads, u # t, op[u] \in DirOps
  PROVE  Keeps
BY Effects DEF Alone

\* What the kernel learns is in the reply.
LEMMA Learned ==
  ASSUME PathInv, NEW t \in Threads, PathRequest(t) \/ PathStep(t)
  PROVE  \A i \in Inos :
           /\ klookup[i] \in Nat /\ klookup'[i] \in Nat /\ klookup'[i] >= klookup[i]
           /\ klookup'[i] # klookup[i] =>
                \/ pc[t] = "reply" /\ id[t] = i
                \/ pc[t] = "rdp_reply" /\ \E a \in 1..Len(buffer[t]) : buffer[t][a].ino = i
<1> SUFFICES ASSUME NEW i \in Inos
             PROVE  /\ klookup[i] \in Nat /\ klookup'[i] \in Nat /\ klookup'[i] >= klookup[i]
                    /\ klookup'[i] # klookup[i] =>
                         \/ pc[t] = "reply" /\ id[t] = i
                         \/ pc[t] = "rdp_reply" /\ \E a \in 1..Len(buffer[t]) : buffer[t][a].ino = i
  OBVIOUS
<1>0. klookup \in [Inos -> Nat] /\ op[t] # "open"
  BY DEF PathInv, RestTypeOK, PathShapeInv, PathShape, PathOps
<1>1. CASE Reply(t)
  BY <1>0, <1>1 DEF Reply
<1>2. CASE PlusReply(t)
  <2>1. TypeOK
    BY PathTypes DEF PathTypeOK
  <2>2. /\ Cardinality(EntriesFor(t, i)) \in Nat
        /\ klookup'[i] = klookup[i] + Cardinality(EntriesFor(t, i)) /\ pc[t] = "rdp_reply"
    BY <1>2, <2>1, LastForType DEF PlusReply
  <2>3. EntriesFor(t, i) = {} => klookup'[i] = klookup[i]
    BY <1>0, <2>2, FS_EmptySet
  <2> QED
    BY <1>0, <2>2, <2>3 DEF EntriesFor
<1>3. CASE ~PlusReply(t) /\ ~Reply(t)
  <2>1. klookup' = klookup
    BY <1>3 DEF PathRequest, PathStep, RuntimeStep, EntryGet, EntryFail, EntryDone, EntryRetain,
       PlusEntry, PlusFull, PlusError, PlusUndo, PlusUndone, PlusDrop, PlusReplyLost, DropNode,
       List, StartOnNode, Accept, PlusRetain, ListOk, PlusOk, PathLookup, PathRevalidate,
       LookupName, PathMknod, PathEmit, RemoveEntry, Refuse, Rollback, PathRename, PathLink,
       kernelVars
  <2> QED
    BY <1>0, <2>1
<1> QED
  BY <1>1, <1>2, <1>3

LEMMA RevalStep ==
  ASSUME PathInv, SerialInv, NEW t \in Threads, PathRequest(t) \/ PathStep(t)
  PROVE  RevalInv'
<1>0. /\ \A i \in Inos : klookup[i] \in Nat /\ klookup'[i] \in Nat /\ klookup'[i] >= klookup[i]
      /\ \A u \in Threads : op[u] = "revalidate" => id[u] \in Inos /\ klookup[id[u]] > 0
      /\ op \in [Threads -> Ops] /\ id \in [Threads -> Inos \cup {0}] /\ PathShape(t)
  BY Learned DEF PathInv, ThreadsTypeOK, PathShapeInv, PathShape, SerialInv, RevalInv
<1>1. \A u \in Threads \ {t} : op'[u] = op[u] /\ id'[u] = id[u]
  BY <1>0, PathHands DEF HandsOK, OnlyThread
<1>2. ASSUME op'[t] = "revalidate" PROVE klookup'[id'[t]] > 0
  <2>1. ASSUME op[t] = "revalidate", id'[t] = id[t] PROVE klookup'[id'[t]] > 0
    BY <1>0, <2>1
  <2>2. CASE RuntimeStep(t) \/ Accept(t) \/ ListOk(t)
    <3>1. op'[t] = op[t] /\ id'[t] = id[t]
      BY <1>0, <1>2, <2>2 DEF RuntimeStep, EntryGet, EntryFail, EntryDone, EntryRetain, PlusEntry,
         PlusFull, PlusError, PlusUndo, PlusUndone, PlusDrop, PlusReply, PlusReplyLost, Reply,
         DropNode, Accept, PlusRetain, ListOk, PlusOk, Finish, requestVars
    <3> QED
      BY <1>2, <2>1, <3>1
  <2>3. CASE List(t, "readdir") \/ List(t, "readdirplus")
    BY <1>0, <1>2, <2>1, <2>3 DEF List, StartOnNode, Start, threadVars, requestVars
  <2>4. ASSUME NEW n \in Names, Inserting(t, n) PROVE klookup'[id'[t]] > 0
    <3>1. CASE PathRevalidate(t, n)
      <4>1. names[n] \in Inos /\ klookup[names[n]] > 0
        BY <3>1, KernelNamed DEF PathRevalidate, LookupName
      <4>2. id'[t] = names[n]
        BY <1>0, <3>1, <4>1, InosFacts DEF PathRevalidate, LookupName, Start, NsId
      <4> QED
        BY <1>0, <4>1, <4>2
    <3>2. CASE ~PathRevalidate(t, n)
      <4>1. PathEmit(t, n)
        BY <1>0, <1>2, <2>4, <3>2 DEF Inserting, PathLookup, LookupName, PathMknod, Start
      <4>2. op'[t] \in ListOps
        BY <1>0, <4>1 DEF PathEmit, PathShape, PlusPCs
      <4> QED
        BY <1>2, <4>2 DEF ListOps
    <3> QED
      BY <3>1, <3>2
  <2>5. CASE Removing(t)
    BY <1>2, <2>1, <2>5 DEF Removing, RemoveEntry, Refuse, Rollback, threadVars, requestVars
  <2>6. ASSUME NEW n \in Names, NEW m \in Names, PathRename(t, n, m) PROVE klookup'[id'[t]] > 0
    BY <1>2, <2>1, <2>6 DEF PathRename, threadVars, requestVars
  <2>7. ASSUME NEW i \in Inos, NEW n \in Names, PathLink(t, i, n) PROVE klookup'[id'[t]] > 0
    BY <1>0, <1>2, <2>7 DEF PathLink, Start
  <2> QED
    BY <2>2, <2>3, <2>4, <2>5, <2>6, <2>7, StepKinds DEF Passing
<1> QED
  BY <1>0, <1>1, <1>2 DEF RevalInv

-----------------------------------------------------------------------------
(* The node that a request has from the namespace *)

\* A name that stays keeps its node.
LEMMA NameKept ==
  ASSUME PathInv, PathInv', Operation, NEW n \in Names, NEW i, i # 0, names[n] = i, names'[n] = i
  PROVE  map'[i].record = map[i].record /\ map'[i].generation = map[i].generation
<1>1. i \in DOMAIN map \cap DOMAIN map'
  BY NamesAreIn, NamesAreInNext DEF NamesIn, PathInv
<1> QED
  BY <1>1, OperationKeepsNodes DEF PathInv, NsInv, SameNode

\* The number that Namespace::insert returns is the name's, and its node the one meant.
LEMMA InsertNamed ==
  ASSUME PathInv, NEW n \in Names, NEW o, NsInsert(n, o)
  PROVE  names'[n] = NsId(n) /\ map'[NsId(n)].record = NsRecord(n)
<1>0. TableInv /\ names \in [Names -> Inos \cup {0}]
  BY DEF PathInv, NsInv, NsTypeOK
<1>1. CASE names[n] # 0
  BY <1>1 DEF NsInsert, tableVars, nsVars, NsId, NsRecord
<1>2. CASE names[n] = 0
  BY <1>0, <1>2, InsertCounts DEF NsInsert, NsId, NsRecord
<1> QED
  BY <1>1, <1>2

TargetOK(t) ==
  /\ \E n \in Names : names[n] = id[t]
  /\ map[id[t]].record = want[t]
  /\ pc[t] = "rdp_add" /\ op[t] = "readdirplus" => map[id[t]].generation = gen[t]

\* A request goes on with the node it has.
LEMMA TargetOn ==
  ASSUME PathInv, PathInv', PathTargetInv, NEW t \in Threads, PathTargets(t), Operation,
         UNCHANGED names, id'[t] = id[t], want'[t] = want[t],
         pc'[t] = "rdp_add" /\ op'[t] = "readdirplus" => gen'[t] = map[id[t]].generation
  PROVE  TargetOK(t)'
<1>1. PICK n \in Names : names[n] = id[t]
  BY DEF PathTargetInv
<1>2. id[t] # 0
  BY TargetRight, InosFacts
<1>3. map'[id[t]].record = map[id[t]].record /\ map'[id[t]].generation = map[id[t]].generation
  BY <1>1, <1>2, NameKept
<1> QED
  BY <1>1, <1>3 DEF TargetOK, PathTargetInv

LEMMA TargetStep ==
  ASSUME Serial, ~Parallel, PathInv, PathInv', SerialInv, NEW t \in Threads,
         PathRequest(t) \/ PathStep(t)
  PROVE  PathTargetInv'
<1>0. /\ pc \in [Threads -> PCs] /\ op \in [Threads -> Ops] /\ id \in [Threads -> Inos \cup {0}]
      /\ want \in [Threads -> Nat] /\ gen \in [Threads -> Nat]
      /\ PathShape(t) /\ PathTargetInv /\ Operation
      /\ \A i \in DOMAIN map : i \in Inos
  BY PathOperation DEF PathInv, ThreadsTypeOK, PathShapeInv, SerialInv, NsInv, TableInv, TableTypeOK
<1>1. ASSUME NEW u \in Threads, u # t, PathTargets(u)' PROVE TargetOK(u)'
  <2>1. /\ pc'[u] = pc[u] /\ op'[u] = op[u] /\ id'[u] = id[u] /\ want'[u] = want[u]
        /\ gen'[u] = gen[u]
    BY <1>0, <1>1, PathHands DEF HandsOK, OnlyThread
  <2>2. PathTargets(u)
    BY <1>1, <2>1 DEF PathTargets
  <2>3. op[u] \in DirOps
    BY <2>2 DEF PathTargets, PathInv, PathShapeInv, PathShape, EntryOps, ListOps, EntryPCs, PlusPCs,
       DirOps, DirReaders
  <2>4. UNCHANGED names
    BY <1>1, <2>3, Undisturbed DEF Keeps, nsVars
  <2> QED
    BY <1>0, <2>1, <2>2, <2>4, TargetOn DEF PathTargetInv
<1>2. ASSUME PathTargets(t)' PROVE TargetOK(t)'
  <2> USE <1>0 DEF Goto
  <2>1. CASE RuntimeStep(t) /\ UNCHANGED pathVars
    <3>0. UNCHANGED names
      BY <2>1, PassingTable DEF Passing, nsVars
    <3>a. op[t] # "open"
      BY DEF PathShape, PathOps
    <3>1. op'[t] = op[t] /\ id'[t] = id[t] /\ PathTargets(t)
      BY <1>2, <2>1, <3>a DEF RuntimeStep, EntryGet, EntryFail, EntryDone, EntryRetain, PlusEntry,
         PlusFull, PlusError, PlusUndo, PlusUndone, PlusDrop, PlusReply, PlusReplyLost, Reply,
         DropNode, Finish, requestVars, PathTargets, EntryPCs
    <3>2. /\ want'[t] = want[t]
          /\ pc'[t] = "rdp_add" /\ op'[t] = "readdirplus" => gen'[t] = map[id[t]].generation
      <4>1. map[id[t]].record = want[t]
        BY <3>1, TargetRight
      <4> QED
        BY <1>2, <2>1, <3>1, <4>1 DEF RuntimeStep, EntryGet, EntryFail, EntryDone, EntryRetain,
           PlusEntry, PlusFull, PlusError, PlusUndo, PlusUndone, PlusDrop, PlusReply, PlusReplyLost,
           Reply, DropNode, Finish, requestVars, PathTargets, EntryPCs
    <3> QED
      BY <3>0, <3>1, <3>2, TargetOn
  <2>2. CASE List(t, "readdir") \/ List(t, "readdirplus")
    BY <1>2, <2>2 DEF List, StartOnNode, Start, threadVars, PathTargets, EntryPCs
  <2>3. CASE Accept(t) \/ ListOk(t)
    BY <1>2, <2>3 DEF Accept, PlusRetain, ListOk, PlusOk, PathTargets, EntryPCs
  <2>4. ASSUME NEW n \in Names, Inserting(t, n) PROVE TargetOK(t)'
    <3>1. names'[n] = NsId(n) /\ map'[NsId(n)].record = NsRecord(n)
      BY <2>4, InsertNamed DEF Inserting, PathLookup, PathRevalidate, LookupName, PathMknod, PathEmit
    <3>2. id'[t] = NsId(n) /\ want'[t] = NsRecord(n)
      BY <2>4 DEF Inserting, PathLookup, PathRevalidate, LookupName, PathMknod, PathEmit, Start
    <3>3. ~(pc'[t] = "rdp_add" /\ op'[t] = "readdirplus")
      BY <2>4 DEF Inserting, PathLookup, PathRevalidate, LookupName, PathMknod, PathEmit, Start
    <3> QED
      BY <3>1, <3>2, <3>3 DEF TargetOK
  <2>5. CASE Removing(t)
    <3>1. threadVars' = threadVars
      BY <2>5 DEF Removing, RemoveEntry, Refuse, Rollback
    <3>2. pc[t] \notin EntryPCs \cup {"reply", "rdp_plus", "rdp_add"}
      BY <2>5 DEF Removing, RemoveEntry, Refuse, Rollback, EntryPCs
    <3> QED
      BY <1>2, <3>1, <3>2 DEF PathTargets, threadVars
  <2>6. ASSUME NEW n \in Names, NEW m \in Names, PathRename(t, n, m) PROVE TargetOK(t)'
    BY <1>2, <2>6 DEF PathRename, PathTargets, threadVars, EntryPCs
  <2>7. ASSUME NEW i \in Inos, NEW n \in Names, PathLink(t, i, n) PROVE TargetOK(t)'
    <3>1. /\ AddLink(i) /\ names' = [names EXCEPT ![n] = i] /\ id'[t] = i
          /\ want'[t] = map[i].record /\ pc'[t] = "entry"
      BY <2>7 DEF PathLink, Start
    <3>2. names'[n] = i /\ i # 0
      BY <3>1, InosFacts DEF PathInv, NsInv, NsTypeOK
    <3>3. i \in DOMAIN map /\ i \in DOMAIN map'
      BY <3>1, <3>2, NamesAreInNext DEF NamesIn, PathInv, AddLink
    <3>4. map'[i].record = map[i].record
      BY <3>3, OperationKeepsNodes DEF PathInv, NsInv, SameNode
    <3> QED
      BY <3>1, <3>2, <3>4 DEF TargetOK
  <2> QED
    BY <2>1, <2>2, <2>3, <2>4, <2>5, <2>6, <2>7, StepKinds DEF Passing
<1> QED
  BY <1>1, <1>2 DEF PathTargetInv, TargetOK

-----------------------------------------------------------------------------
(* The names of an object that the kernel knows *)

\* A node with a name has all the names of its object.
LEMMA NamedAnchored ==
  ASSUME DirInv', NEW i, i # 0, NEW n \in Names, names'[n] = i
  PROVE  Anchored(i)'
BY DEF DirInv, DentryInv, TwinInv, Anchored, ObjectOf

\* What is new to the kernel has a name.
LEMMA NewlyTold ==
  ASSUME PathInv, SerialInv, NEW t \in Threads, PathRequest(t) \/ PathStep(t),
         NEW i \in Inos, Told(i)'
  PROVE  Told(i) \/ (Passing(t) /\ \E n \in Names : names[n] = i)
<1>0. /\ pc \in [Threads -> PCs] /\ buffer \in [Threads -> Seq(Entry)]
      /\ PathShape(t) /\ PathTargetInv
  BY DEF PathInv, ThreadsTypeOK, PathShapeInv, SerialInv
<1>1. ASSUME pc[t] \in {"reply", "rdp_add"}, id[t] = i
      PROVE  Told(i) \/ (Passing(t) /\ \E n \in Names : names[n] = i)
  <2>1. Passing(t)
    BY <1>1, StepKinds DEF Inserting, PathLookup, PathRevalidate, LookupName, PathMknod, PathEmit,
       Start, Removing, RemoveEntry, Refuse, Rollback, PathRename, PathLink
  <2>2. CASE op[t] = "revalidate"
    BY <1>1, <2>2 DEF SerialInv, RevalInv, Told
  <2>3. CASE op[t] # "revalidate"
    BY <1>0, <1>1, <2>1, <2>3 DEF PathTargets, PathTargetInv
  <2> QED
    BY <2>2, <2>3
<1>2. CASE klookup'[i] > 0
  BY <1>1, <1>2, Learned DEF Told
<1>3. ASSUME NEW u \in Threads, pc'[u] # "rdp_undo", NEW a \in 1..Len(buffer'[u]),
             buffer'[u][a].ino = i
      PROVE  Told(i) \/ (Passing(t) /\ \E n \in Names : names[n] = i)
  <2>1. CASE u # t
    <3>1. pc'[u] = pc[u] /\ buffer'[u] = buffer[u]
      BY <1>0, <2>1, PathHands DEF HandsOK, OnlyThread
    <3> QED
      BY <1>3, <3>1 DEF Told
  <2>2. CASE u = t /\ ~TellAction(t)
    <3>1. buffer' = buffer
      BY <2>2, PathSteady DEF Steady, SerialInv, TellInv, CountedInv
    <3>2. Len(buffer[t]) \in Nat /\ a \in 1..Len(buffer[t]) /\ buffer[t] # <<>>
      BY <1>0, <1>3, <2>2, <3>1
    <3>3. pc[t] # "rdp_undo"
      <4> SUFFICES ASSUME pc[t] = "rdp_undo" PROVE FALSE
        OBVIOUS
      <4>1. pc' = pc
        BY <2>2, <3>2, StepKinds DEF Passing, RuntimeStep, EntryGet, EntryFail, EntryDone,
           EntryRetain, PlusEntry, PlusFull, PlusError, PlusUndone, PlusDrop, PlusReply,
           PlusReplyLost, Reply, DropNode, List, StartOnNode, Accept, PlusRetain, ListOk, PlusOk,
           Inserting, PathLookup, PathRevalidate, LookupName, PathMknod, PathEmit, Start,
           Removing, RemoveEntry, Refuse, Rollback, PathRename, PathLink, threadVars, TellAction
      <4> QED
        BY <1>3, <2>2, <4>1
    <3> QED
      BY <1>3, <2>2, <3>1, <3>2, <3>3 DEF Told
  <2>3. CASE u = t /\ PlusRetain(t)
    <3> DEFINE e == [ino |-> id[t], gen |-> gen[t], record |-> want[t],
                     retained |-> id[t] \in DOMAIN map]
    <3>1. buffer' = [buffer EXCEPT ![t] = Append(@, e)] /\ pc[t] = "rdp_add" /\ e.ino = id[t]
      BY <2>3 DEF PlusRetain
    <3> HIDE DEF e
    <3>2. buffer'[t] = Append(buffer[t], e) /\ Len(buffer[t]) \in Nat /\ buffer[t] \in Seq(Entry)
      BY <1>0, <3>1
    <3>3. CASE a = Len(buffer[t]) + 1
      <4>1. buffer'[t][a] = e
        BY <3>2, <3>3
      <4> QED
        BY <1>1, <1>3, <2>3, <3>1, <4>1
    <3>4. CASE a # Len(buffer[t]) + 1
      <4>1. a \in 1..Len(buffer[t]) /\ buffer'[t][a] = buffer[t][a]
        BY <1>3, <2>3, <3>2, <3>4
      <4> QED
        BY <1>3, <2>3, <3>1, <4>1 DEF Told
    <3> QED
      BY <3>3, <3>4
  <2>4. CASE u = t /\ EntryRetain(t)
    <3>1. buffer' = buffer /\ pc[t] = "entry_attr"
      BY <2>4 DEF EntryRetain
    <3> QED
      BY <1>3, <2>4, <3>1 DEF Told
  <2>5. CASE u = t /\ PlusUndo(t)
    BY <1>3, <2>5 DEF PlusUndo
  <2>6. CASE u = t /\ (PlusReply(t) \/ Reply(t) \/ PlusPanic(t) \/ ReplyLost(t))
    <3>1. buffer'[t] = <<>>
      BY <1>0, <2>6 DEF PlusReply, Reply, PlusPanic, ReplyLost, Finish
    <3> QED
      BY <1>3, <2>6, <3>1
  <2> QED
    BY <2>1, <2>2, <2>3, <2>4, <2>5, <2>6 DEF TellAction
<1> QED
  BY <1>2, <1>3 DEF Told

\* What the kernel knows, or is told, is in the table.
LEMMA ToldThere ==
  ASSUME ToldInv, NEW i \in Inos, Told(i)
  PROVE  i \in DOMAIN map
BY DEF ToldInv, Told

LEMMA AnchorStep ==
  ASSUME Serial, ~Parallel, PathInv, PathInv', SerialInv, TellInv', DirInv',
         NEW t \in Threads, PathRequest(t) \/ PathStep(t)
  PROVE  AnchorInv'
<1> SUFFICES ASSUME NEW i \in Inos, Told(i)' PROVE Anchored(i)'
  BY DEF AnchorInv
<1>0. /\ store \in [Names -> 0..MaxObjects] /\ objects \in 0..MaxObjects /\ MaxObjects \in Nat
      /\ names \in [Names -> Inos \cup {0}] /\ 0 \notin Inos
      /\ NsInv /\ NsInv' /\ DirInv /\ ToldInv /\ ToldInv' /\ Operation
  BY ObjectsAssumption, InosFacts, ToldPins, ToldPinsNext, PathOperation
     DEF PathInv, RestTypeOK, NsInv, NsTypeOK, SerialInv, TellInv
<1>1. store \in [Names -> Nat] /\ objects \in Nat
  BY <1>0
<1>2. i \in DOMAIN map'
  BY <1>0 DEF ToldInv, Told
<1>3. ASSUME Passing(t), NEW n \in Names, names[n] = i PROVE Anchored(i)'
  <2>1. names' = names
    BY <1>3, PassingTable DEF nsVars
  <2> QED
    BY <1>0, <1>3, <2>1, NamedAnchored
<1>4. CASE Told(i)
  <2>0. Anchored(i) /\ i \in DOMAIN map /\ map[i].record \in 1..records /\ records \in Nat
    BY <1>0, <1>4, ToldThere DEF SerialInv, AnchorInv, NsInv, KeysInv, TableInv, TableTypeOK
  <2>1. ASSUME object' = object \/ \A r \in 1..records : object'[r] = object[r]
        PROVE  ObjectOf(i)' = ObjectOf(i)
    BY <1>0, <1>2, <2>0, <2>1, ObjectKept
  <2>2. CASE Keeps
    BY <2>0, <2>1, <2>2 DEF Keeps, nsVars, storeVars, Anchored
  <2>3. ASSUME NEW n \in Names, NEW o \in 1..MaxObjects, Gains(n, o) PROVE Anchored(i)'
    <3>1. /\ names' = [names EXCEPT ![n] = Allocated]
          /\ \A j \in DOMAIN map : j \in DOMAIN map' /\ ObjectOf(j)' = ObjectOf(j)
      BY <1>0, <1>1, <2>3, DirInsert DEF Gains
    <3>2. o # ObjectOf(i)
      <4>1. CASE o = store[n]
        BY <1>0, <2>0, <2>3, <4>1 DEF Gains, Anchored
      <4>2. CASE o = objects + 1
        <5>1. object[map[i].record] \in 0..MaxObjects /\ object[map[i].record] <= objects
          BY <1>0, <2>0 DEF NsInv, NsTypeOK, DirInv, StoreInv
        <5> QED
          BY <1>1, <4>2, <5>1 DEF ObjectOf
      <4> QED
        BY <2>3, <4>1, <4>2 DEF Gains
    <3>3. ObjectOf(i)' = ObjectOf(i) /\ store' = [store EXCEPT ![n] = o]
      BY <2>0, <2>3, <3>1 DEF Gains
    <3> QED
      BY <1>0, <2>0, <3>1, <3>2, <3>3 DEF Anchored
  <2>4. ASSUME NEW n \in Names, Loses(n) PROVE Anchored(i)'
    <3>1. /\ names' = [names EXCEPT ![n] = 0] /\ store' = [store EXCEPT ![n] = 0]
          /\ ObjectOf(i)' = ObjectOf(i)
      BY <1>0, <1>1, <2>1, <2>4, DirRemove DEF Loses
    <3> QED
      BY <1>0, <2>0, <3>1 DEF Anchored
  <2>5. ASSUME NEW n \in Names, RollsBack(t, n), Alone(t) PROVE Anchored(i)'
    <3>1. /\ names' = [names EXCEPT ![n] = 0] /\ store' = store
          /\ ObjectOf(i)' = ObjectOf(i)
      BY <1>0, <2>1, <2>5 DEF RollsBack, NsRemove, storeVars
    <3>2. names[n] # i
      <4> SUFFICES ASSUME names[n] = i PROVE FALSE
        OBVIOUS
      <4>1. klookup[i] = 0
        BY <2>5 DEF RollsBack, SerialInv, InsertedInv
      <4>2. PICK u \in Threads : pc[u] # "rdp_undo" /\ \E a \in 1..Len(buffer[u]) : buffer[u][a].ino = i
        BY <1>4, <4>1 DEF Told
      <4>3. buffer[u] # <<>> /\ op[u] \in DirOps
        <5>1. buffer[u] \in Seq(Entry) /\ PathShape(u) /\ ListShape(u)
          BY DEF PathInv, ThreadsTypeOK, PathShapeInv, SerialInv, TellInv, CountedInv, ListInv
        <5>2. buffer[u] # <<>>
          BY <4>2, <5>1
        <5> QED
          BY <5>1, <5>2 DEF ListShape, PathShape, ListOps, DirOps, DirReaders
      <4>4. u = t
        BY <2>5, <4>3 DEF Alone
      <4>5. fresh[t] # <<>> /\ n = fresh[t][1]
        BY <2>5, <4>2, <4>4 DEF RollsBack
      <4> QED
        BY <4>2, <4>4, <4>5 DEF SerialInv, FreshInv
    <3> QED
      BY <1>0, <2>0, <3>1, <3>2 DEF Anchored
  <2>6. ASSUME NEW n \in Names, NEW m \in Names, Moves(t, n, m) PROVE Anchored(i)'
    <3>0. object[map[i].record] \in 0..MaxObjects /\ object[map[i].record] <= objects
      BY <1>0, <2>0 DEF NsInv, NsTypeOK, DirInv, StoreInv
    <3>1. /\ names' = [names EXCEPT ![m] = names[n], ![n] = 0]
          /\ \E o \in {0, objects + 1} : store' = [store EXCEPT ![m] = store[n], ![n] = o]
          /\ ObjectOf(i)' = ObjectOf(i) /\ n # m
      BY <1>0, <1>1, <2>1, <2>6, DirRename DEF Moves, PathRename
    <3>2. /\ names'[n] = 0 /\ names'[m] = names[n] /\ store'[m] = store[n]
          /\ store'[n] = 0 \/ store'[n] # ObjectOf(i)
          /\ \A k \in Names : k # n /\ k # m => names'[k] = names[k] /\ store'[k] = store[k]
      BY <1>0, <1>1, <3>0, <3>1 DEF ObjectOf
    <3> QED
      BY <2>0, <3>1, <3>2 DEF Anchored
  <2>7. ASSUME NEW j \in Inos, NEW n \in Names, PathLink(t, j, n) PROVE Anchored(i)'
    <3>1. PICK a \in Names : /\ names[a] = j /\ store[a] # 0
                             /\ store' = [store EXCEPT ![n] = store[a]]
      BY <1>0, <1>1, <2>7, DirLink
    <3>2. names' = [names EXCEPT ![n] = j] /\ ObjectOf(i)' = ObjectOf(i)
      BY <2>1, <2>7 DEF PathLink
    <3>3. /\ names'[n] = names[a] /\ store'[n] = store[a]
          /\ \A k \in Names : k # n => names'[k] = names[k] /\ store'[k] = store[k]
      BY <1>0, <3>1, <3>2
    <3> QED
      BY <2>0, <3>2, <3>3 DEF Anchored
  <2> QED
    BY <2>2, <2>3, <2>4, <2>5, <2>6, <2>7, Effects DEF Changes
<1> QED
  BY <1>3, <1>4, NewlyTold

-----------------------------------------------------------------------------
(* The dentries that a listing may have to take back *)

LEMMA DentriesListing ==
  ASSUME PathInv, SerialInv, NEW t \in Threads, NEW n \in Dentries(t)
  PROVE  /\ pc[t] \in {"rdp", "rdp_plus", "rdp_add", "rdp_end", "rdp_undo"}
         /\ op[t] \in ListOps /\ op[t] \in DirOps
<1>0. /\ inserted[t] \in Seq(Names) /\ fresh[t] \in Seq(Names)
      /\ ListingShape(t) /\ PathShape(t)
  BY DEF PathInv, RestTypeOK, PathShapeInv, SerialInv, ListingInv
<1>1. inserted[t] # <<>> \/ fresh[t] # <<>>
  BY <1>0 DEF Dentries
<1> QED
  BY <1>0, <1>1 DEF ListingShape, PathShape, PlusPCs, ListOps, DirOps, DirReaders

\* A listing has only the dentry that it has just inserted to add.
LEMMA DentriesGrow ==
  ASSUME PathInv, NEW t \in Threads, PathRequest(t) \/ PathStep(t), NEW n \in Dentries(t)'
  PROVE  n \in Dentries(t) \/ (PathEmit(t, n) /\ names[n] = 0)
<1>0. /\ inserted \in [Threads -> Seq(Names)] /\ fresh \in [Threads -> Seq(Names)]
      /\ inserted[t] \in Seq(Names) /\ fresh[t] \in Seq(Names) /\ n \in Names
  BY DEF PathInv, RestTypeOK, Dentries
<1>1. ASSUME inserted'[t] = inserted[t], fresh'[t] \in {fresh[t], <<>>}
      PROVE  n \in Dentries(t)
  BY <1>1 DEF Dentries
<1>2. CASE Accept(t)
  <2>1. inserted'[t] = inserted[t] \o fresh[t] /\ fresh'[t] = <<>>
    BY <1>0, <1>2 DEF Accept
  <2>a. 1..Len(<<>>) = {}
    OBVIOUS
  <2>2. PICK a \in 1..Len(inserted[t] \o fresh[t]) : (inserted[t] \o fresh[t])[a] = n
    BY <2>1, <2>a DEF Dentries
  <2>3. Len(inserted[t]) \in Nat /\ Len(fresh[t]) \in Nat
        /\ Len(inserted[t] \o fresh[t]) = Len(inserted[t]) + Len(fresh[t])
    BY <1>0
  <2>4. CASE a <= Len(inserted[t])
    <3>1. a \in 1..Len(inserted[t]) /\ inserted[t][a] = n
      BY <1>0, <2>2, <2>3, <2>4
    <3> QED
      BY <1>0, <3>1 DEF Dentries
  <2>5. CASE ~(a <= Len(inserted[t]))
    <3>1. a - Len(inserted[t]) \in 1..Len(fresh[t]) /\ fresh[t][a - Len(inserted[t])] = n
      BY <1>0, <2>2, <2>3, <2>5
    <3> QED
      BY <1>0, <3>1 DEF Dentries
  <2> QED
    BY <2>4, <2>5
<1>3. CASE Rollback(t)
  <2> DEFINE s == inserted[t]
  <2>1. inserted'[t] = SubSeq(s, 1, Len(s) - 1) /\ fresh' = fresh /\ Len(s) \in Nat /\ Len(s) >= 1
    BY <1>0, <1>3 DEF Rollback
  <2>2. /\ Len(SubSeq(s, 1, Len(s) - 1)) = Len(s) - 1
        /\ \A a \in 1..(Len(s) - 1) : SubSeq(s, 1, Len(s) - 1)[a] = s[a] /\ a \in 1..Len(s)
    <3>1. PICK l \in Nat : l = Len(s) - 1
      BY <2>1
    <3>2. \A a \in 1..l : s[a] \in Names /\ a \in 1..Len(s)
      BY <1>0, <2>1, <3>1
    <3>3. /\ Len(SubSeq(s, 1, l)) = IF 1 <= l THEN l - 1 + 1 ELSE 0
          /\ \A a \in 1..(l - 1 + 1) : SubSeq(s, 1, l)[a] = s[1 + a - 1]
      BY <3>2, SubSeqProperties
    <3>4. l - 1 + 1 = l /\ \A a \in 1..l : 1 + a - 1 = a
      BY <3>1
    <3>5. Len(SubSeq(s, 1, l)) = l
      BY <3>1, <3>3
    <3> QED
      BY <3>1, <3>2, <3>3, <3>4, <3>5
  <2> QED
    BY <2>1, <2>2 DEF Dentries
<1>4. CASE Refuse(t)
  BY <1>0, <1>1, <1>4 DEF Refuse
<1>5. CASE ListOk(t)
  <2>1. inserted'[t] = <<>> /\ fresh' = fresh
    BY <1>0, <1>5 DEF ListOk
  <2> QED
    BY <2>1 DEF Dentries
<1>6. ASSUME NEW m \in Names, PathEmit(t, m)
      PROVE  n \in Dentries(t) \/ (PathEmit(t, n) /\ names[n] = 0)
  <2>1. inserted'[t] = inserted[t] /\ fresh'[t] = IF names[m] = 0 THEN <<m>> ELSE <<>>
    BY <1>0, <1>6 DEF PathEmit
  <2>2. CASE names[m] = 0
    <3>1. fresh'[t] = <<m>>
      BY <2>1, <2>2
    <3>2. n \in Dentries(t) \/ n = m
      BY <2>1, <3>1 DEF Dentries
    <3> QED
      BY <1>6, <2>2, <3>2
  <2>3. CASE names[m] # 0
    BY <1>1, <2>1, <2>3
  <2> QED
    BY <2>2, <2>3
<1>7. CASE ~Accept(t) /\ ~Rollback(t) /\ ~ListOk(t) /\ ~Refuse(t) /\ ~\E m \in Names : PathEmit(t, m)
  <2>1. inserted' = inserted /\ fresh' = fresh
    BY <1>7 DEF PathRequest, PathStep, List, PathLookup, PathRevalidate, LookupName, PathMknod,
       RemoveEntry, PathRename, PathLink, listVars, pathVars
  <2> QED
    BY <1>1, <2>1
<1> QED
  BY <1>2, <1>3, <1>4, <1>5, <1>6, <1>7

\* A listing changes the names and nothing of the inner filesystem.
LEMMA ListingNames ==
  ASSUME PathInv, NEW t \in Threads, PathRequest(t) \/ PathStep(t), pc[t] \in PlusPCs,
         NEW n \in Names
  PROVE  /\ store' = store
         /\ \/ names'[n] = names[n] \/ names'[n] = 0
            \/ PathEmit(t, n) /\ names[n] = 0
<1>0. names \in [Names -> Inos \cup {0}]
  BY DEF PathInv, NsInv, NsTypeOK
<1> USE DEF PlusPCs
<1>1. CASE Passing(t)
  BY <1>1, PassingTable DEF Passing, List, Accept, ListOk, pathVars, storeVars, nsVars
<1>2. ASSUME NEW m \in Names, NsRemove(m) PROVE names'[n] = names[n] \/ names'[n] = 0
  BY <1>0, <1>2 DEF NsRemove, nsVars
<1>3. CASE Refuse(t)
  <2>1. fresh[t] # <<>> /\ fresh[t] \in Seq(Names) /\ NsRemove(fresh[t][1]) /\ store' = store
    BY <1>3 DEF Refuse, PathInv, RestTypeOK, storeVars
  <2>2. fresh[t][1] \in Names
    BY <2>1
  <2> QED
    BY <1>2, <2>1, <2>2
<1>4. CASE Rollback(t)
  <2>1. /\ inserted[t] # <<>> /\ inserted[t] \in Seq(Names) /\ store' = store
        /\ NsRemove(inserted[t][Len(inserted[t])])
    BY <1>4 DEF Rollback, PathInv, RestTypeOK, storeVars
  <2>2. inserted[t][Len(inserted[t])] \in Names
    BY <2>1
  <2> QED
    BY <1>2, <2>1, <2>2
<1>5. ASSUME NEW m \in Names, PathEmit(t, m)
      PROVE  /\ store' = store
             /\ names'[n] = names[n] \/ (PathEmit(t, n) /\ names[n] = 0)
  BY <1>0, <1>5 DEF PathEmit, NsInsert, nsVars, storeVars
<1>6. Passing(t) \/ Refuse(t) \/ Rollback(t) \/ \E m \in Names : PathEmit(t, m)
  BY StepKinds DEF Inserting, PathLookup, PathRevalidate, LookupName, PathMknod,
     Start, Removing, RemoveEntry, PathRename, PathLink
<1> QED
  BY <1>1, <1>3, <1>4, <1>5, <1>6

LEMMA InsertedStep ==
  ASSUME Serial, ~Parallel, PathInv, PathInv', SerialInv, NEW t \in Threads,
         PathRequest(t) \/ PathStep(t)
  PROVE  InsertedInv'
<1> SUFFICES ASSUME NEW u \in Threads, NEW n \in Dentries(u)'
             PROVE  /\ \A m \in Names \ {n} : store'[m] # store'[n]
                    /\ names'[n] # 0 => klookup'[names'[n]] = 0
  BY DEF InsertedInv
<1>0. /\ n \in Names /\ names \in [Names -> Inos \cup {0}] /\ names' \in [Names -> Inos \cup {0}]
      /\ TableInv /\ ToldInv /\ klookup \in [Inos -> Nat] /\ DirInv /\ PathShape(t)
  BY ToldPins DEF Dentries, PathInv, NsInv, NsTypeOK, RestTypeOK, SerialInv, TellInv, PathShapeInv
<1>1. CASE u # t
  <2>1. n \in Dentries(u)
    BY <1>1, ListsOfOthers DEF Dentries
  <2>2. op[u] \in DirOps
    BY <2>1, DentriesListing
  <2>3. names' = names /\ store' = store
    BY <1>1, <2>2, Undisturbed DEF Keeps, nsVars, storeVars
  <2>4. /\ \A m \in Names \ {n} : store[m] # store[n]
        /\ names[n] # 0 => klookup[names[n]] = 0
    BY <2>1 DEF SerialInv, InsertedInv
  <2>5. ASSUME names[n] # 0 PROVE klookup'[names[n]] = 0
    <3>1. names[n] \in Inos
      BY <1>0, <2>5
    <3>2. op[t] \notin DirOps
      BY <1>1, <2>2 DEF SerialInv, OneInv
    <3>3. pc[t] # "rdp_reply"
      BY <1>0, <3>2 DEF PathShape, PlusPCs, ListOps, DirOps, DirReaders
    <3>4. pc[t] = "reply" => op[t] = "revalidate"
      BY <1>0, <3>2 DEF PathShape, EntryOps, DirOps, DirReaders
    <3>5. pc[t] = "reply" => id[t] # names[n]
      BY <2>4, <2>5, <3>4 DEF SerialInv, RevalInv
    <3> QED
      BY <2>4, <2>5, <3>1, <3>3, <3>5, Learned
  <2> QED
    BY <2>3, <2>4, <2>5
<1>2. CASE u = t
  <2>1. ASSUME PathEmit(t, n), names[n] = 0
        PROVE  /\ \A m \in Names \ {n} : store'[m] # store'[n]
               /\ names'[n] # 0 => klookup'[names'[n]] = 0
    <3>1. store' = store /\ store[n] # 0 /\ klookup' = klookup
      BY <2>1 DEF PathEmit, storeVars, kernelVars
    <3>2. Insert(ROOT) /\ names' = [names EXCEPT ![n] = Allocated]
      BY <2>1 DEF PathEmit, NsInsert
    <3>3. Allocated \in Inos /\ Allocated \notin DOMAIN map
      BY <1>0, <3>2, InsertCounts
    <3>4. ~(klookup[Allocated] > 0) /\ klookup[Allocated] \in Nat
      BY <1>0, <3>3 DEF ToldInv
    <3> QED
      BY <1>0, <2>1, <3>1, <3>2, <3>4 DEF DirInv, TwinInv
  <2>2. ASSUME n \in Dentries(t), ~(PathEmit(t, n) /\ names[n] = 0)
        PROVE  /\ \A m \in Names \ {n} : store'[m] # store'[n]
               /\ names'[n] # 0 => klookup'[names'[n]] = 0
    <3>1. pc[t] \in {"rdp", "rdp_plus", "rdp_add", "rdp_end", "rdp_undo"}
      BY <2>2, DentriesListing
    <3>2. store' = store /\ (names'[n] = names[n] \/ names'[n] = 0)
      BY <1>0, <2>2, <3>1, ListingNames DEF PlusPCs
    <3>3. /\ \A m \in Names \ {n} : store[m] # store[n]
          /\ names[n] # 0 => klookup[names[n]] = 0
      BY <2>2 DEF SerialInv, InsertedInv
    <3>4. \A i \in Inos : klookup'[i] = klookup[i]
      BY <3>1, Learned
    <3> QED
      BY <1>0, <3>2, <3>3, <3>4
  <2> QED
    BY <1>2, <2>1, <2>2, DentriesGrow
<1> QED
  BY <1>1, <1>2

LEMMA FreshStep ==
  ASSUME Serial, ~Parallel, PathInv, PathInv', SerialInv, NEW t \in Threads,
         PathRequest(t) \/ PathStep(t)
  PROVE  FreshInv'
<1> SUFFICES ASSUME NEW u \in Threads, fresh'[u] # <<>>
             PROVE  /\ names'[fresh'[u][1]] = id'[u]
                    /\ \A a \in 1..Len(buffer'[u]) : buffer'[u][a].ino # id'[u]
  BY DEF FreshInv
<1>0. /\ TableInv /\ ToldInv /\ PathShape(t) /\ ListingShape(t)
      /\ names \in [Names -> Inos \cup {0}] /\ fresh \in [Threads -> Seq(Names)]
      /\ pc \in [Threads -> PCs] /\ id \in [Threads -> Inos \cup {0}]
      /\ buffer \in [Threads -> Seq(Entry)]
  BY ToldPins DEF PathInv, NsInv, NsTypeOK, RestTypeOK, ThreadsTypeOK, SerialInv, TellInv,
     PathShapeInv, ListingInv
<1>1. CASE u # t
  <2>1. fresh'[u] = fresh[u] /\ id'[u] = id[u] /\ buffer'[u] = buffer[u]
    BY <1>0, <1>1, ListsOfOthers, PathHands DEF HandsOK, OnlyThread
  <2>2. op[u] \in DirOps
    <3>1. ListingShape(u) /\ PathShape(u)
      BY DEF SerialInv, ListingInv, PathInv, PathShapeInv
    <3> QED
      BY <2>1, <3>1 DEF ListingShape, PathShape, PlusPCs, ListOps, DirOps, DirReaders
  <2>3. names' = names
    BY <1>1, <2>2, Undisturbed DEF Keeps, nsVars
  <2> QED
    BY <2>1, <2>3 DEF SerialInv, FreshInv
<1>2. ASSUME u = t, NEW n \in Names, PathEmit(t, n)
      PROVE  /\ names'[fresh'[t][1]] = id'[t]
             /\ \A a \in 1..Len(buffer'[t]) : buffer'[t][a].ino # id'[t]
  <2>1. /\ names[n] = 0 /\ fresh'[t] = <<n>> /\ NsInsert(n, store[n]) /\ buffer' = buffer
        /\ id'[t] = NsId(n)
    BY <1>0, <1>2 DEF PathEmit
  <2>2. names'[n] = NsId(n) /\ NsId(n) = Allocated /\ Insert(ROOT)
    BY <2>1, InsertNamed DEF NsId, NsInsert
  <2>3. Allocated \notin DOMAIN map
    BY <1>0, <2>2, InsertCounts
  <2>4. fresh'[t][1] = n
    BY <2>1
  <2> QED
    BY <1>0, <2>1, <2>2, <2>3, <2>4 DEF ToldInv
<1>3. ASSUME u = t, ~\E n \in Names : PathEmit(t, n)
      PROVE  /\ names'[fresh'[t][1]] = id'[t]
             /\ \A a \in 1..Len(buffer'[t]) : buffer'[t][a].ino # id'[t]
  <2>1. fresh'[t] = fresh[t]
    BY <1>0, <1>3 DEF PathRequest, PathStep, List, PathLookup, PathRevalidate, LookupName, PathMknod,
       RemoveEntry, PathRename, PathLink, Accept, Refuse, Rollback, ListOk, listVars, pathVars
  <2>2. pc[t] \in {"rdp_plus", "rdp_add", "rdp_end"} /\ fresh[t] # <<>>
    BY <1>0, <1>3, <2>1 DEF ListingShape
  <2>3. PlusEntry(t) \/ PlusFull(t)
    <3>1. ~Accept(t) /\ ~Refuse(t)
      BY <1>0, <1>3 DEF Accept, Refuse
    <3> QED
      BY <1>3, <2>2, <3>1 DEF PathRequest, PathStep, RuntimeStep, EntryGet, EntryFail, EntryDone,
         EntryRetain, PlusError, PlusUndo, PlusUndone, PlusDrop, PlusReply, PlusReplyLost, Reply,
         DropNode, List, StartOnNode, ListOk, PathLookup, PathRevalidate, LookupName, PathMknod,
         RemoveEntry, Rollback, PathRename, PathLink, Start
  <2>4. id' = id /\ buffer' = buffer /\ names' = names
    BY <2>3 DEF PlusEntry, PlusFull, requestVars, fsVars
  <2> QED
    BY <2>1, <2>2, <2>4 DEF SerialInv, FreshInv
<1> QED
  BY <1>1, <1>2, <1>3

-----------------------------------------------------------------------------
(* The invariant of requests on the directory one at a time *)

\* A step outside the requests: the kernel may know less of it.
LEMMA OutsideStep ==
  ASSUME PathInv, PathInv', SerialInv, Keeps, TellInv', RevalInv',
         UNCHANGED threadVars, UNCHANGED listVars,
         \A i \in Inos : klookup[i] \in Nat /\ klookup'[i] \in Nat /\ klookup'[i] <= klookup[i]
  PROVE  SerialInv'
<1>0. /\ UNCHANGED <<pc, op, id, want, gen, buffer>> /\ UNCHANGED <<inserted, fresh>>
      /\ UNCHANGED <<names, aliases, keys, object, store, objects>>
      /\ Operation /\ NsInv /\ NsInv' /\ PathTargetInv /\ names \in [Names -> Inos \cup {0}]
  BY DEF Keeps, threadVars, requestVars, listVars, nsVars, storeVars, PathInv, SerialInv, NsInv, NsTypeOK
<1>1. DirInv'
  BY <1>0, DirSame DEF Keeps, SerialInv
<1>2. OneInv' /\ ListingInv' /\ FreshInv'
  BY <1>0 DEF SerialInv, OneInv, ListingInv, ListingShape, FreshInv
<1>3. PathTargetInv'
  <2> SUFFICES ASSUME NEW t \in Threads, PathTargets(t)' PROVE TargetOK(t)'
    BY DEF PathTargetInv, TargetOK
  <2>1. PathTargets(t)
    BY <1>0 DEF PathTargets
  <2> QED
    BY <1>0, <2>1, TargetOn DEF PathTargetInv
<1>4. AnchorInv'
  <2> SUFFICES ASSUME NEW i \in Inos, Told(i)' PROVE Anchored(i)'
    BY DEF AnchorInv
  <2>1. Told(i)
    BY <1>0 DEF Told
  <2>2. i \in DOMAIN map /\ Anchored(i) /\ ToldInv'
    BY <2>1, ToldPins, ToldPinsNext, ToldThere DEF SerialInv, TellInv, AnchorInv
  <2>3. i \in DOMAIN map'
    BY <2>2 DEF ToldInv, Told
  <2>4. ObjectOf(i)' = ObjectOf(i)
    BY <1>0, <2>2, <2>3, ObjectKept
  <2> QED
    BY <1>0, <2>2, <2>4 DEF Anchored
<1>5. InsertedInv'
  <2> SUFFICES ASSUME NEW t \in Threads, NEW n \in Dentries(t)'
               PROVE  /\ \A m \in Names \ {n} : store'[m] # store'[n]
                      /\ names'[n] # 0 => klookup'[names'[n]] = 0
    BY DEF InsertedInv
  <2>1. n \in Dentries(t) /\ n \in Names
    BY <1>0 DEF Dentries
  <2>2. /\ \A m \in Names \ {n} : store[m] # store[n]
        /\ names[n] # 0 => klookup[names[n]] = 0
    BY <2>1 DEF SerialInv, InsertedInv
  <2>3. names[n] # 0 => names[n] \in Inos
    BY <1>0, <2>1
  <2> QED
    BY <1>0, <2>2, <2>3
<1> QED
  BY <1>1, <1>2, <1>3, <1>4, <1>5 DEF SerialInv

LEMMA SerialForget ==
  ASSUME PathInv, PathInv', SerialInv, NEW i \in Inos, NEW n \in 1..MaxLookups, PathForget(i, n),
         faults' = faults
  PROVE  SerialInv'
<1>0. TableInv /\ n \in Nat /\ n # 0 /\ klookup \in [Inos -> Nat]
  BY RuntimeBoundsNat DEF PathInv, NsInv, RestTypeOK
<1>1. /\ IF i \in DOMAIN map THEN Forget(i, n) ELSE UNCHANGED tableVars
      /\ n <= klookup[i] /\ klookup' = [klookup EXCEPT ![i] = @ - n]
      /\ UNCHANGED nsVars /\ UNCHANGED storeVars /\ UNCHANGED listVars /\ UNCHANGED threadVars
      /\ KernelForget(i, n)
  BY DEF PathForget, KernelForget, fsVars, pathVars, nsVars
<1>2. LinksOf' = LinksOf
  BY <1>0, <1>1, ForgetCounts
<1>3. Operation /\ records' = records
  BY <1>0, <1>1 DEF Operation, Counting, Forget, tableVars
<1>4. TellInv'
  <2>1. TableInv' /\ TypeOK'
    <3>1. PathTypeOK'
      BY PathTypes, PTL
    <3> QED
      BY <3>1 DEF PathTypeOK, PathInv, NsInv
  <2> QED
    BY <1>1, <2>1, ForgetTell DEF SerialInv
<1>5. \A j \in Inos : /\ klookup[j] \in Nat /\ klookup'[j] \in Nat /\ klookup'[j] <= klookup[j]
                      /\ j # i => klookup'[j] = klookup[j]
  BY <1>0, <1>1
<1>6. RevalInv'
  <2> SUFFICES ASSUME NEW t \in Threads, op'[t] = "revalidate" PROVE klookup'[id'[t]] > 0
    BY DEF RevalInv
  <2>1. op[t] = "revalidate" /\ id'[t] = id[t]
    BY <1>1 DEF threadVars, requestVars
  <2>2. id[t] \in Inos /\ klookup[id[t]] > 0
    BY <2>1 DEF SerialInv, RevalInv, PathInv, PathShapeInv, PathShape
  <2>3. CASE id[t] = i
    BY <1>0, <1>1, <2>1, <2>2, <2>3 DEF PathForget
  <2>4. CASE id[t] # i
    BY <1>5, <2>1, <2>2, <2>4
  <2> QED
    BY <2>3, <2>4
<1> QED
  BY <1>1, <1>2, <1>3, <1>4, <1>5, <1>6, OutsideStep DEF Keeps

LEMMA SerialStutter ==
  ASSUME PathInv, PathInv', SerialInv, UNCHANGED allVars
  PROVE  SerialInv'
<1>1. /\ UNCHANGED tableVars /\ UNCHANGED nsVars /\ UNCHANGED storeVars /\ UNCHANGED threadVars
      /\ UNCHANGED listVars
      /\ UNCHANGED <<faults, map, klookup, kident>>
      /\ UNCHANGED <<pc, op, id, want, gen, buffer>>
  BY DEF allVars, vars, pathVars, fsVars, nsVars, kernelVars, tableVars, threadVars, requestVars
<1>2. Keeps
  BY <1>1 DEF Keeps, Operation, tableVars, LinksOf
<1>3. TellInv'
  <2>1. PathTypeOK'
    BY PathTypes, PTL
  <2>2. TableInv' /\ TypeOK'
    BY <2>1 DEF PathTypeOK, PathInv, NsInv
  <2>3. ListInv' /\ \A t \in Threads : TellShape(t)'
    BY <1>1 DEF SerialInv, TellInv, CountedInv, ListInv, ListShape, TellShape
  <2>4. OwedInv' /\ BufferInv' /\ KernelInv' /\ LookupsInv'
    BY <1>1 DEF SerialInv, TellInv, CountedInv, OwedInv, Owes, BufferInv, KernelInv, LookupsInv,
       LookupsOf, Owed, Listed, Recovered
  <2> QED
    BY <2>2, <2>3, <2>4 DEF TellInv, CountedInv
<1>4. RevalInv' /\ klookup \in [Inos -> Nat]
  BY <1>1 DEF SerialInv, RevalInv, PathInv, RestTypeOK
<1> QED
  BY <1>1, <1>2, <1>3, <1>4, OutsideStep

LEMMA SerialInit == PathInit => SerialInv
<1> SUFFICES ASSUME PathInit PROVE SerialInv
  OBVIOUS
<1>0. Init /\ PathInv /\ objects \in Nat /\ store \in [Names -> 0..objects]
  BY PathInitInv, NamesFinite, FS_CardinalityType DEF PathInit
<1>1. TellInv /\ LinksInv
  BY <1>0, AnyOrderInit, LockedInit, TellHolds DEF AnyOrderInv
<1>2. /\ names = [n \in Names |-> 0] /\ klookup = [i \in Inos |-> 0]
      /\ op = [t \in Threads |-> "none"] /\ pc = [t \in Threads |-> "idle"]
      /\ buffer = [t \in Threads |-> <<>>]
      /\ records = 1 /\ DOMAIN map = {ROOT}
      /\ aliases = [i \in Inos |-> {}] /\ object = [r \in {1} |-> 0]
      /\ inserted = [t \in Threads |-> <<>>] /\ fresh = [t \in Threads |-> <<>>]
  BY <1>0 DEF PathInit, Init, TableInit
<1>3. AliasInv
  BY <1>2, InosFacts DEF AliasInv, NamesFor
<1>4. StoreInv /\ RootInv
  <2>1. 1..1 = {1}
    OBVIOUS
  <2> QED
    BY <1>0, <1>2, <2>1 DEF StoreInv, RootInv
<1>5. DentryInv /\ TwinInv
  BY <1>2 DEF PathInit, DentryInv, TwinInv
<1>6. OneInv /\ ListingInv /\ PathTargetInv /\ RevalInv /\ FreshInv
  BY <1>2 DEF OneInv, DirOps, DirWriters, DirReaders, ListingInv, ListingShape, PathTargetInv,
     PathTargets, EntryPCs, RevalInv, FreshInv
<1>7. AnchorInv /\ InsertedInv
  BY <1>2 DEF AnchorInv, Told, InsertedInv, Dentries
<1> QED
  BY <1>1, <1>3, <1>4, <1>5, <1>6, <1>7 DEF SerialInv, DirInv

LEMMA SerialStep ==
  ASSUME Serial, ~Parallel
  PROVE  PathInv /\ SerialInv /\ [PathNext]_allVars => SerialInv'
<1> SUFFICES ASSUME PathInv, SerialInv, [PathNext]_allVars PROVE SerialInv'
  OBVIOUS
<1>0. PathInv'
  BY PathStepInv
<1>1. ASSUME NEW t \in Threads, PathRequest(t) \/ PathStep(t), faults' = faults PROVE SerialInv'
  <2>1. DirInv' /\ TellInv'
    BY <1>0, <1>1, DirStep, TellStep
  <2>2. OneInv' /\ ListingInv' /\ RevalInv'
    BY <1>1, OneStep, ListingStep, RevalStep DEF SerialInv
  <2>3. PathTargetInv' /\ InsertedInv' /\ FreshInv'
    BY <1>0, <1>1, TargetStep, InsertedStep, FreshStep
  <2>4. AnchorInv'
    BY <1>0, <1>1, <2>1, AnchorStep
  <2> QED
    BY <2>1, <2>2, <2>3, <2>4 DEF SerialInv
<1>2. ASSUME NEW i \in Inos, NEW n \in 1..MaxLookups, PathForget(i, n), faults' = faults
      PROVE  SerialInv'
  BY <1>0, <1>2, SerialForget
<1>3. CASE UNCHANGED allVars
  BY <1>0, <1>3, SerialStutter
<1> QED
  BY <1>1, <1>2, <1>3 DEF PathNext

\* The invariant of the path adapter when the kernel serializes the requests on
\* a directory.
THEOREM SerialInvariance ==
  ASSUME Serial, ~Parallel
  PROVE  PathSpec => [](PathInv /\ SerialInv)
<1>1. PathInit => PathInv /\ SerialInv
  BY PathInitInv, SerialInit
<1>2. PathInv /\ SerialInv /\ [PathNext]_allVars => (PathInv /\ SerialInv)'
  BY PathStepInv, SerialStep
<1> QED
  BY <1>1, <1>2, PTL DEF PathSpec

LEMMA ExactNow == PathInv /\ SerialInv => NamespaceExact
<1> SUFFICES ASSUME PathInv, SerialInv PROVE NamespaceExact
  OBVIOUS
<1>1. TableInv /\ KeysInv /\ LinksInv /\ AliasInv
  BY DEF PathInv, NsInv, SerialInv, DirInv
<1>2. \A i \in Inos : aliases[i] = {n \in Names : names[n] = i}
  BY <1>1 DEF AliasInv, NamesFor
<1>3. ASSUME NEW i \in DOMAIN map
      PROVE  map[i].links = Cardinality(aliases[i]) + (IF i = ROOT THEN 1 ELSE 0)
  BY <1>1, <1>3, CountsThere DEF LinksInv, AliasInv
<1> QED
  BY <1>1, <1>2, <1>3 DEF NamespaceExact, KeysInv

\* names, aliases, keys and the link counts of the runtime agree exactly, for any
\* number of workers, names and objects, through every roll-back of a listing.
THEOREM NamespaceExactHolds ==
  ASSUME Serial, ~Parallel
  PROVE  PathSpec => []NamespaceExact
BY SerialInvariance, ExactNow, PTL

LEMMA AdapterNow == PathInv /\ SerialInv => AdapterOK
<1> SUFFICES ASSUME PathInv, SerialInv PROVE AdapterOK
  OBVIOUS
<1>1. PathTypeOK /\ NamespaceExact
  BY PathTypes, ExactNow
<1>2. KernelInodeLive
  BY ToldPins DEF SerialInv, TellInv, ToldInv, KernelInv, KernelInodeLive
<1>3. EntryIsTarget
  <2> SUFFICES ASSUME NEW t \in Threads, op[t] # "revalidate",
                      pc[t] \in {"entry", "entry_attr", "entry_ref", "add_open", "rdp_plus", "rdp_add"}
               PROVE  id[t] \in DOMAIN map /\ map[id[t]].record = want[t]
    BY DEF EntryIsTarget
  <2>1. PathTargets(t)
    BY DEF PathTargets, PathInv, PathShapeInv, PathShape, EntryPCs, PlusPCs
  <2> QED
    BY <2>1, TargetRight DEF SerialInv
<1> QED
  BY <1>1, <1>2, <1>3 DEF AdapterOK

\* With the path adapter for its filesystem the runtime promises the kernel what
\* it does with a filesystem that follows its contract to the letter.
THEOREM AdapterOKHolds ==
  ASSUME Serial, ~Parallel
  PROVE  PathSpec => []AdapterOK
BY SerialInvariance, AdapterNow, PTL

LEMMA DentryNow == PathInv /\ SerialInv => DentryRight
BY NameThere DEF PathInv, SerialInv, DirInv, DentryInv, ObjectOf, DentryRight

\* No name leads to the inode of another object than the one it names: neither
\* after a rename or an unlink, nor after the roll-back of a listing.
THEOREM DentryRightHolds ==
  ASSUME Serial, ~Parallel
  PROVE  PathSpec => []DentryRight
BY SerialInvariance, DentryNow, PTL

LEMMA PathKnownNow == PathInv /\ SerialInv => PathKnown
<1> SUFFICES ASSUME PathInv, SerialInv, NEW i \in DOMAIN map, klookup[i] > 0,
                    NEW n \in Names, store[n] = ObjectOf(i), i # ROOT
             PROVE  aliases[i] # {}
  BY DEF PathKnown, HasPath, ObjectOf
<1>1. i \in Inos /\ DirInv
  BY DEF PathInv, NsInv, TableInv, TableTypeOK, SerialInv
<1>2. store[n] # 0
  BY <1>1 DEF DirInv, RootInv
<1>3. names[n] = i
  BY <1>1, <1>2 DEF SerialInv, AnchorInv, Told, Anchored
<1> QED
  BY <1>1, <1>3 DEF DirInv, AliasInv, NamesFor

\* An inode the kernel holds has a path for as long as its object has a name.
THEOREM PathKnownHolds ==
  ASSUME Serial, ~Parallel
  PROVE  PathSpec => []PathKnown
BY SerialInvariance, PathKnownNow, PTL
=============================================================================
