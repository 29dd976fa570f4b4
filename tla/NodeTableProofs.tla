-------------------------- MODULE NodeTableProofs --------------------------
(***************************************************************************)
(* Proofs about NodeTable, for any number of holders and nodes and for     *)
(* clients of any behaviour.                                               *)
(***************************************************************************)
EXTENDS NodeTable, FiniteSetTheorems, SequenceTheorems, TLAPS

FreeInos == {free[a][1] : a \in 1..Len(free)}

\* The counters behind the bound on inode numbers.
CountInv ==
  /\ next_ino >= 1
  /\ records <= MaxRecords + 1
  /\ next_ino <= records + 1

\* A slot's lease count is the number of NodeRefs to it, NoRef aside.
LeaseInv ==
  /\ \A i \in DOMAIN map : map[i].leases = Cardinality(HoldersOf(i))
  /\ \A t \in Holders : ref[t] # NoRef => ref[t].id # 0

\* What was ever inserted under a number is older than what is there now, and
\* older than what will be inserted there next.
HistoryInv ==
  \A e \in history :
    /\ e[1] < next_ino
    /\ e[1] \in DOMAIN map =>
         /\ e[2] <= map[e[1]].generation
         /\ e[2] = map[e[1]].generation => e[3] = map[e[1]].record
    /\ \A a \in 1..Len(free) : free[a][1] = e[1] => e[2] < free[a][2]

TableInv ==
  /\ TableTypeOK
  /\ CountInv
  /\ FreeListExact
  /\ NoZombie
  /\ LeasePins
  /\ LeaseInv
  /\ HistoryInv
  /\ IdentityUnique

-----------------------------------------------------------------------------

LEMMA InitInv == TableInit => TableInv
<1> SUFFICES ASSUME TableInit PROVE TableInv
  OBVIOUS
<1> USE BoundsNat DEF TableInit, ROOT
<1>1. TableTypeOK
  BY DEF TableTypeOK, NewSlot, Slot, Inos, NoRef
<1>2. CountInv
  BY DEF CountInv
<1>3. FreeListExact
  BY DEF FreeListExact
<1>4. NoZombie
  BY DEF NoZombie, Droppable, NewSlot
<1>5. LeasePins
  BY DEF LeasePins
<1>6. LeaseInv
  <2>1. \A i : HoldersOf(i) = {}
    BY DEF HoldersOf
  <2> QED
    BY <2>1, FS_EmptySet DEF LeaseInv, NewSlot
<1>7. HistoryInv /\ IdentityUnique
  BY DEF HistoryInv, IdentityUnique, NewSlot
<1> QED
  BY <1>1, <1>2, <1>3, <1>4, <1>5, <1>6, <1>7 DEF TableInv

\* A slot changes its counters and is dropped or not: the numbers in use and
\* free, and what they ever named, stay in order.
LEMMA UpdateSlot ==
  ASSUME TableInv, NEW i \in DOMAIN map, NEW s \in Slot,
         s.record = map[i].record, s.generation = map[i].generation,
         SetAndMaybeDrop(i, s),
         ref' \in [Holders -> [id : Nat, record : Nat]],
         UNCHANGED <<next_ino, records, history>>
  PROVE  /\ TableTypeOK' /\ CountInv' /\ FreeListExact' /\ NoZombie'
         /\ HistoryInv' /\ IdentityUnique'
<1> USE BoundsNat
<1>0. i \in Nat /\ s.generation \in Nat /\ free \in Seq(Nat \X Nat)
  <2>1. i \in Nat
    BY DEF TableInv, TableTypeOK, Inos
  <2>2. s.generation \in Nat
    BY DEF Slot
  <2>3. free \in Seq(Nat \X Nat)
    BY DEF TableInv, TableTypeOK
  <2> QED
    BY <2>1, <2>2, <2>3
<1>1. CountInv' /\ IdentityUnique'
  BY DEF TableInv, CountInv, IdentityUnique
<1>2. CASE ~Droppable(s)
  <2>1. map' = [map EXCEPT ![i] = s] /\ free' = free /\ DOMAIN map' = DOMAIN map
    BY <1>2 DEF SetAndMaybeDrop
  <2>2. TableTypeOK'
    BY <2>1 DEF TableInv, TableTypeOK
  <2>3. FreeListExact'
    BY <2>1 DEF TableInv, FreeListExact
  <2>4. NoZombie'
    BY <1>2, <2>1 DEF TableInv, NoZombie, TableTypeOK, Droppable
  <2>5. HistoryInv'
    <3>1. \A j \in DOMAIN map :
            map'[j].generation = map[j].generation /\ map'[j].record = map[j].record
      BY <2>1 DEF TableInv, TableTypeOK
    <3> QED
      BY <2>1, <3>1 DEF TableInv, HistoryInv
  <2> QED
    BY <1>1, <2>2, <2>3, <2>4, <2>5
<1>3. CASE Droppable(s)
  <2>1. /\ map' = [j \in DOMAIN map \ {i} |-> map[j]]
        /\ free' = Append(free, <<i, s.generation + 1>>)
    BY <1>3 DEF SetAndMaybeDrop, Restrict
  <2>2. DOMAIN map' = DOMAIN map \ {i}
    BY <2>1
  <2>3. /\ Len(free') = Len(free) + 1
        /\ \A a \in 1..Len(free) : free'[a] = free[a]
        /\ free'[Len(free) + 1] = <<i, s.generation + 1>>
        /\ free' \in Seq(Nat \X Nat)
    BY <1>0, <2>1
  <2>4. TableTypeOK'
    BY <2>1, <2>2, <2>3 DEF TableInv, TableTypeOK
  <2>5. FreeListExact'
    <3>1. Len(free) \in Nat /\ \A a \in 1..Len(free) : free[a][1] # i
      BY <1>0 DEF TableInv, FreeListExact
    <3> DEFINE n == Len(free) + 1
    <3>a. 1..Len(free') = (1..Len(free)) \cup {n} /\ n \notin 1..Len(free)
      BY <2>3, <3>1
    <3>b. free'[n][1] = i
      BY <2>3
    <3> HIDE DEF n
    <3>2. \A a, b \in 1..Len(free') : free'[a][1] = free'[b][1] => a = b
      <4>1. \A a, b \in 1..Len(free) : free[a][1] = free[b][1] => a = b
        BY DEF TableInv, FreeListExact
      <4> QED
        BY <2>3, <3>1, <3>a, <3>b, <4>1
    <3>3. FreeInos' = FreeInos \cup {i}
      <4>1. ASSUME NEW x \in FreeInos' PROVE x \in FreeInos \cup {i}
        <5>1. PICK a \in 1..Len(free') : x = free'[a][1]
          BY <4>1 DEF FreeInos
        <5> QED
          BY <2>3, <3>a, <3>b, <5>1 DEF FreeInos
      <4>2. FreeInos \subseteq FreeInos'
        BY <2>3, <3>a DEF FreeInos
      <4>3. i \in FreeInos'
        BY <3>a, <3>b DEF FreeInos
      <4> QED
        BY <4>1, <4>2, <4>3
    <3> QED
      BY <2>2, <3>2, <3>3 DEF TableInv, FreeListExact, FreeInos
  <2>6. NoZombie'
    BY <2>1, <2>2 DEF TableInv, NoZombie, Droppable
  <2>7. HistoryInv'
    <3> SUFFICES ASSUME NEW e \in history
                 PROVE  /\ e[1] < next_ino
                        /\ e[1] \in DOMAIN map' =>
                             /\ e[2] <= map'[e[1]].generation
                             /\ e[2] = map'[e[1]].generation => e[3] = map'[e[1]].record
                        /\ \A a \in 1..Len(free') : free'[a][1] = e[1] => e[2] < free'[a][2]
      BY DEF HistoryInv
    <3>0. e[1] \in Nat /\ e[2] \in Nat
      BY DEF TableInv, TableTypeOK
    <3>1. e[1] < next_ino
      BY DEF TableInv, HistoryInv
    <3>2. e[1] \in DOMAIN map' =>
            /\ e[2] <= map'[e[1]].generation
            /\ e[2] = map'[e[1]].generation => e[3] = map'[e[1]].record
      BY <2>1, <2>2 DEF TableInv, HistoryInv
    <3>3. ASSUME NEW a \in 1..Len(free'), free'[a][1] = e[1]
          PROVE  e[2] < free'[a][2]
      <4>1. CASE a \in 1..Len(free)
        BY <2>3, <3>3, <4>1 DEF TableInv, HistoryInv
      <4>2. CASE a = Len(free) + 1
        <5>1. e[1] = i /\ free'[a][2] = s.generation + 1
          BY <2>3, <3>3, <4>2
        <5>2. e[2] <= map[i].generation
          BY <5>1 DEF TableInv, HistoryInv
        <5> QED
          BY <1>0, <3>0, <5>1, <5>2
      <4> QED
        BY <1>0, <2>3, <4>1, <4>2
    <3> QED
      BY <3>1, <3>2, <3>3
  <2> QED
    BY <1>1, <2>4, <2>5, <2>6, <2>7
<1> QED
  BY <1>2, <1>3

\* A slot whose lease count stays as it is keeps its holders: it is only
\* dropped when it has none.
LEMMA UpdateKeepsLeases ==
  ASSUME TableInv, NEW i \in DOMAIN map, NEW s \in Slot,
         s.record = map[i].record, s.leases = map[i].leases,
         SetAndMaybeDrop(i, s), UNCHANGED ref
  PROVE  LeasePins' /\ LeaseInv'
<1>1. \A j : HoldersOf(j)' = HoldersOf(j)
  BY DEF HoldersOf
<1>2. \A j : IsFiniteSet(HoldersOf(j))
  BY HoldersFinite, FS_Subset DEF HoldersOf
<1>3. CASE ~Droppable(s)
  <2>1. map' = [map EXCEPT ![i] = s]
    BY <1>3 DEF SetAndMaybeDrop
  <2> QED
    BY <1>1, <2>1 DEF TableInv, TableTypeOK, LeasePins, LeaseInv
<1>4. CASE Droppable(s)
  <2>1. map' = [j \in DOMAIN map \ {i} |-> map[j]]
    BY <1>4 DEF SetAndMaybeDrop, Restrict
  <2>2. HoldersOf(i) = {}
    BY <1>2, <1>4, FS_EmptySet DEF Droppable, TableInv, LeaseInv
  <2>3. \A t \in Holders : ref[t] # NoRef => ref[t].id # i
    BY <2>2 DEF HoldersOf
  <2> QED
    BY <1>1, <2>1, <2>3 DEF TableInv, LeasePins, LeaseInv
<1> QED
  BY <1>3, <1>4

\* The operations that only count, and reparent: each is an update of one slot.
Counting(i) ==
  \/ AddLink(i) \/ RemoveLink(i) \/ RetainLookup(i) \/ AddOpen(i) \/ RemoveOpen(i)
  \/ \E n \in Nat : Forget(i, n)
  \/ \E p \in Parents : Reparent(i, p)

LEMMA MinusNat == \A a, b \in Nat : Minus(a, b) \in Nat
BY DEF Minus

LEMMA CountingUpdates ==
  ASSUME TableInv, NEW i \in Nat, Counting(i)
  PROVE  /\ i \in DOMAIN map
         /\ UNCHANGED <<next_ino, ref, records, history>>
         /\ \E s \in Slot : /\ s.record = map[i].record
                           /\ s.generation = map[i].generation
                           /\ s.leases = map[i].leases
                           /\ SetAndMaybeDrop(i, s)
<1>1. i \in DOMAIN map /\ UNCHANGED <<next_ino, ref, records, history>>
  BY DEF Counting, AddLink, RemoveLink, RetainLookup, AddOpen, RemoveOpen, Forget, Reparent
<1> DEFINE m == map[i]
<1>2. m \in Slot /\ ~Droppable(m)
  BY <1>1 DEF TableInv, TableTypeOK, NoZombie
<1> DEFINE Fits(s) == /\ s \in Slot
                      /\ s.record = m.record
                      /\ s.generation = m.generation
                      /\ s.leases = m.leases
                      /\ SetAndMaybeDrop(i, s)
<1>3. SUFFICES \E s : Fits(s)
  BY <1>1
<1>4. CASE AddLink(i)
  <2> DEFINE s == [m EXCEPT !.links = @ + 1]
  <2>1. s \in Slot /\ ~Droppable(s)
    BY <1>2 DEF Slot, Droppable
  <2>2. map' = [map EXCEPT ![i] = s] /\ free' = free
    BY <1>4 DEF AddLink
  <2>3. Fits(s)
    BY <1>2, <2>1, <2>2 DEF SetAndMaybeDrop, Slot
  <2> QED
    BY <2>3
<1>5. CASE RetainLookup(i)
  <2> DEFINE s == [m EXCEPT !.lookups = @ + 1]
  <2>1. s \in Slot /\ ~Droppable(s)
    BY <1>2 DEF Slot, Droppable
  <2>2. map' = [map EXCEPT ![i] = s] /\ free' = free
    BY <1>5 DEF RetainLookup
  <2>3. Fits(s)
    BY <1>2, <2>1, <2>2 DEF SetAndMaybeDrop, Slot
  <2> QED
    BY <2>3
<1>6. CASE AddOpen(i)
  <2> DEFINE s == [m EXCEPT !.opens = @ + 1]
  <2>1. s \in Slot /\ ~Droppable(s)
    BY <1>2 DEF Slot, Droppable
  <2>2. map' = [map EXCEPT ![i] = s] /\ free' = free
    BY <1>6 DEF AddOpen
  <2>3. Fits(s)
    BY <1>2, <2>1, <2>2 DEF SetAndMaybeDrop, Slot
  <2> QED
    BY <2>3
<1>7. ASSUME NEW p \in Parents, Reparent(i, p)
      PROVE  \E s : Fits(s)
  <2> DEFINE s == [m EXCEPT !.parent = p]
  <2>1. s \in Slot /\ ~Droppable(s)
    BY <1>2, ParentsNat DEF Slot, Droppable
  <2>2. map' = [map EXCEPT ![i] = s] /\ free' = free
    BY <1>7 DEF Reparent
  <2>3. Fits(s)
    BY <1>2, <2>1, <2>2 DEF SetAndMaybeDrop, Slot
  <2> QED
    BY <2>3
<1>8. CASE RemoveLink(i)
  <2> DEFINE s == [m EXCEPT !.links = Minus(@, 1)]
  <2>1. s \in Slot
    BY <1>2, MinusNat DEF Slot
  <2>2. Fits(s)
    BY <1>2, <1>8, <2>1 DEF RemoveLink, Slot
  <2> QED
    BY <2>2
<1>9. CASE RemoveOpen(i)
  <2> DEFINE s == [m EXCEPT !.opens = Minus(@, 1)]
  <2>1. s \in Slot
    BY <1>2, MinusNat DEF Slot
  <2>2. Fits(s)
    BY <1>2, <1>9, <2>1 DEF RemoveOpen, Slot
  <2> QED
    BY <2>2
<1>10. ASSUME NEW n \in Nat, Forget(i, n)
       PROVE  \E s : Fits(s)
  <2> DEFINE s == [m EXCEPT !.lookups = Minus(@, n)]
  <2>1. s \in Slot
    BY <1>2, MinusNat DEF Slot
  <2>2. Fits(s)
    BY <1>2, <1>10, <2>1 DEF Forget, Slot
  <2> QED
    BY <2>2
<1> QED
  BY <1>4, <1>5, <1>6, <1>7, <1>8, <1>9, <1>10 DEF Counting

LEMMA CountingInv ==
  ASSUME TableInv, NEW i \in Nat, Counting(i)
  PROVE  TableInv'
<1>1. PICK s \in Slot : /\ s.record = map[i].record
                        /\ s.generation = map[i].generation
                        /\ s.leases = map[i].leases
                        /\ SetAndMaybeDrop(i, s)
  BY CountingUpdates
<1>2. i \in DOMAIN map /\ UNCHANGED <<next_ino, ref, records, history>>
  BY CountingUpdates
<1>3. ref' \in [Holders -> [id : Nat, record : Nat]]
  BY <1>2 DEF TableInv, TableTypeOK
<1>4. /\ TableTypeOK' /\ CountInv' /\ FreeListExact' /\ NoZombie'
      /\ HistoryInv' /\ IdentityUnique'
  BY <1>1, <1>2, <1>3, UpdateSlot
<1>5. LeasePins' /\ LeaseInv'
  BY <1>1, <1>2, UpdateKeepsLeases
<1> QED
  BY <1>4, <1>5 DEF TableInv

LEMMA GetInv ==
  ASSUME TableInv, NEW t \in Holders, NEW i \in Nat, Get(t, i)
  PROVE  TableInv'
<1> DEFINE m == map[i]
           s == [m EXCEPT !.leases = @ + 1]
<1>1. i \in DOMAIN map /\ i # 0 /\ m \in Slot
  BY BoundsNat DEF Get, TableInv, TableTypeOK, Inos
<1>2. s \in Slot /\ s.record = m.record /\ s.generation = m.generation /\ ~Droppable(s)
  BY <1>1 DEF Slot, Droppable
<1>3. map' = [map EXCEPT ![i] = s] /\ SetAndMaybeDrop(i, s)
  BY <1>2 DEF Get, SetAndMaybeDrop
<1>4. ref' = [ref EXCEPT ![t] = [id |-> i, record |-> m.record]]
  BY DEF Get
<1>5. ref' \in [Holders -> [id : Nat, record : Nat]]
  BY <1>1, <1>4 DEF TableInv, TableTypeOK, Slot
<1>6. /\ TableTypeOK' /\ CountInv' /\ FreeListExact' /\ NoZombie'
      /\ HistoryInv' /\ IdentityUnique'
  <2>1. UNCHANGED <<next_ino, records, history>>
    BY DEF Get
  <2> QED
    BY <1>1, <1>2, <1>3, <1>5, <2>1, UpdateSlot
<1>7. ref[t] = NoRef /\ ref'[t] # NoRef /\ ref'[t].id = i
  BY <1>1, <1>4 DEF Get, NoRef, TableInv, TableTypeOK
<1>8. \A j \in DOMAIN map : HoldersOf(j)' = IF j = i THEN HoldersOf(j) \cup {t} ELSE HoldersOf(j)
  BY <1>4, <1>7 DEF HoldersOf, TableInv, TableTypeOK
<1>9. LeaseInv'
  <2>1. t \notin HoldersOf(i) /\ IsFiniteSet(HoldersOf(i))
    BY <1>7, HoldersFinite, FS_Subset DEF HoldersOf
  <2>2. Cardinality(HoldersOf(i) \cup {t}) = Cardinality(HoldersOf(i)) + 1
    BY <2>1, FS_AddElement
  <2>3. \A j \in DOMAIN map' : map'[j].leases = Cardinality(HoldersOf(j)')
    BY <1>1, <1>2, <1>3, <1>8, <2>2 DEF TableInv, LeaseInv, Slot
  <2>4. \A u \in Holders : ref'[u] # NoRef => ref'[u].id # 0
    BY <1>1, <1>4 DEF TableInv, LeaseInv, TableTypeOK
  <2> QED
    BY <2>3, <2>4 DEF LeaseInv
<1>10. LeasePins'
  BY <1>1, <1>2, <1>3, <1>4 DEF TableInv, LeasePins, TableTypeOK
<1> QED
  BY <1>6, <1>9, <1>10 DEF TableInv

LEMMA DropRefInv ==
  ASSUME TableInv, NEW t \in Holders, DropRef(t)
  PROVE  TableInv'
<1>0. PICK i : i = ref[t].id
  OBVIOUS
<1> DEFINE m == map[i]
           s == [m EXCEPT !.leases = Minus(@, 1)]
<1>1. i \in DOMAIN map /\ m.record = ref[t].record /\ m \in Slot
  BY <1>0 DEF DropRef, TableInv, LeasePins, TableTypeOK
<1>2. s \in Slot /\ s.record = m.record /\ s.generation = m.generation
  BY <1>1, MinusNat DEF Slot
<1>3. SetAndMaybeDrop(i, s)
  BY <1>0, <1>1 DEF DropRef
<1>4. ref' = [ref EXCEPT ![t] = NoRef] /\ ref[t] # NoRef
  BY DEF DropRef
<1>5. ref' \in [Holders -> [id : Nat, record : Nat]]
  BY <1>4 DEF TableInv, TableTypeOK, NoRef
<1>6. /\ TableTypeOK' /\ CountInv' /\ FreeListExact' /\ NoZombie'
      /\ HistoryInv' /\ IdentityUnique'
  <2>1. UNCHANGED <<next_ino, records, history>>
    BY DEF DropRef
  <2> QED
    BY <1>1, <1>2, <1>3, <1>5, <2>1, UpdateSlot
<1>7. \A j : HoldersOf(j)' = IF j = i THEN HoldersOf(j) \ {t} ELSE HoldersOf(j)
  BY <1>0, <1>4 DEF HoldersOf, TableInv, TableTypeOK
<1>8. /\ Cardinality(HoldersOf(i)') = Cardinality(HoldersOf(i)) - 1
      /\ IsFiniteSet(HoldersOf(i)')
      /\ s.leases = Cardinality(HoldersOf(i)')
  <2>1. t \in HoldersOf(i) /\ IsFiniteSet(HoldersOf(i))
    BY <1>0, <1>4, HoldersFinite, FS_Subset DEF HoldersOf
  <2>2. /\ Cardinality(HoldersOf(i) \ {t}) = Cardinality(HoldersOf(i)) - 1
        /\ IsFiniteSet(HoldersOf(i) \ {t})
    BY <2>1, FS_RemoveElement
  <2>3. Cardinality(HoldersOf(i)) # 0
    BY <2>1, FS_EmptySet
  <2>4. m.leases = Cardinality(HoldersOf(i)) /\ m.leases \in Nat
    BY <1>1 DEF TableInv, LeaseInv, Slot
  <2>5. s.leases = m.leases - 1
    BY <1>1, <2>3, <2>4 DEF Minus, Slot
  <2> QED
    BY <1>7, <2>2, <2>4, <2>5
<1>9. CASE ~Droppable(s)
  <2>1. map' = [map EXCEPT ![i] = s]
    BY <1>3, <1>9 DEF SetAndMaybeDrop
  <2>2. LeaseInv'
    BY <1>1, <1>4, <1>7, <1>8, <2>1 DEF TableInv, LeaseInv, TableTypeOK
  <2>3. LeasePins'
    BY <1>1, <1>2, <1>4, <2>1 DEF TableInv, LeasePins, TableTypeOK
  <2> QED
    BY <1>6, <2>2, <2>3 DEF TableInv
<1>10. CASE Droppable(s)
  <2>1. map' = [j \in DOMAIN map \ {i} |-> map[j]]
    BY <1>3, <1>10 DEF SetAndMaybeDrop, Restrict
  <2>2. HoldersOf(i)' = {}
    BY <1>8, <1>10, FS_EmptySet DEF Droppable
  <2>3. \A u \in Holders : ref'[u] # NoRef => ref'[u] = ref[u] /\ ref[u].id # i
    BY <1>4, <2>2 DEF HoldersOf, TableInv, TableTypeOK
  <2>4. LeaseInv'
    BY <1>7, <2>1, <2>3 DEF TableInv, LeaseInv
  <2>5. LeasePins'
    BY <2>1, <2>3 DEF TableInv, LeasePins
  <2> QED
    BY <1>6, <2>4, <2>5 DEF TableInv
<1> QED
  BY <1>9, <1>10

\* Vec::pop on the free stack.
LEMMA PopProperties ==
  ASSUME NEW S, NEW q \in Seq(S), NEW n \in Nat, n = Len(q), n >= 1
  PROVE  /\ SubSeq(q, 1, n - 1) \in Seq(S)
         /\ Len(SubSeq(q, 1, n - 1)) = n - 1
         /\ \A a \in 1..(n - 1) : SubSeq(q, 1, n - 1)[a] = q[a]
<1> DEFINE m == n - 1
<1>1. m \in Int /\ m >= 0 /\ \A a \in 1..m : q[a] \in S
  OBVIOUS
<1>2. SubSeq(q, 1, m) = [a \in 1..m |-> q[a]]
  OBVIOUS
<1>3. SubSeq(q, 1, m) \in Seq(S)
  BY <1>1, SubSeqProperties
<1> HIDE DEF m
<1>4. DOMAIN [a \in 1..m |-> q[a]] = 1..m /\ \A a \in 1..m : [b \in 1..m |-> q[b]][a] = q[a]
  OBVIOUS
<1>5. Len(SubSeq(q, 1, m)) = m
  BY <1>1, <1>2, <1>3, <1>4
<1>6. \A a \in 1..m : SubSeq(q, 1, m)[a] = q[a]
  BY <1>2, <1>4, Zenon
<1> QED
  BY <1>3, <1>5, <1>6 DEF m

\* What alloc() returns, reused or new: a number that is not in use, with a
\* generation above every one it ever had; and it is no longer free.
LEMMA InsertAlloc ==
  ASSUME TableInv, NEW p \in Nat, Insert(p)
  PROVE  \E ino, g \in Nat :
           /\ ino \in Inos /\ ino \notin DOMAIN map /\ ino < next_ino'
           /\ map' = [j \in DOMAIN map \cup {ino} |->
                        IF j = ino THEN NewSlot(records + 1, g, p) ELSE map[j]]
           /\ history' = history \cup {<<ino, g, records + 1>>}
           /\ \A e \in history : e[1] = ino => e[2] < g
           /\ next_ino' \in Nat /\ next_ino' >= next_ino
           /\ next_ino' <= records + 2
           /\ free' \in Seq(Nat \X Nat)
           /\ Len(free') <= Len(free)
           /\ \A a \in 1..Len(free') : free'[a] = free[a] /\ free[a][1] # ino
           /\ FreeInos' = FreeInos \ {ino}
           /\ ino \in FreeInos \/ (ino = next_ino /\ next_ino' = next_ino + 1)
           /\ ino \in FreeInos => next_ino' = next_ino
<1> USE BoundsNat
<1>0. /\ free \in Seq(Nat \X Nat) /\ Len(free) \in Nat
      /\ next_ino \in Nat /\ records \in Nat /\ next_ino <= records + 1 /\ next_ino >= 1
      /\ records <= MaxRecords
  BY DEF TableInv, TableTypeOK, CountInv, Insert
<1>1. /\ \A a, b \in 1..Len(free) : free[a][1] = free[b][1] => a = b
      /\ FreeInos \cap DOMAIN map = {}
      /\ FreeInos \cup DOMAIN map = 1..(next_ino - 1)
  BY DEF TableInv, FreeListExact, FreeInos
<1>2. CASE free = <<>>
  <2>1. FreeInos = {} /\ Len(free) = 0
    BY <1>2 DEF FreeInos
  <2>2. /\ map' = [j \in DOMAIN map \cup {next_ino} |->
                     IF j = next_ino THEN NewSlot(records + 1, 0, p) ELSE map[j]]
        /\ history' = history \cup {<<next_ino, 0, records + 1>>}
        /\ next_ino' = next_ino + 1
        /\ free' = free
    BY <1>2 DEF Insert
  <2>3. next_ino \in Inos /\ next_ino \notin DOMAIN map
    BY <1>0, <1>1 DEF Inos
  <2>4. \A e \in history : e[1] # next_ino
    BY <1>0 DEF TableInv, HistoryInv, TableTypeOK
  <2>5. FreeInos' = {}
    BY <2>1, <2>2 DEF FreeInos
  <2> USE <1>0
  <2> WITNESS next_ino \in Nat, 0 \in Nat
  <2> QED
    BY <1>0, <2>1, <2>2, <2>3, <2>4, <2>5
<1>3. CASE free # <<>>
  <2> DEFINE n == Len(free)
  <2>0. n \in Nat /\ n >= 1
    BY <1>0, <1>3
  <2>1. PICK ino, g \in Nat : free[n] = <<ino, g>>
    BY <1>0, <2>0
  <2>2. /\ map' = [j \in DOMAIN map \cup {ino} |->
                     IF j = ino THEN NewSlot(records + 1, g, p) ELSE map[j]]
        /\ history' = history \cup {<<ino, g, records + 1>>}
        /\ next_ino' = next_ino
        /\ free' = SubSeq(free, 1, n - 1)
    BY <1>3, <2>1 DEF Insert
  <2>3. ino \in FreeInos
    BY <2>0, <2>1 DEF FreeInos
  <2>4. ino \in 1..(next_ino - 1) /\ ino \notin DOMAIN map
    BY <1>1, <2>3
  <2>5. ino \in Inos /\ ino < next_ino'
    BY <1>0, <2>2, <2>4 DEF Inos
  <2>6. \A e \in history : e[1] = ino => e[2] < g
    BY <2>0, <2>1 DEF TableInv, HistoryInv
  <2>7. /\ free' \in Seq(Nat \X Nat)
        /\ Len(free') = n - 1
        /\ \A a \in 1..(n - 1) : free'[a] = free[a]
    <3>1. free' = SubSeq(free, 1, n - 1)
      BY <2>2
    <3>2. /\ SubSeq(free, 1, n - 1) \in Seq(Nat \X Nat)
          /\ Len(SubSeq(free, 1, n - 1)) = n - 1
          /\ \A a \in 1..(n - 1) : SubSeq(free, 1, n - 1)[a] = free[a]
      BY <1>0, <2>0, PopProperties
    <3> QED
      BY <3>1, <3>2, Zenon
  <2>8. \A a \in 1..(n - 1) : free[a][1] # ino
    BY <1>1, <2>0, <2>1
  <2>9. FreeInos' = FreeInos \ {ino}
    <3>1. ASSUME NEW x \in FreeInos' PROVE x \in FreeInos \ {ino}
      <4>1. PICK a \in 1..Len(free') : x = free'[a][1]
        BY <3>1 DEF FreeInos
      <4> QED
        BY <2>0, <2>7, <2>8, <4>1 DEF FreeInos
    <3>2. ASSUME NEW x \in FreeInos, x # ino PROVE x \in FreeInos'
      <4>1. PICK a \in 1..n : x = free[a][1]
        BY <3>2 DEF FreeInos
      <4>2. a # n
        BY <2>1, <3>2, <4>1
      <4>3. a \in 1..Len(free') /\ x = free'[a][1]
        BY <2>0, <2>7, <4>1, <4>2
      <4> QED
        BY <4>3 DEF FreeInos
    <3> QED
      BY <3>1, <3>2
  <2> WITNESS ino \in Nat, g \in Nat
  <2> QED
    BY <1>0, <2>0, <2>2, <2>3, <2>4, <2>5, <2>6, <2>7, <2>8, <2>9
<1> QED
  BY <1>2, <1>3

LEMMA InsertInv ==
  ASSUME TableInv, NEW p \in Nat, Insert(p)
  PROVE  TableInv'
<1> USE BoundsNat
<1>1. PICK ino, g \in Nat :
        /\ ino \in Inos /\ ino \notin DOMAIN map /\ ino < next_ino'
        /\ map' = [j \in DOMAIN map \cup {ino} |->
                     IF j = ino THEN NewSlot(records + 1, g, p) ELSE map[j]]
        /\ history' = history \cup {<<ino, g, records + 1>>}
        /\ \A e \in history : e[1] = ino => e[2] < g
        /\ next_ino' \in Nat /\ next_ino' >= next_ino
        /\ next_ino' <= records + 2
        /\ free' \in Seq(Nat \X Nat)
        /\ Len(free') <= Len(free)
        /\ \A a \in 1..Len(free') : free'[a] = free[a] /\ free[a][1] # ino
        /\ FreeInos' = FreeInos \ {ino}
        /\ ino \in FreeInos \/ (ino = next_ino /\ next_ino' = next_ino + 1)
        /\ ino \in FreeInos => next_ino' = next_ino
  BY InsertAlloc
<1> DEFINE new == NewSlot(records + 1, g, p)
<1>2. /\ records \in Nat /\ records <= MaxRecords /\ records' = records + 1
      /\ ref' = ref
      /\ next_ino \in Nat /\ next_ino >= 1 /\ history \subseteq Nat \X Nat \X Nat
      /\ free \in Seq(Nat \X Nat)
  BY DEF TableInv, TableTypeOK, CountInv, Insert
<1>3. /\ new \in Slot /\ ~Droppable(new) /\ new.leases = 0
      /\ new.generation = g /\ new.record = records + 1
  BY <1>2 DEF NewSlot, Slot, Droppable
<1>4. /\ DOMAIN map' = DOMAIN map \cup {ino}
      /\ map'[ino] = new
      /\ \A j \in DOMAIN map : map'[j] = map[j]
  BY <1>1
<1> HIDE DEF new
<1>5. TableTypeOK'
  <2>1. map' \in [DOMAIN map' -> Slot] /\ DOMAIN map' \subseteq Inos
    BY <1>1, <1>3, <1>4 DEF TableInv, TableTypeOK, new
  <2>2. history' \subseteq Nat \X Nat \X Nat
    BY <1>1, <1>2
  <2> QED
    BY <1>1, <1>2, <2>1, <2>2 DEF TableInv, TableTypeOK
<1>6. CountInv'
  BY <1>1, <1>2 DEF CountInv
<1>7. FreeListExact'
  <2>0. Len(free) \in Nat /\ Len(free') \in Nat
    BY <1>1, <1>2
  <2>1. \A a, b \in 1..Len(free') : free'[a][1] = free'[b][1] => a = b
    <3>1. \A a \in 1..Len(free') : a \in 1..Len(free) /\ free'[a] = free[a]
      BY <1>1, <2>0
    <3> QED
      BY <3>1 DEF TableInv, FreeListExact
  <2>2. /\ FreeInos \cap DOMAIN map = {}
        /\ FreeInos \cup DOMAIN map = 1..(next_ino - 1)
    BY DEF TableInv, FreeListExact, FreeInos
  <2>3. FreeInos' \cap DOMAIN map' = {}
    BY <1>1, <1>4, <2>2
  <2>4. FreeInos' \cup DOMAIN map' = 1..(next_ino' - 1)
    <3>1. FreeInos' \cup DOMAIN map' = (1..(next_ino - 1)) \cup {ino}
      BY <1>1, <1>4, <2>2
    <3>2. CASE ino \in FreeInos
      BY <1>1, <2>2, <3>1, <3>2
    <3>3. CASE ino = next_ino /\ next_ino' = next_ino + 1
      BY <1>2, <3>1, <3>3
    <3> QED
      BY <1>1, <3>2, <3>3
  <2> QED
    BY <2>1, <2>3, <2>4 DEF FreeListExact, FreeInos
<1>8. NoZombie'
  BY <1>3, <1>4 DEF TableInv, NoZombie
<1>9. LeasePins'
  BY <1>1, <1>2, <1>4 DEF TableInv, LeasePins
<1>10. LeaseInv'
  <2>1. \A j : HoldersOf(j)' = HoldersOf(j)
    BY <1>2 DEF HoldersOf
  <2>2. HoldersOf(ino) = {}
    BY <1>1 DEF TableInv, LeasePins, HoldersOf
  <2> QED
    BY <1>2, <1>3, <1>4, <2>1, <2>2, FS_EmptySet DEF TableInv, LeaseInv
<1>11. HistoryInv'
  <2> SUFFICES ASSUME NEW e \in history'
               PROVE  /\ e[1] < next_ino'
                      /\ e[1] \in DOMAIN map' =>
                           /\ e[2] <= map'[e[1]].generation
                           /\ e[2] = map'[e[1]].generation => e[3] = map'[e[1]].record
                      /\ \A a \in 1..Len(free') : free'[a][1] = e[1] => e[2] < free'[a][2]
    BY DEF HistoryInv
  <2>1. CASE e \in history
    <3>0. e[1] \in Nat /\ e[2] \in Nat /\ Len(free) \in Nat /\ Len(free') \in Nat
      BY <1>1, <1>2, <2>1
    <3>1. /\ e[1] < next_ino
          /\ e[1] \in DOMAIN map =>
               /\ e[2] <= map[e[1]].generation
               /\ e[2] = map[e[1]].generation => e[3] = map[e[1]].record
          /\ \A a \in 1..Len(free) : free[a][1] = e[1] => e[2] < free[a][2]
      BY <2>1 DEF TableInv, HistoryInv
    <3>2. e[1] < next_ino'
      BY <1>1, <1>2, <3>0, <3>1
    <3>3. CASE e[1] = ino
      <4>1. e[2] < g
        BY <1>1, <2>1, <3>3
      <4> QED
        BY <1>1, <1>3, <1>4, <3>0, <3>2, <3>3, <4>1
    <3>4. CASE e[1] # ino
      <4>1. \A a \in 1..Len(free') : a \in 1..Len(free) /\ free'[a] = free[a]
        BY <1>1, <3>0
      <4> QED
        BY <1>4, <3>1, <3>2, <3>4, <4>1
    <3> QED
      BY <3>3, <3>4
  <2>2. CASE e = <<ino, g, records + 1>>
    <3>1. e[1] = ino /\ e[2] = g /\ e[3] = records + 1
      BY <2>2
    <3>2. \A a \in 1..Len(free') : free'[a][1] # ino
      BY <1>1
    <3> QED
      BY <1>1, <1>3, <1>4, <3>1, <3>2
  <2> QED
    BY <1>1, <2>1, <2>2
<1>12. IdentityUnique'
  <2>1. \A e \in history : ~(e[1] = ino /\ e[2] = g)
    BY <1>1, <1>2
  <2> QED
    BY <1>1, <2>1 DEF TableInv, IdentityUnique
<1> QED
  BY <1>5, <1>6, <1>7, <1>8, <1>9, <1>10, <1>11, <1>12 DEF TableInv

\* Any operation, by clients who need not keep to the bounds of TableNext.
Operation ==
  \/ \E p \in Nat : Insert(p)
  \/ \E t \in Holders : DropRef(t) \/ \E i \in Inos : Get(t, i)
  \/ \E i \in Inos : Counting(i)
  \/ UNCHANGED tableVars

LEMMA OperationInv ==
  ASSUME TableInv, Operation
  PROVE  TableInv'
<1>1. CASE UNCHANGED tableVars
  BY <1>1 DEF tableVars, TableInv, TableTypeOK, CountInv, FreeListExact, NoZombie,
     LeasePins, LeaseInv, HoldersOf, HistoryInv, IdentityUnique
<1>2. ASSUME NEW p \in Nat, Insert(p)
      PROVE  TableInv'
  BY <1>2, InsertInv
<1>3. ASSUME NEW t \in Holders, DropRef(t)
      PROVE  TableInv'
  BY <1>3, DropRefInv
<1>4. ASSUME NEW t \in Holders, NEW i \in Inos, Get(t, i)
      PROVE  TableInv'
  BY <1>4, GetInv, BoundsNat DEF Inos
<1>5. ASSUME NEW i \in Inos, Counting(i)
      PROVE  TableInv'
  BY <1>5, CountingInv, BoundsNat DEF Inos
<1> QED
  BY <1>1, <1>2, <1>3, <1>4, <1>5 DEF Operation

LEMMA NextIsOperation == TableNext => Operation
BY ParentsNat, BoundsNat DEF TableNext, Operation, Counting, Missing

LEMMA NextInv == TableInv /\ [TableNext]_tableVars => TableInv'
BY OperationInv, NextIsOperation DEF Operation

-----------------------------------------------------------------------------

\* The inductive invariant holds for every number of holders and nodes, and
\* whatever the filesystem calls.
THEOREM TableInvariance == TableSpec => []TableInv
BY InitInv, NextInv, PTL DEF TableSpec

\* The table keeps its type: the inode numbers in use stay within what was
\* handed out and no counter leaves the naturals.
THEOREM TableTypeCorrect == TableSpec => []TableTypeOK
<1>1. TableInv => TableTypeOK
  BY DEF TableInv
<1> QED
  BY <1>1, TableInvariance, PTL

\* A NodeRef pins its slot and its record: the promise in NodeRef's doc
\* comment.
THEOREM LeasePinsHolds == TableSpec => []LeasePins
<1>1. TableInv => LeasePins
  BY DEF TableInv
<1> QED
  BY <1>1, TableInvariance, PTL

\* maybe_drop is run wherever a slot can become droppable.
THEOREM NoZombieHolds == TableSpec => []NoZombie
<1>1. TableInv => NoZombie
  BY DEF TableInv
<1> QED
  BY <1>1, TableInvariance, PTL

\* An inode number and its generation never name two nodes.
THEOREM IdentityUniqueHolds == TableSpec => []IdentityUnique
<1>1. TableInv => IdentityUnique
  BY DEF TableInv
<1> QED
  BY <1>1, TableInvariance, PTL

\* The free stack and the slots partition the numbers handed out.
THEOREM FreeListExactHolds == TableSpec => []FreeListExact
<1>1. TableInv => FreeListExact
  BY DEF TableInv
<1> QED
  BY <1>1, TableInvariance, PTL

SameNode(i) ==
  map'[i].record = map[i].record /\ map'[i].generation = map[i].generation

\* Setting a slot's counters, or dropping it, leaves every node that is still
\* there the node it was.
LEMMA SetKeepsNodes ==
  ASSUME TableInv, NEW i \in DOMAIN map, NEW s \in Slot,
         s.record = map[i].record, s.generation = map[i].generation,
         SetAndMaybeDrop(i, s)
  PROVE  \A j \in DOMAIN map \cap DOMAIN map' : SameNode(j)
<1>1. CASE Droppable(s)
  BY <1>1 DEF SetAndMaybeDrop, Restrict, SameNode
<1>2. CASE ~Droppable(s)
  BY <1>2 DEF SetAndMaybeDrop, SameNode, TableInv, TableTypeOK
<1> QED
  BY <1>1, <1>2

LEMMA OperationKeepsNodes ==
  ASSUME TableInv, Operation
  PROVE  \A i \in DOMAIN map \cap DOMAIN map' : SameNode(i)
<1>1. ASSUME NEW p \in Nat, Insert(p)
      PROVE  \A i \in DOMAIN map \cap DOMAIN map' : SameNode(i)
  <2>1. \E ino : /\ ino \notin DOMAIN map
                 /\ \A j \in DOMAIN map : map'[j] = map[j]
    BY <1>1, InsertAlloc
  <2> QED
    BY <2>1 DEF SameNode
<1>2. ASSUME NEW t \in Holders, DropRef(t)
      PROVE  \A i \in DOMAIN map \cap DOMAIN map' : SameNode(i)
  <2> DEFINE j == ref[t].id
             s == [map[j] EXCEPT !.leases = Minus(@, 1)]
  <2>1. j \in DOMAIN map /\ map[j].record = ref[t].record /\ map[j] \in Slot
    BY <1>2 DEF DropRef, TableInv, LeasePins, TableTypeOK
  <2>2. s \in Slot /\ s.record = map[j].record /\ s.generation = map[j].generation
    BY <2>1, MinusNat DEF Slot
  <2>3. SetAndMaybeDrop(j, s)
    BY <1>2, <2>1 DEF DropRef
  <2> QED
    BY <2>1, <2>2, <2>3, SetKeepsNodes
<1>3. ASSUME NEW t \in Holders, NEW i \in Inos, Get(t, i)
      PROVE  \A j \in DOMAIN map \cap DOMAIN map' : SameNode(j)
  BY <1>3 DEF Get, SameNode, TableInv, TableTypeOK, Slot
<1>4. ASSUME NEW i \in Inos, Counting(i)
      PROVE  \A j \in DOMAIN map \cap DOMAIN map' : SameNode(j)
  <2>1. i \in Nat
    BY BoundsNat DEF Inos
  <2>2. i \in DOMAIN map
    BY <1>4, <2>1, CountingUpdates
  <2>3. PICK s \in Slot : /\ s.record = map[i].record
                          /\ s.generation = map[i].generation
                          /\ SetAndMaybeDrop(i, s)
    BY <1>4, <2>1, CountingUpdates
  <2> QED
    BY <2>2, <2>3, SetKeepsNodes
<1>5. CASE UNCHANGED tableVars
  BY <1>5 DEF tableVars, SameNode
<1> QED
  BY <1>1, <1>2, <1>3, <1>4, <1>5 DEF Operation

\* A number is never handed to another node while it is in use: not by alloc()
\* from the free stack, and not by a stale NodeRef's drop.
THEOREM NoTakeoverHolds == TableSpec => NoTakeover
<1>1. TableInv /\ [TableNext]_tableVars =>
        [\A i \in DOMAIN map \cap DOMAIN map' :
           /\ map'[i].record = map[i].record
           /\ map'[i].generation = map[i].generation]_tableVars
  BY OperationKeepsNodes, NextIsOperation DEF SameNode
<1> QED
  BY <1>1, TableInvariance, PTL DEF TableSpec, NoTakeover
=============================================================================
