----------------------------- MODULE TreeProofs -----------------------------
(***************************************************************************)
(* The two trees of names, for any names, objects, workers and bounds:     *)
(* the one the path adapter keeps beside its filesystem's, and the one of  *)
(* the in-memory filesystem with the slots of the runtime.                 *)
(*                                                                         *)
(* That directories form a tree is stated without recursion: no set of     *)
(* directories has the parents of all its members.  Inductions over routes *)
(* are on the least place where two of them differ.                        *)
(***************************************************************************)
EXTENDS MemoryFs, PathTree, FiniteSetTheorems, TLAPS

-----------------------------------------------------------------------------
(* The path adapter *)

ArgKinds == {"path", "optional", "root"}
Calls == [op : {"call"}, arg : ArgKinds, node : Objects, path : SUBSET Seq(Components)]

WorkerInv ==
  /\ job \in [Workers -> {NoJob} \cup Calls \cup Changes]
  /\ \A w \in Workers :
       /\ job[w] = NoJob <=> pc[w] = "idle"
       /\ pc[w] = "changed" => job[w] \in Changes

\* One writer or many readers.
LockInv == writer # Nobody => readers = {}

\* A name names one object, and a directory has one name.
OneName ==
  /\ \A o, u \in Objects : \A d \in host[o] : d \in host[u] => o = u
  /\ \A o \in Dirs : \A d, e \in host[o] : d = e

\* What has a name is in a directory that has one, and the kernel has heard of it.
InDirectory ==
  \A o \in Objects : \A d \in host[o] :
    o \in known /\ (d[1] = Root \/ (d[1] \in Dirs /\ host[d[1]] # {}))

\* No directories are one below the other in a ring.
NoRing == \A S \in SUBSET Dirs : S # {} => \E o \in S : \A d \in host[o] : d[1] \notin S

\* Between the two halves of a change the Namespace still has to make it.
HalfDone ==
  IF writer # Nobody /\ pc[writer] = "changed" THEN host = NsChange(job[writer]) ELSE alias = host

\* What a callback that runs found is what it would find.
Located ==
  \A w \in Workers : job[w].op = "call" =>
    /\ pc[w] = "inside" /\ job[w].arg # "root" => job[w].path = path_for(alias, job[w].node)
    /\ pc[w] = "refused" => path_for(alias, job[w].node) = {}

PathTreeInv ==
  /\ PathTreeTypeOK /\ WorkerInv /\ LockInv
  /\ OneName /\ InDirectory /\ NoRing
  /\ HalfDone /\ Located

-----------------------------------------------------------------------------
(* Routes *)

LEMMA LeastPlace ==
  ASSUME NEW T \in SUBSET Nat, T # {}
  PROVE  \E x \in T : \A y \in T : x <= y
<1> DEFINE R == OpToRel(<, Nat)
<1>1. IsWellFoundedOn(R, Nat)
  BY NatLessThanWellFounded
<1>2. R = {ss \in Nat \X Nat : ss[1] < ss[2]}
  BY DEF OpToRel
<1> HIDE DEF R
<1>3. PICK x \in T : \A y \in T : ~(<<y, x>> \in R)
  BY <1>1, WFMin
<1>4. \A y \in T : ~(y < x)
  BY <1>2, <1>3
<1> QED BY <1>4

\* A path leads to one place.
LEMMA OneRoute ==
  ASSUME OneName, NEW k \in Nat, NEW path \in [1..k -> Components], Len(path) = k,
         NEW o, NEW c \in Routes(k), NEW e \in Routes(k),
         Follows(o, path, c), Follows(o, path, e)
  PROVE  c[k] = e[k]
<1> SUFFICES ASSUME c[k] # e[k] PROVE FALSE
  OBVIOUS
<1> DEFINE T == {i \in 0..k : c[i] # e[i]}
<1>1. T \in SUBSET Nat /\ T # {}
  OBVIOUS
<1>2. PICK x \in T : \A y \in T : x <= y
  BY <1>1, LeastPlace
<1>3. x # 0
  BY DEF Follows
<1>4. x \in 1..k /\ x - 1 \in 0..k /\ x - 1 \notin T
  BY <1>2, <1>3
<1>5. c[x - 1] = e[x - 1]
  BY <1>4
<1>6. c[x] \in Objects /\ e[x] \in Objects
  BY <1>4 DEF Routes, Follows
<1>7. <<c[x - 1], path[x]>> \in host[c[x]] /\ <<c[x - 1], path[x]>> \in host[e[x]]
  BY <1>4, <1>5 DEF Follows
<1>8. c[x] = e[x]
  BY <1>6, <1>7 DEF OneName
<1> QED BY <1>8, <1>2

\* The path that path_for makes leads back to where it was made for.
LEMMA PathLeadsBack ==
  ASSUME PathTreeTypeOK, OneName, NEW o, NEW p \in path_for(host, o)
  PROVE  p \in Seq(Components) /\ Walk(Root, p) = {o}
<1>1. PICK k \in 0..Cardinality(Objects) : \E c \in Routes(k) :
        Ascends(host, o, k, c) /\ p = [i \in 1..k |-> FirstAlias(host, c[i])[2]]
  BY DEF path_for
<1>2. PICK c \in Routes(k) :
        Ascends(host, o, k, c) /\ p = [i \in 1..k |-> FirstAlias(host, c[i])[2]]
  BY <1>1
<1>k. k \in Nat
  BY <1>1, FS_CardinalityType, PathTreeAssumption
<1>3. ASSUME NEW i \in 1..k
      PROVE  /\ c[i] \in Objects /\ c[i] # Root
             /\ FirstAlias(host, c[i]) \in host[c[i]]
             /\ FirstAlias(host, c[i]) \in Dentries
             /\ FirstAlias(host, c[i])[1] = c[i - 1]
  <2>1. c[i] \in Objects /\ c[i] # Root /\ host[c[i]] # {} /\ FirstAlias(host, c[i])[1] = c[i - 1]
    BY <1>2, <1>3, <1>k DEF Ascends, Routes
  <2>2. FirstAlias(host, c[i]) \in host[c[i]]
    BY <2>1 DEF FirstAlias
  <2>3. host[c[i]] \subseteq Dentries
    BY <2>1 DEF PathTreeTypeOK
  <2> QED BY <2>1, <2>2, <2>3
<1>4. ASSUME NEW i \in 1..k PROVE p[i] \in Components /\ <<c[i - 1], p[i]>> \in host[c[i]]
  <2>1. p[i] = FirstAlias(host, c[i])[2]
    BY <1>2, <1>4
  <2>2. PICK a \in Dirs \cup {Root}, b \in Components : FirstAlias(host, c[i]) = <<a, b>>
    BY <1>3, <1>4 DEF Dentries
  <2>3. a = c[i - 1] /\ b = p[i]
    BY <2>1, <2>2, <1>3, <1>4
  <2> QED BY <2>2, <2>3, <1>3, <1>4
<1>5. p \in [1..k -> Components]
  BY <1>2, <1>4
<1>6. p \in Seq(Components) /\ Len(p) = k
  BY <1>5, <1>k
<1>7. Follows(Root, p, c)
  BY <1>2, <1>3, <1>4, <1>6 DEF Follows, Ascends
<1>8. c[k] = o
  BY <1>2 DEF Ascends
<1>9. o \in Walk(Root, p)
  BY <1>6, <1>7, <1>8 DEF Walk
<1>10. ASSUME NEW u \in Walk(Root, p) PROVE u = o
  <2>1. PICK e \in Routes(k) : Follows(Root, p, e) /\ u = e[k]
    BY <1>6, <1>10 DEF Walk
  <2> QED BY <2>1, <1>7, <1>5, <1>6, <1>8, <1>k, OneRoute
<1> QED BY <1>6, <1>9, <1>10

\* What path_for finds a path of has a name.
LEMMA PathNamed ==
  ASSUME NEW o, path_for(host, o) # {}
  PROVE  o = Root \/ host[o] # {}
<1>1. PICK k \in 0..Cardinality(Objects) : \E c \in Routes(k) : Ascends(host, o, k, c)
  BY DEF path_for
<1>2. PICK c \in Routes(k) : Ascends(host, o, k, c)
  BY <1>1
<1>k. k \in Nat
  BY <1>1, FS_CardinalityType, PathTreeAssumption
<1>3. CASE k = 0
  BY <1>2, <1>3 DEF Ascends
<1>4. CASE k # 0
  <2>1. k \in 1..k
    BY <1>4, <1>k
  <2> QED BY <1>2, <2>1 DEF Ascends
<1> QED BY <1>3, <1>4

\* There is a route to o, and it passes nothing twice.
Simple(o) ==
  \E k \in Nat : \E c \in Routes(k) :
    Ascends(host, o, k, c) /\ \A i, j \in 0..k : c[i] = c[j] => i = j

LEMMA SimpleRoot == Simple(Root)
<1> DEFINE c == [i \in 0..0 |-> Root]
<1>1. c \in Routes(0) /\ Ascends(host, Root, 0, c) /\ \A i, j \in 0..0 : c[i] = c[j] => i = j
  BY DEF Routes, Ascends
<1> QED BY <1>1 DEF Simple

\* A route to the parent goes on to the object, or has been there before.
LEMMA SimpleBelow ==
  ASSUME NEW o \in Objects, host[o] # {}, Simple(FirstAlias(host, o)[1])
  PROVE  Simple(o)
<1> DEFINE up == FirstAlias(host, o)[1]
<1>1. PICK k \in Nat : \E c \in Routes(k) :
        Ascends(host, up, k, c) /\ \A i, j \in 0..k : c[i] = c[j] => i = j
  BY DEF Simple
<1>2. PICK c \in Routes(k) :
        Ascends(host, up, k, c) /\ \A i, j \in 0..k : c[i] = c[j] => i = j
  BY <1>1
<1>3. o # Root
  BY PathTreeAssumption
<1>4. CASE \E m \in 0..k : c[m] = o
  <2>1. PICK m \in 0..k : c[m] = o
    BY <1>4
  <2> DEFINE e == [i \in 0..m |-> c[i]]
  <2>2. e \in Routes(m)
    BY DEF Routes
  <2>3. Ascends(host, o, m, e)
    BY <1>2, <2>1 DEF Ascends
  <2>4. \A i, j \in 0..m : e[i] = e[j] => i = j
    BY <1>2
  <2> QED BY <2>2, <2>3, <2>4 DEF Simple
<1>5. CASE \A m \in 0..k : c[m] # o
  <2> DEFINE e == [i \in 0..(k + 1) |-> IF i = k + 1 THEN o ELSE c[i]]
  <2>1. e \in Routes(k + 1)
    BY DEF Routes
  <2>2. e[k + 1] = o /\ e[0] = Root
    BY <1>2 DEF Ascends
  <2>3. ASSUME NEW i \in 1..(k + 1)
        PROVE  e[i] # Root /\ host[e[i]] # {} /\ FirstAlias(host, e[i])[1] = e[i - 1]
    <3>1. CASE i = k + 1
      <4>1. e[i] = o /\ e[i - 1] = c[k] /\ c[k] = up
        BY <3>1, <1>2 DEF Ascends
      <4> QED BY <4>1, <1>3
    <3>2. CASE i # k + 1
      <4>1. i \in 1..k /\ e[i] = c[i] /\ e[i - 1] = c[i - 1]
        BY <3>2
      <4> QED BY <4>1, <1>2 DEF Ascends
    <3> QED BY <3>1, <3>2
  <2>4. Ascends(host, o, k + 1, e)
    BY <2>2, <2>3 DEF Ascends
  <2>5. \A i, j \in 0..(k + 1) : e[i] = e[j] => i = j
    BY <1>2, <1>5
  <2> QED BY <2>1, <2>4, <2>5 DEF Simple
<1> QED BY <1>4, <1>5

\* Such a route is no longer than there are objects.
LEMMA SimpleFound == ASSUME NEW o, Simple(o) PROVE path_for(host, o) # {}
<1>1. PICK k \in Nat : \E c \in Routes(k) :
        Ascends(host, o, k, c) /\ \A i, j \in 0..k : c[i] = c[j] => i = j
  BY DEF Simple
<1>2. PICK c \in Routes(k) :
        Ascends(host, o, k, c) /\ \A i, j \in 0..k : c[i] = c[j] => i = j
  BY <1>1
<1> DEFINE f == [i \in 1..k |-> c[i]]
<1>3. \A i \in 1..k : c[i] \in Objects
  BY <1>2 DEF Ascends, Routes
<1>4. f \in Injection(1..k, Objects)
  BY <1>2, <1>3 DEF Injection, IsInjective
<1>5. Cardinality(1..k) <= Cardinality(Objects)
  BY <1>4, FS_Injection, PathTreeAssumption
<1>6. Cardinality(1..k) = k
  BY FS_Interval
<1>7. k \in 0..Cardinality(Objects)
  BY <1>5, <1>6, FS_CardinalityType, PathTreeAssumption
<1> HIDE DEF f
<1> DEFINE From(j) == {[i \in 1..j |-> FirstAlias(host, e[i])[2]] :
                        e \in {e \in Routes(j) : Ascends(host, o, j, e)}}
<1>8. From(k) # {}
  BY <1>2
<1>9. path_for(host, o) = UNION {From(j) : j \in 0..Cardinality(Objects)}
  BY DEF path_for
<1> HIDE DEF From
<1> QED BY <1>7, <1>8, <1>9

\* What has a name has a path: the recursion of path_for comes to its end.
LEMMA PathThere ==
  ASSUME PathTreeTypeOK, InDirectory, NoRing, NEW o \in Objects \cup {Root},
         o = Root \/ host[o] # {}
  PROVE  path_for(host, o) # {}
<1>1. ASSUME NEW u \in Objects, host[u] # {},
             \A d \in Dirs : host[d] # {} /\ (\E e \in host[u] : e[1] = d) => Simple(d)
      PROVE  Simple(u)
  <2>1. FirstAlias(host, u) \in host[u]
    BY <1>1 DEF FirstAlias
  <2>2. FirstAlias(host, u)[1] = Root \/ (FirstAlias(host, u)[1] \in Dirs /\ host[FirstAlias(host, u)[1]] # {})
    BY <2>1 DEF InDirectory
  <2>3. Simple(FirstAlias(host, u)[1])
    BY <2>1, <2>2, <1>1, SimpleRoot
  <2> QED BY <2>3, <1>1, SimpleBelow
<1> DEFINE S == {d \in Dirs : host[d] # {} /\ ~Simple(d)}
<1>2. S = {}
  <2>1. SUFFICES ASSUME S # {} PROVE FALSE
    OBVIOUS
  <2>2. PICK d \in S : \A e \in host[d] : e[1] \notin S
    BY <2>1 DEF NoRing
  <2>3. d \in Objects
    BY DEF Objects
  <2>4. Simple(d)
    BY <1>1, <2>2, <2>3
  <2> QED BY <2>4
<1>3. o # Root => Simple(o)
  BY <1>1, <1>2
<1> QED BY <1>3, SimpleRoot, SimpleFound

-----------------------------------------------------------------------------
(* What a change makes of the inner filesystem's tree *)

HostTyped == host \in [Objects -> SUBSET Dentries]
HostTree == OneName /\ InDirectory /\ NoRing

\* A directory of the tree.
Reached(d) == d \in Dirs \cup {Root} /\ (d = Root \/ host[d] # {})

LEMMA CreateTree ==
  ASSUME HostTyped, HostTree, NEW o \in Objects, o \notin known, NEW to \in Dentries,
         Reached(to[1]), \A u \in Objects : to \notin host[u],
         host' = [host EXCEPT ![o] = {to}], known' = known \cup {o}
  PROVE  HostTyped' /\ HostTree'
<1>1. HostTyped'
  BY DEF HostTyped
<1>2. host[o] = {} /\ host'[o] = {to} /\ \A u \in Objects \ {o} : host'[u] = host[u]
  BY DEF HostTyped, HostTree, InDirectory
<1>3. OneName'
  BY <1>2 DEF HostTree, OneName, Objects
<1>4. \A u \in Objects : \A d \in host[u] : d[1] # o
  BY <1>2 , PathTreeAssumption DEF HostTree, InDirectory
<1>5. to[1] # o
  BY <1>2, PathTreeAssumption DEF Reached
<1>6. InDirectory'
  <2>1. ASSUME NEW u \in Objects, NEW d \in host'[u]
        PROVE  u \in known' /\ (d[1] = Root \/ (d[1] \in Dirs /\ host'[d[1]] # {}))
    <3>1. CASE u = o
      BY <1>2, <1>5, <2>1, <3>1 DEF Reached, Objects
    <3>2. CASE u # o
      <4>1. d \in host[u]
        BY <1>2, <2>1, <3>2
      <4>2. u \in known /\ (d[1] = Root \/ (d[1] \in Dirs /\ host[d[1]] # {}))
        BY <4>1 DEF HostTree, InDirectory
      <4> QED BY <4>1, <4>2, <1>2, <1>4 DEF Objects
    <3> QED BY <3>1, <3>2
  <2> QED BY <2>1 DEF InDirectory
<1>7. NoRing'
  <2> SUFFICES ASSUME NEW S \in SUBSET Dirs, S # {}, \A u \in S : \E d \in host'[u] : d[1] \in S
               PROVE  FALSE
    BY DEF NoRing
  <2> DEFINE T == S \ {o}
  <2>1. \A u \in T : \E d \in host[u] : d[1] \in T
    BY <1>2, <1>4 DEF Objects
  <2>2. T # {}
    <3>1. CASE o \in S
      BY <3>1, <1>2, <1>5
    <3> QED BY <3>1
  <2> QED BY <2>1, <2>2 DEF HostTree, NoRing
<1> QED BY <1>1, <1>3, <1>6, <1>7 DEF HostTree

LEMMA LinkTree ==
  ASSUME HostTyped, HostTree, NEW o \in Files, host[o] # {}, NEW to \in Dentries,
         Reached(to[1]), \A u \in Objects : to \notin host[u],
         host' = [host EXCEPT ![o] = @ \cup {to}], known' = known \cup {o}
  PROVE  HostTyped' /\ HostTree'
<1>0. o \in Objects /\ o \notin Dirs
  BY PathTreeAssumption DEF Objects
<1>1. HostTyped'
  BY DEF HostTyped
<1>2. host'[o] = host[o] \cup {to} /\ \A u \in Objects \ {o} : host'[u] = host[u]
  BY <1>0 DEF HostTyped
<1>3. OneName'
  BY <1>0, <1>2 DEF HostTree, OneName, Objects
<1>4. InDirectory'
  <2>1. ASSUME NEW u \in Objects, NEW d \in host'[u]
        PROVE  u \in known' /\ (d[1] = Root \/ (d[1] \in Dirs /\ host'[d[1]] # {}))
    <3>1. d = to \/ d \in host[u]
      BY <1>2, <2>1
    <3>2. CASE u = o /\ d = to
      BY <1>0, <1>2, <3>2 DEF Reached, Objects
    <3>3. CASE d \in host[u]
      <4>1. u \in known /\ (d[1] = Root \/ (d[1] \in Dirs /\ host[d[1]] # {}))
        BY <3>3 DEF HostTree, InDirectory
      <4> QED BY <4>1, <1>0, <1>2 DEF Objects
    <3> QED BY <3>1, <3>2, <3>3, <1>2, <2>1
  <2> QED BY <2>1 DEF InDirectory
<1>5. NoRing'
  BY <1>0, <1>2 DEF HostTree, NoRing, Objects
<1> QED BY <1>1, <1>3, <1>4, <1>5 DEF HostTree

LEMMA RemoveTree ==
  ASSUME HostTyped, HostTree, NEW o \in Objects, o \in known, NEW from \in Dentries, Empty(o),
         host' = [host EXCEPT ![o] = @ \ {from}], known' = known \cup {o}
  PROVE  HostTyped' /\ HostTree'
<1>1. HostTyped'
  BY DEF HostTyped
<1>2. \A u \in Objects : host'[u] = (IF u = o THEN host[u] \ {from} ELSE host[u])
  BY DEF HostTyped
<1>3. OneName'
  BY <1>2 DEF HostTree, OneName, Objects
<1>4. InDirectory'
  <2>1. ASSUME NEW u \in Objects, NEW d \in host'[u]
        PROVE  u \in known' /\ (d[1] = Root \/ (d[1] \in Dirs /\ host'[d[1]] # {}))
    <3>1. d \in host[u] /\ d[1] # o
      BY <1>2, <2>1 DEF Empty
    <3>2. u \in known /\ (d[1] = Root \/ (d[1] \in Dirs /\ host[d[1]] # {}))
      BY <3>1 DEF HostTree, InDirectory
    <3> QED BY <3>1, <3>2, <1>2 DEF Objects
  <2> QED BY <2>1 DEF InDirectory
<1>5. NoRing'
  <2> SUFFICES ASSUME NEW S \in SUBSET Dirs, S # {}, \A u \in S : \E d \in host'[u] : d[1] \in S
               PROVE  FALSE
    BY DEF NoRing
  <2>1. \A u \in S : \E d \in host[u] : d[1] \in S
    BY <1>2 DEF Objects
  <2> QED BY <2>1 DEF HostTree, NoRing
<1> QED BY <1>1, <1>3, <1>4, <1>5 DEF HostTree

\* The interesting case: a ring that a rename closes has a part, above the target
\* of the rename, that was one before, unless the target is below what is moved.
LEMMA RenameTree ==
  ASSUME HostTyped, HostTree, NEW o \in Objects, NEW from \in Dentries, NEW to \in Dentries,
         Named(host, from) = {o}, ~Below(to[1], o), Reached(to[1]),
         \A old \in Named(host, to) : Empty(old) /\ (old \in Dirs <=> o \in Dirs),
         host' = Renamed(host, from, to), known' = known \cup {o}
  PROVE  HostTyped' /\ HostTree'
<1>1. CASE Named(host, to) = {o}
  <2>1. host' = host
    BY <1>1 DEF Renamed
  <2>2. o \in known
    BY DEF Named, HostTree, InDirectory
  <2> QED BY <2>1, <2>2 DEF HostTyped, HostTree, OneName, InDirectory, NoRing
<1>2. CASE Named(host, to) # {o}
  <2>1. host' = [u \in Objects |-> IF u = o THEN (host[u] \ {from, to}) \cup {to}
                                  ELSE host[u] \ {from, to}]
    BY <1>2 DEF Renamed
  <2>2. HostTyped'
    BY <2>1 DEF HostTyped
  <2>3. from \in host[o] /\ from # to /\ \A u \in Objects : from \in host[u] => u = o
    BY <1>2 DEF Named
  <2>4. \A u \in Objects : to \in host[u] => Empty(u) /\ (u \in Dirs <=> o \in Dirs)
    BY DEF Named
  <2>5. \A u \in Objects : host'[u] = IF u = o THEN (host[u] \ {from, to}) \cup {to}
                                      ELSE host[u] \ {from, to}
    BY <2>1
  <2> HIDE DEF Named
  <2>6. OneName'
    <3>1. ASSUME NEW u \in Objects, NEW v \in Objects, NEW d \in host'[u], d \in host'[v]
          PROVE  u = v
      <4>1. CASE d = to
        BY <2>5, <3>1, <4>1
      <4>2. CASE d # to
        <5>1. d \in host[u] /\ d \in host[v]
          BY <2>5, <3>1, <4>2
        <5> QED BY <5>1 DEF HostTree, OneName
      <4> QED BY <4>1, <4>2
    <3>2. ASSUME NEW u \in Dirs, NEW d \in host'[u], NEW e \in host'[u]
          PROVE  d = e
      <4>0. u \in Objects
        BY DEF Objects
      <4>1. \A a, b \in host[u] : a = b
        BY DEF HostTree, OneName
      <4>2. CASE u = o
        <5>1. host[o] = {from}
          BY <4>1, <4>2, <2>3
        <5>2. host'[o] = {to}
          BY <5>1, <2>5, <2>3
        <5> QED BY <5>2, <4>2, <3>2
      <4>3. CASE u # o
        BY <4>0, <4>1, <4>3, <2>5, <3>2
      <4> QED BY <4>2, <4>3
    <3> QED BY <3>1, <3>2 DEF OneName
  <2>7. to[1] # o
    BY DEF Below
  <2>8. \A u \in Objects : to \in host[u] => to[1] # u
    BY <2>4 DEF Empty
  <2>9. ASSUME NEW d, Reached(d), \A u \in Objects : to \in host[u] => d # u
        PROVE  d = Root \/ (d \in Dirs /\ host'[d] # {})
    <3>1. CASE d = o
      BY <3>1, <2>5, <2>9 DEF Reached, Objects
    <3>2. CASE d # Root /\ d # o
      <4>1. d \in Objects /\ d \in Dirs /\ host[d] # {}
        BY <2>9, <3>2 DEF Reached, Objects
      <4>2. from \notin host[d] /\ to \notin host[d]
        BY <4>1, <2>9, <3>2, <2>3
      <4> QED BY <4>1, <4>2, <3>2, <2>5
    <3> QED BY <3>1, <3>2
  <2>10. InDirectory'
    <3>1. ASSUME NEW u \in Objects, NEW d \in host'[u]
          PROVE  u \in known' /\ (d[1] = Root \/ (d[1] \in Dirs /\ host'[d[1]] # {}))
      <4>1. CASE d = to
        <5>1. u = o
          BY <3>1, <4>1, <2>5
        <5> QED BY <5>1, <4>1, <2>8, <2>9
      <4>2. CASE d # to
        <5>1. d \in host[u]
          BY <2>5, <3>1, <4>2
        <5>2. u \in known /\ Reached(d[1])
          BY <5>1 DEF HostTree, InDirectory, Reached
        <5>3. \A v \in Objects : to \in host[v] => d[1] # v
          BY <5>1, <2>4 DEF Empty
        <5> QED BY <5>2, <5>3, <2>9
      <4> QED BY <4>1, <4>2
    <3> QED BY <3>1 DEF InDirectory
  <2>11. NoRing'
    <3> SUFFICES ASSUME NEW S \in SUBSET Dirs, S # {}, \A u \in S : \E d \in host'[u] : d[1] \in S
                 PROVE  FALSE
      BY DEF NoRing
    <3>1. S \subseteq Objects
      BY DEF Objects
    <3>2. \A u \in S \ {o} : \E d \in host[u] : d[1] \in S
      BY <2>5, <3>1
    <3>3. o \in S
      <4>1. CASE o \notin S
        BY <4>1, <3>2 DEF HostTree, NoRing
      <4> QED BY <4>1
    <3>4. to[1] \in S
      <4>1. PICK d \in host'[o] : d[1] \in S
        BY <3>3
      <4>2. \A e \in host[o] : e = from
        BY <2>3, <3>3 DEF HostTree, OneName
      <4>3. d = to
        BY <4>1, <4>2, <2>5
      <4> QED BY <4>1, <4>3
    <3>5. PICK T \in SUBSET (Objects \cup {Root}) :
            to[1] \in T /\ (\A u \in T \ {Root} : \A e \in host[u] : e[1] \in T) /\ o \notin T
      BY DEF Below
    <3> DEFINE R == S \cap T
    <3>6. \A u \in R : \E d \in host[u] : d[1] \in R
      BY <3>1, <3>2, <3>5, PathTreeAssumption
    <3>7. to[1] \in R
      BY <3>4, <3>5
    <3>8. R \in SUBSET Dirs /\ R # {}
      BY <3>7
    <3> HIDE DEF R
    <3> QED BY <3>6, <3>8 DEF HostTree, NoRing
  <2> QED BY <2>2, <2>6, <2>10, <2>11 DEF HostTree
<1> QED BY <1>1, <1>2

-----------------------------------------------------------------------------
(* The steps of the path adapter *)

LEMMA CallArgs == NodeCalls \subseteq ArgKinds
<1> USE DEF ArgKinds, Range
<1>1. Range(AttrCalls) \subseteq ArgKinds
  BY DEF AttrCalls
<1>2. Range(FileCalls) \subseteq ArgKinds
  BY DEF FileCalls
<1>3. Range(DirCalls) \subseteq ArgKinds
  BY DEF DirCalls
<1>4. Range(XattrCalls) \subseteq ArgKinds
  BY DEF XattrCalls
<1>5. Range(DataCalls) \subseteq ArgKinds
  BY DEF DataCalls
<1> QED BY <1>1, <1>2, <1>3, <1>4, <1>5 DEF NodeCalls

LEMMA PathTreeBase == PathTreeInit => PathTreeInv
<1> SUFFICES ASSUME PathTreeInit PROVE PathTreeInv
  OBVIOUS
<1> USE DEF PathTreeInit
<1>1. PathTreeTypeOK
  BY PathTreeAssumption DEF PathTreeTypeOK, NoJob
<1>2. WorkerInv
  BY DEF WorkerInv, NoJob
<1>3. LockInv
  BY DEF LockInv
<1>4. OneName /\ InDirectory
  BY DEF OneName, InDirectory, Objects
<1>5. NoRing
  BY DEF NoRing, Objects
<1>6. HalfDone
  BY DEF HalfDone
<1>7. Located
  BY DEF Located, NoJob
<1> QED BY <1>1, <1>2, <1>3, <1>4, <1>5, <1>6, <1>7 DEF PathTreeInv

\* The kinds of jobs, by their op.
LEMMA JobKinds ==
  ASSUME NEW j \in {NoJob} \cup Calls \cup Changes
  PROVE  /\ j = NoJob <=> j.op = "none"
         /\ j \in Calls <=> j.op = "call"
         /\ j \in Changes <=> j.op \notin {"none", "call"}
BY DEF NoJob, Calls, Changes

LEMMA StartStep ==
  ASSUME PathTreeInv, NEW w \in Workers, NEW arg \in ArgKinds, NEW o \in Objects, Start(w, arg, o)
  PROVE  PathTreeInv'
<1> DEFINE j == [op |-> "call", arg |-> arg, node |-> o, path |-> {}]
<1>1. j \in Calls /\ j.op = "call" /\ j # NoJob
  BY DEF Calls, NoJob
<1>2. job' = [job EXCEPT ![w] = j] /\ pc' = [pc EXCEPT ![w] = "locked"]
  BY DEF Start
<1> HIDE DEF j
<1>3. job'[w] = j /\ pc'[w] = "locked"
      /\ \A v \in Workers \ {w} : job'[v] = job[v] /\ pc'[v] = pc[v]
  BY <1>2 DEF PathTreeInv, PathTreeTypeOK, WorkerInv
<1>4. WorkerInv'
  BY <1>1, <1>2, <1>3 DEF PathTreeInv, WorkerInv
<1>5. writer = Nobody /\ writer' = Nobody /\ readers' = readers \cup {w}
      /\ UNCHANGED <<known, host, alias>>
  BY DEF Start
<1>6. job[w].op = "none"
  BY JobKinds DEF Start, PathTreeInv, WorkerInv
<1>7. PathTreeTypeOK'
  BY <1>1, <1>2, <1>3, <1>5, <1>6 DEF PathTreeInv, PathTreeTypeOK
<1>8. LockInv'
  BY <1>5 DEF LockInv
<1>9. OneName' /\ InDirectory' /\ NoRing'
  BY <1>5 DEF PathTreeInv, OneName, InDirectory, NoRing
<1>10. HalfDone'
  BY <1>5 DEF PathTreeInv, HalfDone
<1>11. Located'
  BY <1>3, <1>5 DEF PathTreeInv, Located
<1> QED BY <1>4, <1>7, <1>8, <1>9, <1>10, <1>11 DEF PathTreeInv

\* With nobody between the halves of a change the two trees are the same.
LEMMA Agreed ==
  ASSUME PathTreeInv, readers # {} \/ writer = Nobody \/ pc[writer] # "changed"
  PROVE  alias = host
BY DEF PathTreeInv, LockInv, HalfDone

LEMMA LocateStep == ASSUME PathTreeInv, NEW w \in Workers, Locate(w) PROVE PathTreeInv'
<1> DEFINE path == IF job[w].arg = "root" THEN {<<>>} ELSE path_for(alias, job[w].node)
<1>1. /\ pc[w] = "locked" /\ job[w].op = "call"
      /\ job' = [job EXCEPT ![w].path = path]
      /\ pc' = [pc EXCEPT ![w] = IF job[w].arg = "path" /\ path = {} THEN "refused" ELSE "inside"]
      /\ UNCHANGED <<known, host, alias, readers, writer>>
  BY DEF Locate
<1>2. job[w] \in Calls
  BY <1>1, JobKinds DEF PathTreeInv, WorkerInv
<1>3. w \in readers
  BY <1>1 DEF PathTreeInv, PathTreeTypeOK
<1>4. alias = host
  BY <1>3, Agreed
<1>5. path_for(alias, job[w].node) \in SUBSET Seq(Components)
  BY <1>4, PathLeadsBack DEF PathTreeInv
<1>6. path \in SUBSET Seq(Components)
  BY <1>5
<1> HIDE DEF path
<1>7. [job[w] EXCEPT !.path = path] \in Calls
  BY <1>2, <1>6 DEF Calls
<1>8. job' = [job EXCEPT ![w] = [job[w] EXCEPT !.path = path]]
  BY <1>1 DEF PathTreeInv, WorkerInv
<1>9. /\ job'[w] = [job[w] EXCEPT !.path = path]
      /\ \A v \in Workers \ {w} : job'[v] = job[v] /\ pc'[v] = pc[v]
      /\ pc'[w] = IF job[w].arg = "path" /\ path = {} THEN "refused" ELSE "inside"
  BY <1>1, <1>8 DEF PathTreeInv, WorkerInv, PathTreeTypeOK
<1>10. job'[w] \in Calls /\ job'[w].op = "call" /\ job'[w].arg = job[w].arg
       /\ job'[w].node = job[w].node /\ job'[w].path = path
  BY <1>2, <1>7, <1>9 DEF Calls
<1>11. WorkerInv'
  <2>1. job' \in [Workers -> {NoJob} \cup Calls \cup Changes]
    BY <1>7, <1>8 DEF PathTreeInv, WorkerInv
  <2>2. job'[w] # NoJob
    BY <1>10, <2>1, JobKinds
  <2> QED BY <2>1, <2>2, <1>9 DEF PathTreeInv, WorkerInv
<1>12. PathTreeTypeOK'
  BY <1>1, <1>9, <1>10 DEF PathTreeInv, PathTreeTypeOK
<1>13. LockInv'
  BY <1>1 DEF PathTreeInv, LockInv
<1>14. OneName' /\ InDirectory' /\ NoRing'
  BY <1>1 DEF PathTreeInv, OneName, InDirectory, NoRing
<1>15. writer # w
  BY <1>3 DEF PathTreeInv, LockInv, PathTreeTypeOK
<1>16. HalfDone'
  <2>1. writer = Nobody \/ (writer \in Workers \ {w})
    BY <1>15 DEF PathTreeInv, PathTreeTypeOK
  <2> QED BY <2>1, <1>1, <1>4, <1>3, <1>9 DEF PathTreeInv, LockInv, HalfDone
<1>17. Located'
  <2> SUFFICES ASSUME NEW v \in Workers, job'[v].op = "call"
               PROVE  /\ pc'[v] = "inside" /\ job'[v].arg # "root"
                           => job'[v].path = path_for(alias', job'[v].node)
                      /\ pc'[v] = "refused" => path_for(alias', job'[v].node) = {}
    BY DEF Located
  <2>1. alias' = alias
    BY <1>1
  <2>2. CASE v = w
    <3>1. job[w].arg # "root" => path = path_for(alias, job[w].node)
      BY DEF path
    <3> QED BY <2>1, <2>2, <3>1, <1>9, <1>10
  <2>3. CASE v # w
    <3>1. job'[v] = job[v] /\ pc'[v] = pc[v]
      BY <2>3, <1>9
    <3> QED BY <2>1, <3>1 DEF PathTreeInv, Located
  <2> QED BY <2>2, <2>3
<1> QED BY <1>11, <1>12, <1>13, <1>14, <1>16, <1>17 DEF PathTreeInv

LEMMA FinishStep == ASSUME PathTreeInv, NEW w \in Workers, Finish(w) PROVE PathTreeInv'
<1>1. /\ job'[w] = NoJob /\ pc'[w] = "idle" /\ pc[w] \in {"inside", "refused"}
      /\ \A v \in Workers \ {w} : job'[v] = job[v] /\ pc'[v] = pc[v]
  BY DEF Finish, PathTreeInv, WorkerInv, PathTreeTypeOK
<1>2. WorkerInv'
  BY <1>1 DEF Finish, PathTreeInv, WorkerInv
<1>3. NoJob.op = "none"
  BY DEF NoJob
<1>4. PathTreeTypeOK'
  BY <1>1, <1>3, PathTreeAssumption DEF Finish, PathTreeInv, PathTreeTypeOK
<1>5. LockInv'
  BY DEF Finish, PathTreeInv, LockInv
<1>6. OneName' /\ InDirectory' /\ NoRing'
  BY DEF Finish, PathTreeInv, OneName, InDirectory, NoRing
<1>7. HalfDone'
  <2>1. CASE writer = w \/ writer = Nobody
    <3>1. alias = host
      BY <2>1, <1>1, Agreed
    <3> QED BY <2>1, <3>1 DEF Finish, HalfDone
  <2>2. CASE writer # w /\ writer # Nobody
    <3>1. writer \in Workers \ {w}
      BY <2>2 DEF PathTreeInv, PathTreeTypeOK
    <3> QED BY <2>2, <3>1, <1>1 DEF Finish, PathTreeInv, HalfDone, NsChange
  <2> QED BY <2>1, <2>2
<1>8. Located'
  BY <1>1, <1>3 DEF Finish, PathTreeInv, Located
<1> QED BY <1>2, <1>4, <1>5, <1>6, <1>7, <1>8 DEF PathTreeInv

LEMMA StartChangeStep ==
  ASSUME PathTreeInv, NEW w \in Workers, NEW c \in Changes, StartChange(w, c)
  PROVE  PathTreeInv'
<1>1. c.op \notin {"none", "call"} /\ c # NoJob
  BY DEF Changes, NoJob
<1>2. /\ job'[w] = c /\ pc'[w] = "locked"
      /\ \A v \in Workers \ {w} : job'[v] = job[v] /\ pc'[v] = pc[v]
  BY DEF StartChange, PathTreeInv, WorkerInv, PathTreeTypeOK
<1>3. WorkerInv'
  BY <1>1, <1>2 DEF StartChange, PathTreeInv, WorkerInv
<1>4. job[w].op = "none"
  BY JobKinds DEF StartChange, PathTreeInv, WorkerInv
<1>5. PathTreeTypeOK'
  BY <1>1, <1>2, <1>4, PathTreeAssumption DEF StartChange, PathTreeInv, PathTreeTypeOK
<1>6. LockInv'
  BY DEF StartChange, LockInv
<1>7. OneName' /\ InDirectory' /\ NoRing'
  BY DEF StartChange, PathTreeInv, OneName, InDirectory, NoRing
<1>8. HalfDone'
  BY <1>2, Agreed DEF StartChange, HalfDone
<1>9. Located'
  BY <1>1, <1>2 DEF StartChange, PathTreeInv, Located
<1> QED BY <1>3, <1>5, <1>6, <1>7, <1>8, <1>9 DEF PathTreeInv

LEMMA ForgetNodeStep == ASSUME PathTreeInv, NEW o \in Objects, ForgetNode(o) PROVE PathTreeInv'
<1>1. known' \subseteq known /\ UNCHANGED <<host, alias, readers, writer, pc, job>>
  BY DEF ForgetNode
<1>2. InDirectory'
  BY DEF ForgetNode, PathTreeInv, InDirectory
<1> QED BY <1>1, <1>2
        DEF PathTreeInv, PathTreeTypeOK, WorkerInv, LockInv, OneName, NoRing, HalfDone, NsChange, Located

\* Where the inner filesystem gets to from the path of a directory, with a name.
Handed(d) == {<<e, d[2]>> : e \in UNION {Walk(Root, p) : p \in path_for(alias, d[1])}}

LEMMA HandedRight ==
  ASSUME PathTreeInv, alias = host, NEW d \in Dentries, NEW x \in Handed(d)
  PROVE  x = d /\ Reached(d[1])
<1>1. PICK a \in Dirs \cup {Root}, b \in Components : d = <<a, b>>
  BY DEF Dentries
<1>2. PICK p \in path_for(alias, d[1]) : \E e \in Walk(Root, p) : x = <<e, d[2]>>
  BY DEF Handed
<1>3. Walk(Root, p) = {a}
  BY <1>1, <1>2, PathLeadsBack DEF PathTreeInv
<1>4. a = Root \/ host[a] # {}
  BY <1>1, <1>2, PathNamed
<1> QED BY <1>1, <1>2, <1>3, <1>4 DEF Reached

\* What the inner filesystem makes of a change is a tree, and what the Namespace
\* will make of it.
LEMMA InnerStep ==
  ASSUME PathTreeInv, alias = host, NEW c \in Changes, Reached(c.from[1]), Reached(c.to[1]),
         InnerChange(c, c.from, c.to), known' = known \cup {c.node}
  PROVE  HostTyped' /\ HostTree' /\ host' = NsChange(c)
<1>0. HostTyped /\ HostTree
  BY DEF PathTreeInv, PathTreeTypeOK, HostTyped, HostTree
<1>1. c.node \in Objects /\ c.from \in Dentries /\ c.to \in Dentries
      /\ c.op \in {"create", "remove", "rename", "link"}
  BY DEF Changes
<1>2. CASE c.op = "create"
  <2>1. /\ c.node \notin known /\ Named(host, c.to) = {}
        /\ host' = [host EXCEPT ![c.node] = {c.to}]
    BY <1>2 DEF InnerChange
  <2>2. HostTyped' /\ HostTree'
    BY <1>0, <1>1, <2>1, CreateTree DEF Named
  <2>3. host[c.node] = {}
    BY <1>1, <2>1 DEF PathTreeInv, InDirectory
  <2>4. NsChange(c) = [host EXCEPT ![c.node] = {c.to}]
    BY <1>2, <2>1, <2>3 DEF NsChange
  <2> QED BY <2>1, <2>2, <2>4
<1>3. CASE c.op = "remove"
  <2>1. /\ Named(host, c.from) = {c.node} /\ Empty(c.node)
        /\ host' = [host EXCEPT ![c.node] = @ \ {c.from}]
    BY <1>3 DEF InnerChange
  <2>2. c.node \in known
    BY <1>1, <2>1 DEF Named, PathTreeInv, InDirectory
  <2>3. HostTyped' /\ HostTree'
    BY <1>0, <1>1, <2>1, <2>2, RemoveTree
  <2> QED BY <1>3, <2>1, <2>3 DEF NsChange
<1>4. CASE c.op = "link"
  <2>1. /\ c.node \in Files /\ host[c.node] # {} /\ Named(host, c.to) = {}
        /\ host' = [host EXCEPT ![c.node] = @ \cup {c.to}]
    BY <1>4 DEF InnerChange
  <2>2. HostTyped' /\ HostTree'
    BY <1>0, <1>1, <2>1, LinkTree DEF Named
  <2> QED BY <1>4, <2>1, <2>2 DEF NsChange
<1>5. CASE c.op = "rename"
  <2>1. /\ Named(host, c.from) = {c.node} /\ ~Below(c.to[1], c.node)
        /\ \A old \in Named(host, c.to) : Empty(old) /\ (old \in Dirs <=> c.node \in Dirs)
        /\ host' = Renamed(host, c.from, c.to)
    BY <1>5 DEF InnerChange
  <2>2. HostTyped' /\ HostTree'
    BY <1>0, <1>1, <2>1, RenameTree
  <2> QED BY <1>5, <2>1, <2>2 DEF NsChange
<1> QED BY <1>1, <1>2, <1>3, <1>4, <1>5

LEMMA ChangeStep == ASSUME PathTreeInv, NEW w \in Workers, Change(w) PROVE PathTreeInv'
<1>1. /\ pc[w] = "locked" /\ job[w].op \notin {"none", "call"}
      /\ UNCHANGED <<alias, readers, writer, job>>
  BY DEF Change
<1>2. job[w] \in Changes
  BY <1>1, JobKinds DEF PathTreeInv, WorkerInv
<1>3. writer = w /\ readers = {} /\ alias = host
  BY <1>1, Agreed, PathTreeAssumption DEF PathTreeInv, PathTreeTypeOK, LockInv
<1>4. \A v \in Workers : job[v].op # "call"
  BY <1>3 DEF PathTreeInv, PathTreeTypeOK
<1>5. Located'
  BY <1>1, <1>4 DEF Located
<1>6. LockInv'
  BY <1>1 DEF PathTreeInv, LockInv
<1>7. CASE pc' = [pc EXCEPT ![w] = "refused"] /\ UNCHANGED <<known, host>>
  <2>1. PathTreeTypeOK' /\ WorkerInv'
    BY <1>1, <1>7 DEF PathTreeInv, PathTreeTypeOK, WorkerInv
  <2>2. OneName' /\ InDirectory' /\ NoRing'
    BY <1>7 DEF PathTreeInv, OneName, InDirectory, NoRing
  <2>3. pc'[w] = "refused"
    BY <1>7 DEF PathTreeInv, PathTreeTypeOK
  <2>4. HalfDone'
    BY <1>1, <1>3, <1>7, <2>3 DEF HalfDone
  <2> QED BY <1>5, <1>6, <2>1, <2>2, <2>4 DEF PathTreeInv
<1>8. CASE \E from \in Handed(job[w].from), to \in Handed(job[w].to) :
             /\ InnerChange(job[w], from, to)
             /\ known' = known \cup {job[w].node}
             /\ pc' = [pc EXCEPT ![w] = "changed"]
  <2>1. job[w].from \in Dentries /\ job[w].to \in Dentries /\ job[w].node \in Objects
    BY <1>2 DEF Changes
  <2>2. PICK from \in Handed(job[w].from), to \in Handed(job[w].to) :
             /\ InnerChange(job[w], from, to)
             /\ known' = known \cup {job[w].node}
             /\ pc' = [pc EXCEPT ![w] = "changed"]
    BY <1>8
  <2>3. from = job[w].from /\ Reached(job[w].from[1])
    BY <1>3, <2>1, HandedRight
  <2>4. to = job[w].to /\ Reached(job[w].to[1])
    BY <1>3, <2>1, HandedRight
  <2>5. HostTyped' /\ HostTree' /\ host' = NsChange(job[w])
    BY <1>2, <1>3, <2>2, <2>3, <2>4, InnerStep
  <2>6. PathTreeTypeOK'
    BY <1>1, <2>1, <2>2, <2>5 DEF PathTreeInv, PathTreeTypeOK, HostTyped
  <2>7. pc'[w] = "changed" /\ \A v \in Workers \ {w} : pc'[v] = pc[v]
    BY <2>2 DEF PathTreeInv, PathTreeTypeOK
  <2>8. WorkerInv'
    <3>1. job[w] # NoJob
      BY <1>1 DEF NoJob
    <3> QED BY <1>1, <1>2, <2>7, <3>1 DEF PathTreeInv, WorkerInv
  <2>9. HalfDone'
    <3>1. writer' # Nobody
      BY <1>1, <1>3, PathTreeAssumption
    <3>2. NsChange(job[w])' = NsChange(job[w])
      BY <1>1 DEF NsChange
    <3> QED BY <1>1, <1>3, <2>5, <2>7, <3>1, <3>2 DEF HalfDone
  <2> QED BY <1>5, <1>6, <2>5, <2>6, <2>8, <2>9 DEF PathTreeInv, HostTree
<1> QED BY <1>7, <1>8 DEF Change, Handed

\* The Namespace follows, and is there.
LEMMA RecordStep == ASSUME PathTreeInv, NEW w \in Workers, Record(w) PROVE PathTreeInv'
<1>1. /\ pc[w] = "changed" /\ alias' = NsChange(job[w]) /\ pc' = [pc EXCEPT ![w] = "inside"]
      /\ UNCHANGED <<known, host, readers, writer, job>>
  BY DEF Record
<1>2. job[w] \in Changes /\ job[w].op \notin {"none", "call"}
  BY <1>1, JobKinds DEF PathTreeInv, WorkerInv
<1>3. writer = w /\ readers = {}
  BY <1>2, PathTreeAssumption DEF PathTreeInv, PathTreeTypeOK, LockInv
<1>4. alias' = host'
  BY <1>1, <1>3, PathTreeAssumption DEF PathTreeInv, HalfDone
<1>5. PathTreeTypeOK'
  BY <1>1, <1>4 DEF PathTreeInv, PathTreeTypeOK
<1>6. pc'[w] = "inside" /\ \A v \in Workers \ {w} : pc'[v] = pc[v]
  BY <1>1 DEF PathTreeInv, PathTreeTypeOK
<1>7. WorkerInv'
  BY <1>1, <1>6 DEF PathTreeInv, WorkerInv
<1>8. LockInv' /\ OneName' /\ InDirectory' /\ NoRing'
  BY <1>1 DEF PathTreeInv, LockInv, OneName, InDirectory, NoRing
<1>9. HalfDone'
  BY <1>1, <1>3, <1>4, <1>6 DEF HalfDone
<1>10. Located'
  BY <1>1, <1>3 DEF PathTreeInv, PathTreeTypeOK, Located
<1> QED BY <1>5, <1>7, <1>8, <1>9, <1>10 DEF PathTreeInv

LEMMA PathTreeStutter == ASSUME PathTreeInv, UNCHANGED pathTreeVars PROVE PathTreeInv'
<1> USE DEF pathTreeVars
<1>1. PathTreeTypeOK' /\ WorkerInv' /\ LockInv'
  BY DEF PathTreeInv, PathTreeTypeOK, WorkerInv, LockInv
<1>2. OneName' /\ InDirectory' /\ NoRing'
  BY DEF PathTreeInv, OneName, InDirectory, NoRing
<1>3. HalfDone'
  BY DEF PathTreeInv, HalfDone, NsChange
<1>4. Located'
  BY DEF PathTreeInv, Located
<1> QED BY <1>1, <1>2, <1>3, <1>4 DEF PathTreeInv

\* The invariant of the path adapter's tree: both trees are trees, the same but
\* between the halves of a change, and callbacks have the paths they would find.
THEOREM PathTreeInvariance == PathTreeSpec => []PathTreeInv
<1>1. ASSUME PathTreeInv, [PathTreeNext]_pathTreeVars PROVE PathTreeInv'
  <2>1. ASSUME NEW w \in Workers, NEW arg \in NodeCalls, NEW o \in known, Start(w, arg, o)
        PROVE  PathTreeInv'
    BY <1>1, <2>1, CallArgs, StartStep DEF PathTreeInv, PathTreeTypeOK
  <2>2. ASSUME NEW w \in Workers, NEW c \in Asked, StartChange(w, c) PROVE PathTreeInv'
    BY <1>1, <2>2, StartChangeStep DEF Asked
  <2>3. ASSUME NEW w \in Workers, Locate(w) \/ Change(w) \/ Record(w) \/ Finish(w) PROVE PathTreeInv'
    BY <1>1, <2>3, LocateStep, ChangeStep, RecordStep, FinishStep
  <2> QED BY <1>1, <2>1, <2>2, <2>3, ForgetNodeStep, PathTreeStutter DEF PathTreeNext
<1> QED BY <1>1, PathTreeBase, PTL DEF PathTreeSpec

LEMMA PathsNow == PathTreeInv => PathsExact
<1> SUFFICES ASSUME PathTreeInv PROVE PathsExact
  OBVIOUS
<1>1. NamesAgree
  BY DEF PathTreeInv, HalfDone, NamesAgree
<1>2. PathRight
  <2> SUFFICES ASSUME NEW w \in Workers, job[w].op = "call"
               PROVE  /\ pc[w] = "inside" /\ job[w].arg # "root" =>
                           IF job[w].path = {} THEN host[job[w].node] = {}
                           ELSE \A p \in job[w].path : Walk(Root, p) = {job[w].node}
                      /\ pc[w] = "refused" => host[job[w].node] = {}
    BY DEF PathRight
  <2>1. w \in readers /\ job[w].node \in Objects
    BY JobKinds DEF PathTreeInv, PathTreeTypeOK, WorkerInv, Calls
  <2>2. alias = host
    BY <2>1, Agreed
  <2>3. path_for(alias, job[w].node) = {} => host[job[w].node] = {}
    BY <2>1, <2>2, PathThere DEF PathTreeInv
  <2>4. \A p \in path_for(alias, job[w].node) : Walk(Root, p) = {job[w].node}
    BY <2>2, PathLeadsBack DEF PathTreeInv
  <2> QED BY <2>3, <2>4 DEF PathTreeInv, Located
<1> QED BY <1>1, <1>2 DEF PathsExact, PathTreeInv

\* For any directories, files, names and workers: the path that a callback of the
\* adapter hands to the filesystem leads to the node the kernel asked about for as
\* long as the callback runs, however deep the node is and whatever is renamed
\* meanwhile; it has none only for an object without a name; and the Namespace
\* has the filesystem's names but for the middle of a change.
THEOREM PathsExactHolds == PathTreeSpec => []PathsExact
BY PathTreeInvariance, PathsNow, PTL

-----------------------------------------------------------------------------
(* The in-memory filesystem.  What a request does it does to tables of slots *)
(* and nodes, and leaves it to Commit to drop what nothing refers to: the    *)
(* invariant is about any two tables s and n.                                *)

Kinds == {"Directory", "RegularFile"}
EntryRecs == [id : Ids, kind : Kinds]
EntryMaps == UNION {[N -> EntryRecs] : N \in SUBSET Names}
SlotRecs == [links : Nat, lookups : 0..MaxLookups, parent : Ids]
NodeRecs == [kind : Kinds, nlink : Nat, entries : EntryMaps]

Tables(s, n) ==
  /\ DOMAIN s \subseteq Ids /\ DOMAIN n = DOMAIN s
  /\ s \in [DOMAIN s -> SlotRecs] /\ n \in [DOMAIN s -> NodeRecs]

\* The entries that name i, and the subdirectories of i.
NamesOf(n, i) ==
  {d \in (DOMAIN n) \X Names : d[2] \in DOMAIN n[d[1]].entries /\ n[d[1]].entries[d[2]].id = i}
SubDirs(n, i) == {m \in DOMAIN n[i].entries : n[i].entries[m].kind = "Directory"}

InTree(n, p) == p \in DOMAIN n /\ n[p].kind = "Directory" /\ (p = RootIno \/ NamesOf(n, p) # {})

\* An entry is in a directory of the tree, and is right about what it names.
EntryRight(n, p, m) ==
  /\ InTree(n, p)
  /\ n[p].entries[m].id \in DOMAIN n \ {RootIno}
  /\ n[n[p].entries[m].id].kind = n[p].entries[m].kind

Whole(n) ==
  /\ RootIno \in DOMAIN n /\ n[RootIno].kind = "Directory"
  /\ \A p \in DOMAIN n : \A m \in DOMAIN n[p].entries : EntryRight(n, p, m)

LinksRight(s, n) ==
  \A i \in DOMAIN n : s[i].links = IF i = RootIno THEN 1 ELSE Cardinality(NamesOf(n, i))

NlinkOf(n, i) ==
  IF n[i].kind # "Directory" THEN Cardinality(NamesOf(n, i))
  ELSE IF ~InTree(n, i) THEN 0 ELSE 2 + Cardinality(SubDirs(n, i))

NlinkRight(n) == \A i \in DOMAIN n : n[i].nlink = NlinkOf(n, i)

\* A directory has one name, in its parent.
OneParent(s, n) ==
  \A i \in DOMAIN n : n[i].kind = "Directory" =>
    \A d, e \in NamesOf(n, i) : d = e /\ d[1] = s[i].parent

\* No directories are one below the other in a ring.
NoLoop(s, n) ==
  \A S \in SUBSET {i \in DOMAIN n : n[i].kind = "Directory" /\ NamesOf(n, i) # {}} :
    S # {} => \E i \in S : s[i].parent \notin S

TreeInv(s, n) ==
  Tables(s, n) /\ Whole(n) /\ LinksRight(s, n) /\ NlinkRight(n) /\ OneParent(s, n) /\ NoLoop(s, n)

\* And what nothing refers to has been dropped.
MemoryInv ==
  /\ TreeInv(slot, node)
  /\ \A i \in DOMAIN node \ {RootIno} : NamesOf(node, i) # {} \/ slot[i].lookups > 0

-----------------------------------------------------------------------------
(* What one entry more or less is to names, subdirectories and counts *)

\* n2 has one entry more than n, or one less.
Gained(n, n2, p, m, e) ==
  /\ DOMAIN n2 = DOMAIN n
  /\ m \notin DOMAIN n[p].entries /\ n2[p].entries = With(n[p].entries, m, e)
  /\ \A j \in DOMAIN n \ {p} : n2[j].entries = n[j].entries

Lost(n, n2, p, m) ==
  /\ DOMAIN n2 = DOMAIN n
  /\ m \in DOMAIN n[p].entries /\ n2[p].entries = Restrict(n[p].entries, DOMAIN n[p].entries \ {m})
  /\ \A j \in DOMAIN n \ {p} : n2[j].entries = n[j].entries

LEMMA NamesGained ==
  ASSUME NEW n, NEW n2, NEW p \in DOMAIN n, NEW m \in Names, NEW e, Gained(n, n2, p, m, e), NEW i
  PROVE  NamesOf(n2, i) = IF i = e.id THEN NamesOf(n, i) \cup {<<p, m>>} ELSE NamesOf(n, i)
<1> USE DEF Gained
<1>1. DOMAIN n2[p].entries = DOMAIN n[p].entries \cup {m} /\ n2[p].entries[m] = e
      /\ \A x \in DOMAIN n[p].entries : n2[p].entries[x] = n[p].entries[x]
  BY DEF With
<1>2. ASSUME NEW a \in DOMAIN n, NEW b \in Names
      PROVE  (b \in DOMAIN n2[a].entries /\ n2[a].entries[b].id = i)
               <=> \/ b \in DOMAIN n[a].entries /\ n[a].entries[b].id = i
                   \/ i = e.id /\ a = p /\ b = m
  <2>1. CASE a = p
    BY <1>1, <2>1
  <2>2. CASE a # p
    BY <2>2
  <2> QED BY <2>1, <2>2
<1>3. ASSUME NEW d PROVE d \in NamesOf(n2, i) <=> d \in NamesOf(n, i) \/ (i = e.id /\ d = <<p, m>>)
  <2>1. CASE d \in (DOMAIN n) \X Names
    <3>1. PICK a \in DOMAIN n, b \in Names : d = <<a, b>>
      BY <2>1
    <3> QED BY <3>1, <1>2 DEF NamesOf
  <2>2. CASE d \notin (DOMAIN n) \X Names
    BY <2>2 DEF NamesOf
  <2> QED BY <2>1, <2>2
<1> QED BY <1>3

LEMMA NamesLost ==
  ASSUME NEW n, NEW n2, NEW p \in DOMAIN n, NEW m, Lost(n, n2, p, m), NEW i
  PROVE  NamesOf(n2, i) = NamesOf(n, i) \ {<<p, m>>}
<1> USE DEF Lost
<1>1. DOMAIN n2[p].entries = DOMAIN n[p].entries \ {m}
      /\ \A x \in DOMAIN n[p].entries \ {m} : n2[p].entries[x] = n[p].entries[x]
  BY DEF Restrict
<1>2. ASSUME NEW a \in DOMAIN n, NEW b \in Names
      PROVE  (b \in DOMAIN n2[a].entries /\ n2[a].entries[b].id = i)
               <=> b \in DOMAIN n[a].entries /\ n[a].entries[b].id = i /\ ~(a = p /\ b = m)
  <2>1. CASE a = p
    BY <1>1, <2>1
  <2>2. CASE a # p
    BY <2>2
  <2> QED BY <2>1, <2>2
<1>3. ASSUME NEW d PROVE d \in NamesOf(n2, i) <=> d \in NamesOf(n, i) /\ d # <<p, m>>
  <2>1. CASE d \in (DOMAIN n) \X Names
    <3>1. PICK a \in DOMAIN n, b \in Names : d = <<a, b>>
      BY <2>1
    <3> QED BY <3>1, <1>2 DEF NamesOf
  <2>2. CASE d \notin (DOMAIN n) \X Names
    BY <2>2 DEF NamesOf
  <2> QED BY <2>1, <2>2
<1> QED BY <1>3

\* What a table of nodes is made of.
LEMMA NodeShape ==
  ASSUME NEW s, NEW n, Tables(s, n), NEW i \in DOMAIN n
  PROVE  /\ i \in Ids /\ n[i].kind \in Kinds /\ n[i].nlink \in Nat /\ n[i].entries \in EntryMaps
         /\ DOMAIN n[i].entries \subseteq Names
         /\ \A m \in DOMAIN n[i].entries : n[i].entries[m] \in EntryRecs
         /\ s[i].links \in Nat /\ s[i].lookups \in 0..MaxLookups /\ s[i].parent \in Ids
         /\ s[i] \in SlotRecs /\ n[i] \in NodeRecs
<1>1. s[i] \in SlotRecs /\ n[i] \in NodeRecs /\ i \in Ids
  BY DEF Tables
<1>2. n[i].entries \in EntryMaps
  BY <1>1 DEF NodeRecs
<1>3. PICK N \in SUBSET Names : n[i].entries \in [N -> EntryRecs]
  BY <1>2 DEF EntryMaps
<1>4. s[i].links \in Nat /\ s[i].lookups \in 0..MaxLookups /\ s[i].parent \in Ids
  BY <1>1 DEF SlotRecs
<1>5. n[i].kind \in Kinds /\ n[i].nlink \in Nat
  BY <1>1 DEF NodeRecs
<1> QED BY <1>1, <1>2, <1>3, <1>4, <1>5

\* The sets that are counted are finite.
LEMMA CountsFinite ==
  ASSUME NEW s, NEW n, Tables(s, n)
  PROVE  /\ \A i : IsFiniteSet(NamesOf(n, i)) /\ Cardinality(NamesOf(n, i)) \in Nat
         /\ \A i \in DOMAIN n : IsFiniteSet(SubDirs(n, i)) /\ Cardinality(SubDirs(n, i)) \in Nat
<1>1. IsFiniteSet(DOMAIN n)
  <2>1. IsFiniteSet(Ids)
    BY MemoryAssumption, FS_Interval DEF Ids
  <2> QED BY <2>1, FS_Subset DEF Tables
<1>2. IsFiniteSet((DOMAIN n) \X Names)
  BY <1>1, MemoryAssumption, FS_Product
<1>3. ASSUME NEW i PROVE IsFiniteSet(NamesOf(n, i)) /\ Cardinality(NamesOf(n, i)) \in Nat
  <2>1. NamesOf(n, i) \in SUBSET ((DOMAIN n) \X Names)
    BY DEF NamesOf
  <2> QED BY <2>1, <1>2, FS_Subset, FS_CardinalityType
<1>4. ASSUME NEW i \in DOMAIN n PROVE IsFiniteSet(SubDirs(n, i)) /\ Cardinality(SubDirs(n, i)) \in Nat
  <2>1. SubDirs(n, i) \in SUBSET Names
    BY NodeShape DEF SubDirs
  <2> QED BY <2>1, MemoryAssumption, FS_Subset, FS_CardinalityType
<1> QED BY <1>3, <1>4

\* The parent of a directory with a name is in the tree.
LEMMA ParentInTree ==
  ASSUME NEW s, NEW n, TreeInv(s, n), NEW i \in DOMAIN n, n[i].kind = "Directory", NamesOf(n, i) # {}
  PROVE  InTree(n, s[i].parent) /\ i # RootIno
<1>1. PICK d : d \in NamesOf(n, i)
  OBVIOUS
<1>2. d[1] = s[i].parent
  BY <1>1 DEF TreeInv, OneParent
<1>3. d[1] \in DOMAIN n /\ d[2] \in DOMAIN n[d[1]].entries /\ n[d[1]].entries[d[2]].id = i
  BY <1>1 DEF NamesOf
<1>4. EntryRight(n, d[1], d[2])
  BY <1>3 DEF TreeInv, Whole
<1> QED BY <1>2, <1>3, <1>4 DEF EntryRight

\* A node that is not in the tree has no entries.
LEMMA OutsideEmpty ==
  ASSUME NEW n, Whole(n), NEW i \in DOMAIN n, ~InTree(n, i)
  PROVE  DOMAIN n[i].entries = {} /\ SubDirs(n, i) = {}
BY DEF Whole, EntryRight, SubDirs

\* A file, or a directory without a name, gets a name.
LEMMA GainTree ==
  ASSUME NEW s, NEW n, NEW s2, NEW n2, TreeInv(s, n), Tables(s2, n2),
         NEW p, InTree(n, p), NEW m \in Names,
         NEW i \in DOMAIN n \ {RootIno}, n[i].kind = "Directory" => NamesOf(n, i) = {},
         Gained(n, n2, p, m, [id |-> i, kind |-> n[i].kind]),
         \A j \in DOMAIN n : n2[j].kind = n[j].kind,
         s2[i].links = s[i].links + 1,
         \A j \in DOMAIN n \ {i} : s2[j].links = s[j].links /\ s2[j].parent = s[j].parent,
         n[i].kind = "Directory" => s2[i].parent = p,
         n2[i].nlink = (IF n[i].kind = "Directory" THEN 2 ELSE n[i].nlink + 1),
         n2[p].nlink = (IF n[i].kind = "Directory" THEN n[p].nlink + 1 ELSE n[p].nlink),
         \A j \in DOMAIN n \ {i, p} : n2[j].nlink = n[j].nlink
  PROVE  TreeInv(s2, n2)
<1> DEFINE e == [id |-> i, kind |-> n[i].kind]
<1>d. /\ DOMAIN n2 = DOMAIN n /\ m \notin DOMAIN n[p].entries /\ n2[p].entries = With(n[p].entries, m, e)
      /\ \A j \in DOMAIN n \ {p} : n2[j].entries = n[j].entries
  BY DEF Gained
<1>t. Tables(s, n) /\ Whole(n)
  BY DEF TreeInv
<1>p. p \in DOMAIN n /\ n[p].kind = "Directory"
  BY DEF InTree
<1>1. /\ \A j \in DOMAIN n : NamesOf(n2, j) = IF j = i THEN NamesOf(n, j) \cup {<<p, m>>} ELSE NamesOf(n, j)
      /\ \A j \in DOMAIN n \ {p} : SubDirs(n2, j) = SubDirs(n, j)
      /\ SubDirs(n2, p) = IF n[i].kind = "Directory" THEN SubDirs(n, p) \cup {m} ELSE SubDirs(n, p)
  <2>1. e.id = i /\ e.kind = n[i].kind
    OBVIOUS
  <2> HIDE DEF e
  <2>2. Gained(n, n2, p, m, e)
    BY DEF e
  <2>3. ASSUME NEW j \in DOMAIN n
        PROVE  NamesOf(n2, j) = IF j = i THEN NamesOf(n, j) \cup {<<p, m>>} ELSE NamesOf(n, j)
    BY <2>1, <2>2, <1>p, NamesGained
  <2>4. ASSUME NEW j \in DOMAIN n \ {p} PROVE SubDirs(n2, j) = SubDirs(n, j)
    BY <1>d DEF SubDirs
  <2>5. SubDirs(n2, p) = IF n[i].kind = "Directory" THEN SubDirs(n, p) \cup {m} ELSE SubDirs(n, p)
    BY <1>d, <2>1 DEF SubDirs, With
  <2> QED BY <2>3, <2>4, <2>5
<1>2. i # p /\ ~InTree(n, i)
  BY DEF InTree
<1>3. SubDirs(n, i) = {} /\ DOMAIN n[i].entries = {}
  BY <1>d, <1>2, <1>t, OutsideEmpty
<1>4. \A j \in DOMAIN n : InTree(n2, j) <=> InTree(n, j) \/ (j = i /\ n[i].kind = "Directory")
  BY <1>d, <1>1 DEF InTree
<1>5. Whole(n2)
  <2>1. RootIno \in DOMAIN n2 /\ n2[RootIno].kind = "Directory"
    BY <1>d, <1>t DEF Whole
  <2>2. ASSUME NEW a \in DOMAIN n2, NEW b \in DOMAIN n2[a].entries PROVE EntryRight(n2, a, b)
    <3>1. CASE a = p /\ b = m
      <4>1. n2[p].entries[m] = e
        BY <1>d DEF With
      <4>2. n2[p].entries[m].id = i /\ n2[p].entries[m].kind = n[i].kind
        BY <1>d, <4>1
      <4> QED BY <1>d, <3>1, <4>2, <1>4, <1>p DEF EntryRight
    <3>2. CASE ~(a = p /\ b = m)
      <4>1. b \in DOMAIN n[a].entries /\ n2[a].entries[b] = n[a].entries[b]
        BY <1>d, <2>2, <3>2 DEF With
      <4>2. EntryRight(n, a, b)
        BY <1>d, <2>2, <4>1, <1>t DEF Whole
      <4> QED BY <1>d, <2>2, <4>1, <4>2, <1>4 DEF EntryRight
    <3> QED BY <1>d, <3>1, <3>2
  <2> QED BY <1>d, <2>1, <2>2 DEF Whole
<1>6. <<p, m>> \notin NamesOf(n, i)
  BY <1>d DEF NamesOf
<1>7. Cardinality(NamesOf(n2, i)) = Cardinality(NamesOf(n, i)) + 1
  BY <1>d, <1>1, <1>6, <1>t, CountsFinite, FS_AddElement
<1>8. LinksRight(s2, n2)
  BY <1>d, <1>1, <1>7 DEF TreeInv, LinksRight
<1>9. NlinkRight(n2)
  <2> SUFFICES ASSUME NEW j \in DOMAIN n PROVE n2[j].nlink = NlinkOf(n2, j)
    BY <1>d DEF NlinkRight
  <2>0. n[j].nlink = NlinkOf(n, j)
    BY DEF TreeInv, NlinkRight
  <2>1. CASE j = i /\ n[i].kind # "Directory"
    BY <1>d, <2>0, <2>1, <1>7 DEF NlinkOf
  <2>2. CASE j = i /\ n[i].kind = "Directory"
    <3>1. SubDirs(n2, i) = {}
      BY <1>d, <1>1, <1>2, <1>3
    <3>2. Cardinality(SubDirs(n2, i)) = 0
      BY <1>d, <3>1, FS_EmptySet
    <3> QED BY <1>d, <2>2, <3>2, <1>4 DEF NlinkOf
  <2>3. CASE j = p
    <3>1. m \notin SubDirs(n, p)
      BY <1>d DEF SubDirs
    <3>2. Cardinality(SubDirs(n2, p)) =
            IF n[i].kind = "Directory" THEN Cardinality(SubDirs(n, p)) + 1 ELSE Cardinality(SubDirs(n, p))
      <4>1. IsFiniteSet(SubDirs(n, p))
        BY <1>d, <1>p, <1>t, CountsFinite
      <4>2. Cardinality(SubDirs(n, p) \cup {m}) = Cardinality(SubDirs(n, p)) + 1
        BY <1>d, <4>1, <3>1, FS_AddElement
      <4> QED BY <1>d, <4>2, <1>1
    <3>3. n[p].nlink = 2 + Cardinality(SubDirs(n, p))
      BY <1>d, <2>0, <2>3, <1>p DEF NlinkOf
    <3>4. NlinkOf(n2, p) = 2 + Cardinality(SubDirs(n2, p))
      BY <1>d, <1>p, <1>4 DEF NlinkOf
    <3>5. Cardinality(SubDirs(n, p)) \in Nat
      BY <1>d, <1>p, <1>t, CountsFinite
    <3> QED BY <1>d, <2>3, <3>2, <3>3, <3>4, <3>5
  <2>4. CASE j \notin {i, p}
    <3>1. NlinkOf(n2, j) = NlinkOf(n, j)
      BY <1>d, <2>4, <1>1, <1>4 DEF NlinkOf
    <3> QED BY <1>d, <2>0, <2>4, <3>1
  <2> QED BY <1>d, <2>1, <2>2, <2>3, <2>4
<1>10. OneParent(s2, n2)
  <2> SUFFICES ASSUME NEW j \in DOMAIN n, n[j].kind = "Directory",
                      NEW d \in NamesOf(n2, j), NEW f \in NamesOf(n2, j)
               PROVE  d = f /\ d[1] = s2[j].parent
    BY <1>d DEF OneParent
  <2>1. CASE j = i
    <3>1. NamesOf(n2, i) = {<<p, m>>}
      BY <1>d, <2>1, <1>1
    <3> QED BY <1>d, <2>1, <3>1
  <2>2. CASE j # i
    BY <1>d, <2>2, <1>1 DEF TreeInv, OneParent
  <2> QED BY <1>d, <2>1, <2>2
<1>11. NoLoop(s2, n2)
  <2> SUFFICES ASSUME NEW S \in SUBSET {j \in DOMAIN n2 : n2[j].kind = "Directory" /\ NamesOf(n2, j) # {}},
                      S # {}, \A j \in S : s2[j].parent \in S
               PROVE  FALSE
    BY <1>d DEF NoLoop
  <2> DEFINE T == S \ {i}
  <2>1. \A j \in T : j \in DOMAIN n /\ n[j].kind = "Directory" /\ NamesOf(n, j) # {}
    BY <1>d, <1>1
  <2>2. \A j \in T : s[j].parent \in S /\ InTree(n, s[j].parent)
    BY <1>d, <2>1, ParentInTree
  <2>3. \A j \in T : s[j].parent \in T
    BY <1>d, <2>2, <1>2
  <2>4. T # {}
    <3>1. CASE i \in S
      <4>1. n[i].kind = "Directory"
        BY <1>d, <3>1
      <4> QED BY <1>d, <3>1, <4>1, <1>2
    <3> QED BY <1>d, <3>1
  <2>5. T \in SUBSET {j \in DOMAIN n : n[j].kind = "Directory" /\ NamesOf(n, j) # {}}
    BY <1>d, <2>1
  <2> HIDE DEF T
  <2> QED BY <1>d, <2>3, <2>4, <2>5 DEF TreeInv, NoLoop
<1> QED BY <1>d, <1>5, <1>8, <1>9, <1>10, <1>11 DEF TreeInv

\* An entry, the name it is, and the counts it is part of.
LEMMA EntryThere ==
  ASSUME NEW s, NEW n, TreeInv(s, n), NEW p \in DOMAIN n, NEW m \in DOMAIN n[p].entries, NEW i,
         i = n[p].entries[m].id
  PROVE  /\ InTree(n, p) /\ i \in DOMAIN n \ {RootIno} /\ m \in Names
         /\ n[p].entries[m].kind = n[i].kind
         /\ <<p, m>> \in NamesOf(n, i) /\ \A j \in DOMAIN n \ {i} : <<p, m>> \notin NamesOf(n, j)
         /\ s[i].links >= 1 /\ n[i].nlink >= 1
         /\ n[i].kind = "Directory" => n[p].nlink >= 3 /\ m \in SubDirs(n, p)
         /\ n[i].kind # "Directory" => m \notin SubDirs(n, p)
         /\ i # p
<1>t. Tables(s, n) /\ Whole(n)
  BY DEF TreeInv
<1>1. EntryRight(n, p, m)
  BY <1>t DEF Whole
<1>2. InTree(n, p) /\ i \in DOMAIN n \ {RootIno} /\ n[p].entries[m].kind = n[i].kind
  BY <1>1 DEF EntryRight
<1>3. m \in Names
  BY <1>t, NodeShape
<1>4. <<p, m>> \in NamesOf(n, i) /\ \A j \in DOMAIN n \ {i} : <<p, m>> \notin NamesOf(n, j)
  BY <1>3 DEF NamesOf
<1>5. Cardinality(NamesOf(n, i)) \in Nat /\ Cardinality(NamesOf(n, i)) # 0
  BY <1>4, <1>t, CountsFinite, FS_EmptySet
<1>6. s[i].links >= 1
  BY <1>2, <1>5 DEF TreeInv, LinksRight
<1>7. n[i].nlink = NlinkOf(n, i) /\ n[p].nlink = NlinkOf(n, p)
  BY <1>2 DEF TreeInv, NlinkRight
<1>8. n[i].nlink >= 1
  <2>1. CASE n[i].kind # "Directory"
    BY <2>1, <1>5, <1>7 DEF NlinkOf
  <2>2. CASE n[i].kind = "Directory"
    <3>1. InTree(n, i)
      BY <2>2, <1>2, <1>4 DEF InTree
    <3>2. Cardinality(SubDirs(n, i)) \in Nat
      BY <1>2, <1>t, CountsFinite
    <3> QED BY <2>2, <3>1, <3>2, <1>7 DEF NlinkOf
  <2> QED BY <2>1, <2>2
<1>9. (n[i].kind = "Directory") <=> m \in SubDirs(n, p)
  BY <1>2 DEF SubDirs
<1>10. n[i].kind = "Directory" => n[p].nlink >= 3
  <2> SUFFICES ASSUME n[i].kind = "Directory" PROVE n[p].nlink >= 3
    OBVIOUS
  <2>1. Cardinality(SubDirs(n, p)) \in Nat /\ Cardinality(SubDirs(n, p)) # 0
    BY <1>9, <1>t, CountsFinite, FS_EmptySet
  <2>2. n[p].nlink = 2 + Cardinality(SubDirs(n, p))
    BY <1>2, <1>7 DEF NlinkOf, InTree
  <2> QED BY <2>1, <2>2
<1>11. i # p
  <2> SUFFICES ASSUME i = p PROVE FALSE
    OBVIOUS
  <2>1. n[i].kind = "Directory"
    BY <1>2 DEF InTree
  <2>2. <<p, m>>[1] = s[i].parent
    BY <2>1, <1>2, <1>4 DEF TreeInv, OneParent
  <2>3. {i} \in SUBSET {j \in DOMAIN n : n[j].kind = "Directory" /\ NamesOf(n, j) # {}}
    BY <2>1, <1>2, <1>4
  <2>4. \E j \in {i} : s[j].parent \notin {i}
    BY <2>3 DEF TreeInv, NoLoop
  <2> QED BY <2>2, <2>4
<1> QED BY <1>2, <1>3, <1>4, <1>6, <1>8, <1>9, <1>10, <1>11

\* The counts when i loses a name in p, and when a name of i moves from p to q.
LossCounted(s, n, s2, n2, p, i) ==
  /\ \A j \in DOMAIN n : n2[j].kind = n[j].kind /\ s2[j].parent = s[j].parent
  /\ s2[i].links = s[i].links - 1 /\ \A j \in DOMAIN n \ {i} : s2[j].links = s[j].links
  /\ n2[i].nlink = (IF n[i].kind = "Directory" THEN 0 ELSE n[i].nlink - 1)
  /\ n2[p].nlink = (IF n[i].kind = "Directory" THEN n[p].nlink - 1 ELSE n[p].nlink)
  /\ \A j \in DOMAIN n \ {i, p} : n2[j].nlink = n[j].nlink

MoveCounted(s, n, s2, n2, p, i, q) ==
  /\ \A j \in DOMAIN n : n2[j].kind = n[j].kind /\ s2[j].links = s[j].links
  /\ \A j \in DOMAIN n \ {i} : s2[j].parent = s[j].parent
  /\ n[i].kind = "Directory" => s2[i].parent = q
  /\ \A j \in DOMAIN n : n2[j].nlink =
       IF n[i].kind # "Directory" \/ p = q THEN n[j].nlink
       ELSE IF j = p THEN n[j].nlink - 1 ELSE IF j = q THEN n[j].nlink + 1 ELSE n[j].nlink

\* A set T that has q, the directories above it, and not i.
Above(s, T, q, i) == q \in T /\ i \notin T /\ \A j \in T \ {RootIno} : s[j].parent \in T

\* A file, or an empty directory, loses a name.
LEMMA LoseTree ==
  ASSUME NEW s, NEW n, NEW s2, NEW n2, TreeInv(s, n), Tables(s2, n2),
         NEW p \in DOMAIN n, NEW m \in DOMAIN n[p].entries, NEW i, i = n[p].entries[m].id,
         DOMAIN n[i].entries = {}, Lost(n, n2, p, m), LossCounted(s, n, s2, n2, p, i)
  PROVE  TreeInv(s2, n2)
<1> USE DEF LossCounted
<1>d. /\ DOMAIN n2 = DOMAIN n /\ n2[p].entries = Restrict(n[p].entries, DOMAIN n[p].entries \ {m})
      /\ \A j \in DOMAIN n \ {p} : n2[j].entries = n[j].entries
  BY DEF Lost
<1>t. Tables(s, n) /\ Whole(n)
  BY DEF TreeInv
<1>1. /\ InTree(n, p) /\ i \in DOMAIN n \ {RootIno} /\ i # p
      /\ <<p, m>> \in NamesOf(n, i) /\ \A j \in DOMAIN n \ {i} : <<p, m>> \notin NamesOf(n, j)
      /\ n[i].kind = "Directory" => m \in SubDirs(n, p)
      /\ n[i].kind # "Directory" => m \notin SubDirs(n, p)
  BY EntryThere
<1>2. /\ \A j \in DOMAIN n : NamesOf(n2, j) = NamesOf(n, j) \ {<<p, m>>}
      /\ \A j \in DOMAIN n \ {p} : SubDirs(n2, j) = SubDirs(n, j)
      /\ SubDirs(n2, p) = SubDirs(n, p) \ {m}
  <2>1. ASSUME NEW j \in DOMAIN n PROVE NamesOf(n2, j) = NamesOf(n, j) \ {<<p, m>>}
    BY NamesLost
  <2>2. ASSUME NEW j \in DOMAIN n \ {p} PROVE SubDirs(n2, j) = SubDirs(n, j)
    BY <1>d DEF SubDirs
  <2>3. SubDirs(n2, p) = SubDirs(n, p) \ {m}
    BY <1>d DEF SubDirs, Restrict
  <2> QED BY <2>1, <2>2, <2>3
<1>3. ASSUME NEW j \in DOMAIN n \ {i} PROVE NamesOf(n2, j) = NamesOf(n, j)
  <2>1. <<p, m>> \notin NamesOf(n, j)
    BY <1>d, <1>1, <1>3
  <2>2. NamesOf(n2, j) = NamesOf(n, j) \ {<<p, m>>}
    BY <1>d, <1>2
  <2> QED BY <1>d, <2>1, <2>2
<1>4. n[i].kind = "Directory" => NamesOf(n2, i) = {}
  <2> SUFFICES ASSUME n[i].kind = "Directory" PROVE NamesOf(n2, i) = {}
    OBVIOUS
  <2>1. \A d \in NamesOf(n, i) : d = <<p, m>>
    BY <1>d, <1>1 DEF TreeInv, OneParent
  <2>2. NamesOf(n2, i) = NamesOf(n, i) \ {<<p, m>>}
    BY <1>1, <1>2
  <2> QED BY <2>1, <2>2
<1>5. \A j \in DOMAIN n \ {i} : InTree(n2, j) <=> InTree(n, j)
  BY <1>d, <1>3 DEF InTree
<1>6. ~InTree(n2, i)
  BY <1>d, <1>1, <1>4 DEF InTree
<1>7. Whole(n2)
  <2>1. RootIno \in DOMAIN n2 /\ n2[RootIno].kind = "Directory"
    BY <1>d, <1>t DEF Whole
  <2>2. ASSUME NEW a \in DOMAIN n2, NEW b \in DOMAIN n2[a].entries PROVE EntryRight(n2, a, b)
    <3>1. b \in DOMAIN n[a].entries /\ n2[a].entries[b] = n[a].entries[b]
      BY <1>d, <2>2 DEF Restrict
    <3>2. EntryRight(n, a, b)
      BY <1>d, <2>2, <3>1, <1>t DEF Whole
    <3>3. a # i
      BY <1>d, <3>1
    <3> QED BY <1>d, <2>2, <3>1, <3>2, <3>3, <1>5 DEF EntryRight
  <2> QED BY <1>d, <2>1, <2>2 DEF Whole
<1>8. Cardinality(NamesOf(n2, i)) = Cardinality(NamesOf(n, i)) - 1
  BY <1>d, <1>1, <1>2, <1>t, CountsFinite, FS_RemoveElement
<1>9. LinksRight(s2, n2)
  BY <1>d, <1>1, <1>3, <1>8 DEF TreeInv, LinksRight
<1>10. NlinkRight(n2)
  <2> SUFFICES ASSUME NEW j \in DOMAIN n PROVE n2[j].nlink = NlinkOf(n2, j)
    BY <1>d DEF NlinkRight
  <2>0. n[j].nlink = NlinkOf(n, j)
    BY DEF TreeInv, NlinkRight
  <2>1. CASE j = i
    BY <1>d, <2>0, <2>1, <1>6, <1>8 DEF NlinkOf
  <2>3. CASE j = p
    <3>1. Cardinality(SubDirs(n2, p)) =
            IF n[i].kind = "Directory" THEN Cardinality(SubDirs(n, p)) - 1 ELSE Cardinality(SubDirs(n, p))
      <4>1. IsFiniteSet(SubDirs(n, p))
        BY <1>d, <1>t, CountsFinite
      <4>2. Cardinality(SubDirs(n, p) \ {m}) =
              IF m \in SubDirs(n, p) THEN Cardinality(SubDirs(n, p)) - 1 ELSE Cardinality(SubDirs(n, p))
        BY <1>d, <4>1, FS_RemoveElement
      <4>3. SubDirs(n2, p) = SubDirs(n, p) \ {m}
        BY <1>d, <1>2
      <4> QED BY <1>d, <4>2, <4>3, <1>1
    <3>2. n[p].kind = "Directory" /\ InTree(n2, p)
      BY <1>d, <1>1, <1>5 DEF InTree
    <3>3. n[p].nlink = 2 + Cardinality(SubDirs(n, p))
      BY <1>d, <2>0, <2>3, <3>2, <1>1 DEF NlinkOf
    <3>4. NlinkOf(n2, p) = 2 + Cardinality(SubDirs(n2, p))
      BY <1>d, <3>2 DEF NlinkOf
    <3>5. Cardinality(SubDirs(n, p)) \in Nat
      BY <1>d, <1>t, CountsFinite
    <3> QED BY <1>d, <2>3, <3>1, <3>3, <3>4, <3>5
  <2>4. CASE j \notin {i, p}
    <3>1. NlinkOf(n2, j) = NlinkOf(n, j)
      BY <1>d, <2>4, <1>2, <1>3, <1>5 DEF NlinkOf
    <3> QED BY <1>d, <2>0, <2>4, <3>1
  <2> QED BY <1>d, <2>1, <2>3, <2>4
<1>11. OneParent(s2, n2)
  BY <1>d, <1>2 DEF TreeInv, OneParent
<1>12. NoLoop(s2, n2)
  <2> SUFFICES ASSUME NEW S \in SUBSET {j \in DOMAIN n2 : n2[j].kind = "Directory" /\ NamesOf(n2, j) # {}},
                      S # {}, \A j \in S : s2[j].parent \in S
               PROVE  FALSE
    BY <1>d DEF NoLoop
  <2>1. S \in SUBSET {j \in DOMAIN n : n[j].kind = "Directory" /\ NamesOf(n, j) # {}}
    BY <1>d, <1>2
  <2> QED BY <1>d, <2>1 DEF TreeInv, NoLoop
<1> QED BY <1>d, <1>7, <1>9, <1>10, <1>11, <1>12 DEF TreeInv

\* A file or a directory gets another name for the one it had.  A directory does
\* not move below itself: T, the directories above its new place, is without it.
LEMMA MoveTree ==
  ASSUME NEW s, NEW n, NEW s2, NEW n1, NEW n2, TreeInv(s, n), Tables(s2, n2),
         NEW p \in DOMAIN n, NEW m \in DOMAIN n[p].entries, NEW i, i = n[p].entries[m].id,
         NEW q, InTree(n, q), NEW l \in Names,
         Lost(n, n1, p, m), Gained(n1, n2, q, l, [id |-> i, kind |-> n[i].kind]),
         MoveCounted(s, n, s2, n2, p, i, q), NEW T, Above(s, T, q, i)
  PROVE  TreeInv(s2, n2)
<1> USE DEF MoveCounted, Above
<1> DEFINE e == [id |-> i, kind |-> n[i].kind]
<1>e. e.id = i /\ e.kind = n[i].kind /\ Gained(n1, n2, q, l, e)
  OBVIOUS
<1> HIDE DEF e
<1>d. DOMAIN n1 = DOMAIN n /\ DOMAIN n2 = DOMAIN n
  BY <1>e DEF Lost, Gained
<1>l. /\ n1[p].entries = Restrict(n[p].entries, DOMAIN n[p].entries \ {m})
      /\ \A j \in DOMAIN n \ {p} : n1[j].entries = n[j].entries
  BY DEF Lost
<1>g. /\ l \notin DOMAIN n1[q].entries /\ n2[q].entries = With(n1[q].entries, l, e)
      /\ \A j \in DOMAIN n \ {q} : n2[j].entries = n1[j].entries
  BY <1>e, <1>d DEF Gained
<1>t. Tables(s, n) /\ Whole(n)
  BY DEF TreeInv
<1>q. q \in DOMAIN n /\ n[q].kind = "Directory"
  BY DEF InTree
<1>1. /\ InTree(n, p) /\ i \in DOMAIN n \ {RootIno} /\ i # p /\ m \in Names
      /\ <<p, m>> \in NamesOf(n, i) /\ \A j \in DOMAIN n \ {i} : <<p, m>> \notin NamesOf(n, j)
      /\ n[i].kind = "Directory" => m \in SubDirs(n, p)
      /\ n[i].kind # "Directory" => m \notin SubDirs(n, p)
  BY EntryThere
<1>2. ASSUME NEW j
      PROVE  NamesOf(n2, j) = IF j = i THEN (NamesOf(n, j) \ {<<p, m>>}) \cup {<<q, l>>}
                                       ELSE NamesOf(n, j) \ {<<p, m>>}
  <2>1. NamesOf(n1, j) = NamesOf(n, j) \ {<<p, m>>}
    BY NamesLost
  <2>2. NamesOf(n2, j) = IF j = e.id THEN NamesOf(n1, j) \cup {<<q, l>>} ELSE NamesOf(n1, j)
    <3>1. q \in DOMAIN n1 /\ Gained(n1, n2, q, l, e)
      BY <1>e, <1>d, <1>q
    <3> QED BY <3>1, NamesGained
  <2> QED BY <2>1, <2>2, <1>e
<1>3. ASSUME NEW j \in DOMAIN n \ {i} PROVE NamesOf(n2, j) = NamesOf(n, j)
  <2>1. <<p, m>> \notin NamesOf(n, j)
    BY <1>1, <1>3
  <2>2. NamesOf(n2, j) = NamesOf(n, j) \ {<<p, m>>}
    BY <1>2, <1>3
  <2> QED BY <2>1, <2>2
<1>4. NamesOf(n2, i) = (NamesOf(n, i) \ {<<p, m>>}) \cup {<<q, l>>}
  BY <1>2
<1>5. Cardinality(NamesOf(n2, i)) = Cardinality(NamesOf(n, i))
  <2> DEFINE rest == NamesOf(n, i) \ {<<p, m>>}
  <2>1. IsFiniteSet(NamesOf(n, i)) /\ Cardinality(NamesOf(n, i)) \in Nat
    BY <1>t, CountsFinite
  <2>2. IsFiniteSet(rest) /\ Cardinality(rest) = Cardinality(NamesOf(n, i)) - 1
    BY <2>1, <1>1, FS_RemoveElement
  <2>3. <<q, l>> \notin rest
    <3>1. rest = NamesOf(n1, i)
      BY NamesLost
    <3> QED BY <3>1, <1>g DEF NamesOf
  <2>4. Cardinality(rest \cup {<<q, l>>}) = Cardinality(rest) + 1
    BY <2>2, <2>3, FS_AddElement
  <2> QED BY <2>1, <2>2, <2>4, <1>4
<1>6. ASSUME NEW j \in DOMAIN n PROVE InTree(n2, j) <=> InTree(n, j)
  <2>1. CASE j = i
    BY <2>1, <1>1, <1>4, <1>d DEF InTree
  <2>2. CASE j # i
    BY <2>2, <1>3, <1>d DEF InTree
  <2> QED BY <2>1, <2>2
<1>7. Whole(n2)
  <2>1. RootIno \in DOMAIN n2 /\ n2[RootIno].kind = "Directory"
    BY <1>d, <1>t DEF Whole
  <2>2. ASSUME NEW a \in DOMAIN n2, NEW b \in DOMAIN n2[a].entries PROVE EntryRight(n2, a, b)
    <3>1. CASE a = q /\ b = l
      <4>1. n2[q].entries[l] = e
        BY <1>g DEF With
      <4>2. n2[i].kind = n[i].kind /\ i \in DOMAIN n2 \ {RootIno} /\ InTree(n2, q)
        BY <1>1, <1>6, <1>d, <1>q
      <4> QED BY <3>1, <4>1, <4>2, <1>e DEF EntryRight
    <3>2. CASE ~(a = q /\ b = l)
      <4>1. b \in DOMAIN n1[a].entries /\ n2[a].entries[b] = n1[a].entries[b]
        BY <1>d, <1>g, <2>2, <3>2 DEF With
      <4>2. b \in DOMAIN n[a].entries /\ n1[a].entries[b] = n[a].entries[b]
        BY <1>d, <1>l, <2>2, <4>1 DEF Restrict
      <4>3. EntryRight(n, a, b)
        BY <1>d, <2>2, <4>2, <1>t DEF Whole
      <4> QED BY <1>d, <2>2, <4>1, <4>2, <4>3, <1>6 DEF EntryRight
    <3> QED BY <3>1, <3>2
  <2> QED BY <2>1, <2>2 DEF Whole
<1>8. LinksRight(s2, n2)
  BY <1>d, <1>1, <1>3, <1>5 DEF TreeInv, LinksRight
<1>9. NlinkRight(n2)
  <2> SUFFICES ASSUME NEW j \in DOMAIN n PROVE n2[j].nlink = NlinkOf(n2, j)
    BY <1>d DEF NlinkRight
  <2>0. n[j].nlink = NlinkOf(n, j) /\ n[j].nlink \in Nat
    BY <1>t, NodeShape DEF TreeInv, NlinkRight
  <2>1. CASE j \notin {p, q}
    <3>1. SubDirs(n2, j) = SubDirs(n, j)
      BY <2>1, <1>l, <1>g DEF SubDirs
    <3>2. Cardinality(NamesOf(n2, j)) = Cardinality(NamesOf(n, j))
      BY <1>3, <1>5
    <3>3. NlinkOf(n2, j) = NlinkOf(n, j)
      BY <3>1, <3>2, <1>6 DEF NlinkOf
    <3> QED BY <2>0, <2>1, <3>3
  <2>2. CASE j \in {p, q}
    <3>1. n[j].kind = "Directory" /\ InTree(n, j) /\ InTree(n2, j) /\ n2[j].kind = "Directory"
      BY <2>2, <1>1, <1>q, <1>6 DEF InTree
    <3>2. NlinkOf(n, j) = 2 + Cardinality(SubDirs(n, j)) /\ NlinkOf(n2, j) = 2 + Cardinality(SubDirs(n2, j))
      BY <3>1 DEF NlinkOf
    <3>3. IsFiniteSet(SubDirs(n, j)) /\ Cardinality(SubDirs(n, j)) \in Nat
      BY <1>t, CountsFinite
    <3>4. SubDirs(n1, j) = IF j = p THEN SubDirs(n, j) \ {m} ELSE SubDirs(n, j)
      <4>1. CASE j = p
        BY <4>1, <1>l DEF SubDirs, Restrict
      <4>2. CASE j # p
        BY <4>2, <1>l DEF SubDirs
      <4> QED BY <4>1, <4>2
    <3>5. SubDirs(n2, j) = IF j = q /\ n[i].kind = "Directory" THEN SubDirs(n1, j) \cup {l} ELSE SubDirs(n1, j)
      <4>1. CASE j = q
        BY <4>1, <1>g, <1>e DEF SubDirs, With
      <4>2. CASE j # q
        BY <4>2, <1>g DEF SubDirs
      <4> QED BY <4>1, <4>2
    <3>6. j = q => l \notin SubDirs(n1, j)
      BY <1>g DEF SubDirs
    <3>7. /\ IsFiniteSet(SubDirs(n1, j))
          /\ Cardinality(SubDirs(n1, j)) =
               IF j = p /\ n[i].kind = "Directory" THEN Cardinality(SubDirs(n, j)) - 1
                                                  ELSE Cardinality(SubDirs(n, j))
      <4>1. CASE j = p
        <5>1. /\ IsFiniteSet(SubDirs(n, j) \ {m})
              /\ Cardinality(SubDirs(n, j) \ {m}) =
                   IF m \in SubDirs(n, j) THEN Cardinality(SubDirs(n, j)) - 1 ELSE Cardinality(SubDirs(n, j))
          BY <3>3, FS_RemoveElement
        <5>2. SubDirs(n1, j) = SubDirs(n, j) \ {m}
          BY <4>1, <3>4
        <5>3. m \in SubDirs(n, j) <=> n[i].kind = "Directory"
          BY <4>1, <1>1
        <5> QED BY <4>1, <5>1, <5>2, <5>3
      <4>2. CASE j # p
        BY <4>2, <3>3, <3>4
      <4> QED BY <4>1, <4>2
    <3>8. Cardinality(SubDirs(n2, j)) =
            IF j = q /\ n[i].kind = "Directory" THEN Cardinality(SubDirs(n1, j)) + 1
                                               ELSE Cardinality(SubDirs(n1, j))
      <4>1. l \notin SubDirs(n1, j) => Cardinality(SubDirs(n1, j) \cup {l}) = Cardinality(SubDirs(n1, j)) + 1
        BY <3>7, FS_AddElement
      <4>2. CASE j = q /\ n[i].kind = "Directory"
        BY <4>1, <4>2, <3>5, <3>6
      <4>3. CASE ~(j = q /\ n[i].kind = "Directory")
        BY <4>3, <3>5
      <4> QED BY <4>2, <4>3
    <3>9. n2[j].nlink =
            IF n[i].kind # "Directory" \/ p = q THEN n[j].nlink
            ELSE IF j = p THEN n[j].nlink - 1 ELSE IF j = q THEN n[j].nlink + 1 ELSE n[j].nlink
      OBVIOUS
    <3>10. CASE n[i].kind # "Directory"
      BY <3>10, <3>9, <2>0, <3>2, <3>7, <3>8
    <3>11. CASE n[i].kind = "Directory" /\ p = q
      BY <3>11, <3>9, <2>0, <2>2, <3>2, <3>3, <3>7, <3>8
    <3>12. CASE n[i].kind = "Directory" /\ p # q
      BY <3>12, <3>9, <2>0, <2>2, <3>2, <3>3, <3>7, <3>8
    <3> QED BY <3>10, <3>11, <3>12
  <2> QED BY <2>1, <2>2
<1>10. OneParent(s2, n2)
  <2> SUFFICES ASSUME NEW j \in DOMAIN n, n[j].kind = "Directory",
                      NEW d \in NamesOf(n2, j), NEW f \in NamesOf(n2, j)
               PROVE  d = f /\ d[1] = s2[j].parent
    BY <1>d DEF OneParent
  <2>1. CASE j = i
    <3>1. \A c \in NamesOf(n, i) : c = <<p, m>>
      BY <2>1, <1>1 DEF TreeInv, OneParent
    <3>2. d = <<q, l>> /\ f = <<q, l>>
      BY <2>1, <3>1, <1>4
    <3> QED BY <2>1, <3>2
  <2>2. CASE j # i
    BY <2>2, <1>3 DEF TreeInv, OneParent
  <2> QED BY <2>1, <2>2
<1>11. NoLoop(s2, n2)
  <2> SUFFICES ASSUME NEW S \in SUBSET {j \in DOMAIN n2 : n2[j].kind = "Directory" /\ NamesOf(n2, j) # {}},
                      S # {}, \A j \in S : s2[j].parent \in S
               PROVE  FALSE
    BY DEF NoLoop
  <2>1. \A j \in S : j \in DOMAIN n /\ n[j].kind = "Directory" /\ NamesOf(n, j) # {}
    BY <1>d, <1>1, <1>3
  <2>2. CASE i \notin S
    <3>1. \A j \in S : s[j].parent \in S
      BY <2>1, <2>2
    <3> QED BY <2>1, <3>1 DEF TreeInv, NoLoop
  <2>3. CASE i \in S
    <3> DEFINE U == S \cap T
    <3>1. q \in U
      BY <2>1, <2>3
    <3>2. ASSUME NEW j \in U PROVE s[j].parent \in U
      <4>1. j # RootIno
        BY <2>1, ParentInTree
      <4>2. j # i
        OBVIOUS
      <4> QED BY <2>1, <4>1, <4>2
    <3>3. U \in SUBSET {j \in DOMAIN n : n[j].kind = "Directory" /\ NamesOf(n, j) # {}}
      BY <2>1
    <3> HIDE DEF U
    <3> QED BY <3>1, <3>2, <3>3 DEF TreeInv, NoLoop
  <2> QED BY <2>2, <2>3
<1> QED BY <1>7, <1>8, <1>9, <1>10, <1>11 DEF TreeInv

\* References that the kernel takes and gives back are not part of it.
LEMMA KeepTree ==
  ASSUME NEW s, NEW n, NEW s2, TreeInv(s, n), Tables(s2, n),
         \A j \in DOMAIN n : s2[j].links = s[j].links /\ s2[j].parent = s[j].parent
  PROVE  TreeInv(s2, n)
<1>1. LinksRight(s2, n)
  BY DEF TreeInv, LinksRight
<1>2. OneParent(s2, n)
  BY DEF TreeInv, OneParent
<1>3. NoLoop(s2, n)
  <2> SUFFICES ASSUME NEW S \in SUBSET {j \in DOMAIN n : n[j].kind = "Directory" /\ NamesOf(n, j) # {}}, S # {}
               PROVE  \E j \in S : s2[j].parent \notin S
    BY DEF NoLoop
  <2>1. PICK j \in S : s[j].parent \notin S
    BY DEF TreeInv, NoLoop
  <2> QED BY <2>1
<1> QED BY <1>1, <1>2, <1>3 DEF TreeInv

\* A node that nothing names yet.
LEMMA FreshTree ==
  ASSUME NEW s, NEW n, TreeInv(s, n), NEW i \in Ids \ DOMAIN n,
         NEW x \in SlotRecs, x.links = 0, NEW y \in NodeRecs, y.nlink = 0, DOMAIN y.entries = {},
         NEW s2, NEW n2, s2 = With(s, i, x), n2 = With(n, i, y)
  PROVE  TreeInv(s2, n2) /\ NamesOf(n2, i) = {} /\ \A j : NamesOf(n2, j) = NamesOf(n, j)
<1>t. Tables(s, n) /\ Whole(n)
  BY DEF TreeInv
<1>1. /\ DOMAIN n2 = DOMAIN n \cup {i} /\ DOMAIN s2 = DOMAIN n \cup {i}
      /\ n2[i] = y /\ s2[i] = x
      /\ \A j \in DOMAIN n : n2[j] = n[j] /\ s2[j] = s[j]
  BY <1>t DEF With, Tables
<1>2. Tables(s2, n2)
  BY <1>t DEF With, Tables
<1>3. ASSUME NEW j PROVE NamesOf(n2, j) = NamesOf(n, j)
  BY <1>1 DEF NamesOf
<1>4. NamesOf(n, i) = {} /\ i # RootIno
  BY <1>t DEF NamesOf, Whole, EntryRight
<1>5. \A j \in DOMAIN n : (InTree(n2, j) <=> InTree(n, j)) /\ SubDirs(n2, j) = SubDirs(n, j)
  BY <1>1, <1>3 DEF InTree, SubDirs
<1>6. ~InTree(n2, i)
  BY <1>3, <1>4 DEF InTree
<1>7. Whole(n2)
  <2>1. RootIno \in DOMAIN n2 /\ n2[RootIno].kind = "Directory"
    BY <1>1, <1>t DEF Whole
  <2>2. ASSUME NEW a \in DOMAIN n2, NEW b \in DOMAIN n2[a].entries PROVE EntryRight(n2, a, b)
    <3>1. a \in DOMAIN n /\ b \in DOMAIN n[a].entries
      BY <1>1, <2>2
    <3>2. EntryRight(n, a, b)
      BY <3>1, <1>t DEF Whole
    <3> QED BY <3>1, <3>2, <1>1, <1>5 DEF EntryRight
  <2> QED BY <2>1, <2>2 DEF Whole
<1>8. LinksRight(s2, n2)
  <2> SUFFICES ASSUME NEW j \in DOMAIN n2
               PROVE  s2[j].links = IF j = RootIno THEN 1 ELSE Cardinality(NamesOf(n2, j))
    BY DEF LinksRight
  <2>1. CASE j = i
    BY <2>1, <1>1, <1>3, <1>4, FS_EmptySet
  <2>2. CASE j # i
    BY <2>2, <1>1, <1>3 DEF TreeInv, LinksRight
  <2> QED BY <2>1, <2>2
<1>9. NlinkRight(n2)
  <2> SUFFICES ASSUME NEW j \in DOMAIN n2 PROVE n2[j].nlink = NlinkOf(n2, j)
    BY DEF NlinkRight
  <2>1. CASE j = i
    BY <2>1, <1>1, <1>3, <1>4, <1>6, FS_EmptySet DEF NlinkOf
  <2>2. CASE j # i
    <3>1. j \in DOMAIN n /\ n2[j] = n[j] /\ n[j].nlink = NlinkOf(n, j)
      BY <2>2, <1>1 DEF TreeInv, NlinkRight
    <3> QED BY <3>1, <1>3, <1>5 DEF NlinkOf
  <2> QED BY <2>1, <2>2
<1>10. OneParent(s2, n2)
  BY <1>1, <1>3, <1>4 DEF TreeInv, OneParent
<1>11. NoLoop(s2, n2)
  <2> SUFFICES ASSUME NEW S \in SUBSET {j \in DOMAIN n2 : n2[j].kind = "Directory" /\ NamesOf(n2, j) # {}}, S # {}
               PROVE  \E j \in S : s2[j].parent \notin S
    BY DEF NoLoop
  <2>1. \A j \in S : j \in DOMAIN n /\ n[j].kind = "Directory" /\ NamesOf(n, j) # {}
    BY <1>1, <1>3, <1>4
  <2>2. PICK j \in S : s[j].parent \notin S
    BY <2>1 DEF TreeInv, NoLoop
  <2> QED BY <2>1, <2>2, <1>1
<1> QED BY <1>2, <1>3, <1>4, <1>7, <1>8, <1>9, <1>10, <1>11 DEF TreeInv

\* Commit drops what has no name and no reference, and with it no entry.
LEMMA CommitTree == ASSUME NEW s, NEW n, TreeInv(s, n), Commit(s, n) PROVE MemoryInv'
<1> DEFINE L == {i \in DOMAIN s : s[i].links > 0 \/ s[i].lookups > 0}
<1>t. Tables(s, n) /\ Whole(n)
  BY DEF TreeInv
<1>1. /\ DOMAIN slot' = L /\ DOMAIN node' = L
      /\ \A j \in L : slot'[j] = s[j] /\ node'[j] = n[j]
      /\ L \subseteq DOMAIN n
  BY <1>t DEF Commit, Restrict, Tables
<1>2. ASSUME NEW j \in DOMAIN n \ L PROVE NamesOf(n, j) = {} /\ j # RootIno /\ DOMAIN n[j].entries = {}
  <2>1. s[j].links = 0
    BY <1>t, NodeShape DEF Tables
  <2>2. j # RootIno /\ Cardinality(NamesOf(n, j)) = 0
    BY <2>1 DEF TreeInv, LinksRight
  <2>3. NamesOf(n, j) = {}
    BY <2>2, <1>t, CountsFinite, FS_EmptySet
  <2>4. ~InTree(n, j)
    BY <2>2, <2>3 DEF InTree
  <2> QED BY <2>2, <2>3, <2>4, <1>t, OutsideEmpty
<1>3. Tables(slot, node)'
  BY <1>t DEF Commit, Restrict, Tables
<1> HIDE DEF L
<1>4. ASSUME NEW j PROVE NamesOf(node', j) = NamesOf(n, j)
  BY <1>1, <1>2 DEF NamesOf
<1>5. \A j \in L : (InTree(node', j) <=> InTree(n, j)) /\ SubDirs(node', j) = SubDirs(n, j)
  BY <1>1, <1>4 DEF InTree, SubDirs
<1>6. Whole(node')
  <2>1. RootIno \in DOMAIN node' /\ node'[RootIno].kind = "Directory"
    BY <1>1, <1>2, <1>t DEF Whole
  <2>2. ASSUME NEW a \in DOMAIN node', NEW b \in DOMAIN node'[a].entries PROVE EntryRight(node', a, b)
    <3>1. a \in L /\ a \in DOMAIN n /\ b \in DOMAIN n[a].entries /\ node'[a] = n[a]
      BY <1>1, <2>2
    <3>2. EntryRight(n, a, b) /\ b \in Names
      BY <3>1, <1>t, NodeShape DEF Whole
    <3>3. <<a, b>> \in NamesOf(n, n[a].entries[b].id)
      BY <3>1, <3>2 DEF NamesOf
    <3>4. n[a].entries[b].id \in L
      BY <3>2, <3>3, <1>2 DEF EntryRight
    <3> QED BY <3>1, <3>2, <3>4, <1>1, <1>5 DEF EntryRight
  <2> QED BY <2>1, <2>2 DEF Whole
<1>7. LinksRight(slot', node')
  BY <1>1, <1>4 DEF TreeInv, LinksRight
<1>8. NlinkRight(node')
  <2> SUFFICES ASSUME NEW j \in L PROVE node'[j].nlink = NlinkOf(node', j)
    BY <1>1 DEF NlinkRight
  <2>1. node'[j] = n[j] /\ n[j].nlink = NlinkOf(n, j)
    BY <1>1 DEF TreeInv, NlinkRight
  <2> QED BY <2>1, <1>4, <1>5 DEF NlinkOf
<1>9. OneParent(slot', node')
  BY <1>1, <1>4 DEF TreeInv, OneParent
<1>10. NoLoop(slot', node')
  <2> SUFFICES ASSUME NEW S \in SUBSET {j \in DOMAIN node' : node'[j].kind = "Directory" /\ NamesOf(node', j) # {}},
                      S # {}
               PROVE  \E j \in S : slot'[j].parent \notin S
    BY DEF NoLoop
  <2>1. \A j \in S : j \in L /\ j \in DOMAIN n /\ n[j].kind = "Directory" /\ NamesOf(n, j) # {}
    BY <1>1, <1>4
  <2>2. PICK j \in S : s[j].parent \notin S
    BY <2>1 DEF TreeInv, NoLoop
  <2> QED BY <2>1, <2>2, <1>1
<1>11. ASSUME NEW j \in DOMAIN node' \ {RootIno} PROVE NamesOf(node', j) # {} \/ slot'[j].lookups > 0
  <2>1. j \in L /\ j \in DOMAIN n /\ slot'[j] = s[j]
    BY <1>1
  <2>2. s[j].links > 0 \/ s[j].lookups > 0
    BY <2>1 DEF L
  <2>3. s[j].links = Cardinality(NamesOf(n, j))
    BY <2>1 DEF TreeInv, LinksRight
  <2>4. NamesOf(n, j) = {} => s[j].links = 0
    BY <2>3, FS_EmptySet
  <2> QED BY <2>1, <2>2, <2>4, <1>4
<1> QED BY <1>3, <1>6, <1>7, <1>8, <1>9, <1>10, <1>11 DEF MemoryInv, TreeInv

-----------------------------------------------------------------------------
(* The requests keep it *)

LEMMA MapWith ==
  ASSUME NEW g \in EntryMaps, NEW m \in Names, NEW e \in EntryRecs
  PROVE  With(g, m, e) \in EntryMaps
<1>1. PICK N \in SUBSET Names : g \in [N -> EntryRecs]
  BY DEF EntryMaps
<1>2. With(g, m, e) \in [N \cup {m} -> EntryRecs]
  BY <1>1 DEF With
<1>3. N \cup {m} \in SUBSET Names
  BY <1>1
<1> QED BY <1>2, <1>3 DEF EntryMaps

LEMMA MapRestrict ==
  ASSUME NEW g \in EntryMaps, NEW m PROVE Restrict(g, DOMAIN g \ {m}) \in EntryMaps
<1>1. PICK N \in SUBSET Names : g \in [N -> EntryRecs]
  BY DEF EntryMaps
<1>2. Restrict(g, DOMAIN g \ {m}) \in [N \ {m} -> EntryRecs]
  BY <1>1 DEF Restrict
<1>3. N \ {m} \in SUBSET Names
  BY <1>1
<1> QED BY <1>2, <1>3 DEF EntryMaps

\* link_into and remove, field by field.
WithEntry(n, n2, p, m, e) ==
  /\ n2 \in [DOMAIN n -> NodeRecs]
  /\ n2[p].kind = n[p].kind /\ n2[p].entries = With(n[p].entries, m, e)
  /\ n2[p].nlink = (IF e.kind = "Directory" THEN n[p].nlink + 1 ELSE n[p].nlink)
  /\ \A j \in DOMAIN n \ {p} : n2[j] = n[j]

WithoutEntry(n, n2, p, m) ==
  /\ n2 \in [DOMAIN n -> NodeRecs]
  /\ n2[p].kind = n[p].kind /\ n2[p].nlink = n[p].nlink
  /\ n2[p].entries = Restrict(n[p].entries, DOMAIN n[p].entries \ {m})
  /\ \A j \in DOMAIN n \ {p} : n2[j] = n[j]

LEMMA LinkedInto ==
  ASSUME NEW s, NEW n, Tables(s, n), NEW p \in DOMAIN n, NEW m \in Names, NEW e \in EntryRecs,
         NEW n2, n2 = link_into(n, p, m, e)
  PROVE  WithEntry(n, n2, p, m, e)
<1>1. n \in [DOMAIN n -> NodeRecs]
  BY DEF Tables
<1>2. n[p] \in NodeRecs /\ n[p].entries \in EntryMaps /\ n[p].nlink \in Nat
  BY NodeShape
<1>3. With(n[p].entries, m, e) \in EntryMaps
  BY <1>2, MapWith
<1> DEFINE g == With(n[p].entries, m, e)
           k == IF e.kind = "Directory" THEN n[p].nlink + 1 ELSE n[p].nlink
<1>4. n2 = [n EXCEPT ![p] = [n[p] EXCEPT !.entries = g, !.nlink = k]]
  BY <1>1, <1>2 DEF link_into, NodeRecs
<1>5. k \in Nat /\ g \in EntryMaps
  BY <1>2, <1>3
<1> HIDE DEF g, k
<1>6. [n[p] EXCEPT !.entries = g, !.nlink = k] \in NodeRecs
  BY <1>2, <1>5 DEF NodeRecs
<1>7. n2 \in [DOMAIN n -> NodeRecs] /\ \A j \in DOMAIN n \ {p} : n2[j] = n[j]
  BY <1>1, <1>4, <1>6
<1>8. n2[p].kind = n[p].kind /\ n2[p].entries = g /\ n2[p].nlink = k
  BY <1>1, <1>2, <1>4 DEF NodeRecs
<1> QED BY <1>7, <1>8 DEF WithEntry, g, k

LEMMA Removed ==
  ASSUME NEW s, NEW n, Tables(s, n), NEW p \in DOMAIN n, NEW m, NEW n2, n2 = remove(n, p, m)
  PROVE  WithoutEntry(n, n2, p, m)
<1>1. n \in [DOMAIN n -> NodeRecs]
  BY DEF Tables
<1>2. n[p] \in NodeRecs /\ n[p].entries \in EntryMaps
  BY NodeShape
<1>3. Restrict(n[p].entries, DOMAIN n[p].entries \ {m}) \in EntryMaps
  BY <1>2, MapRestrict
<1> QED BY <1>1, <1>2, <1>3 DEF WithoutEntry, remove, NodeRecs

\* What the guards of the requests say of the tree.
LEMMA InTheTree == ASSUME MemoryInv, NEW p, Directory(p) PROVE InTree(node, p)
<1>1. Tables(slot, node)
  BY DEF MemoryInv, TreeInv
<1>2. CASE p # RootIno
  <2>1. PICK a \in DOMAIN node : \E b \in DOMAIN node[a].entries : Entry(a, b).id = p
    BY <1>2 DEF Directory, Linked
  <2>2. PICK b \in DOMAIN node[a].entries : Entry(a, b).id = p
    BY <2>1
  <2>3. b \in Names
    BY <1>1, <2>2, NodeShape
  <2>4. <<a, b>> \in NamesOf(node, p)
    BY <2>1, <2>2, <2>3 DEF NamesOf, Entry
  <2> QED BY <2>4 DEF InTree, Directory, IsDir
<1>3. CASE p = RootIno
  BY <1>3 DEF InTree, Directory, IsDir
<1> QED BY <1>2, <1>3

\* Entry n of directory p is the name of node i, and is counted.
NameOf(p, n, i) ==
  /\ p \in DOMAIN node /\ n \in DOMAIN node[p].entries /\ i = node[p].entries[n].id /\ n \in Names
  /\ i \in DOMAIN node \ {RootIno} /\ i # p /\ node[p].entries[n].kind = node[i].kind
  /\ <<p, n>> \in NamesOf(node, i) /\ \A j \in DOMAIN node \ {i} : <<p, n>> \notin NamesOf(node, j)
  /\ slot[i].links \in Nat \ {0} /\ node[i].nlink \in Nat \ {0}
  /\ node[i].kind = "Directory" => node[p].nlink \in Nat \ {0, 1, 2} /\ slot[i].parent = p

LEMMA EntryHere ==
  ASSUME MemoryInv, NEW p, NEW n, HasEntry(p, n), NEW i, i = Entry(p, n).id
  PROVE  NameOf(p, n, i)
<1>1. TreeInv(slot, node) /\ Tables(slot, node)
  BY DEF MemoryInv, TreeInv
<1>2. p \in DOMAIN node /\ n \in DOMAIN node[p].entries /\ i = node[p].entries[n].id
  BY DEF HasEntry, Entry
<1>3. /\ i \in DOMAIN node \ {RootIno} /\ n \in Names
      /\ node[p].entries[n].kind = node[i].kind
      /\ <<p, n>> \in NamesOf(node, i) /\ \A j \in DOMAIN node \ {i} : <<p, n>> \notin NamesOf(node, j)
      /\ slot[i].links >= 1 /\ node[i].nlink >= 1
      /\ node[i].kind = "Directory" => node[p].nlink >= 3
      /\ i # p
  BY <1>1, <1>2, EntryThere
<1>4. slot[i].links \in Nat /\ node[i].nlink \in Nat /\ node[p].nlink \in Nat
  BY <1>1, <1>2, <1>3, NodeShape
<1>5. node[i].kind = "Directory" => <<p, n>>[1] = slot[i].parent
  BY <1>1, <1>3 DEF TreeInv, OneParent
<1> QED BY <1>2, <1>3, <1>4, <1>5 DEF NameOf

LEMMA LookupStep == ASSUME MemoryInv, NEW p, NEW n, Lookup(p, n) PROVE MemoryInv'
<1>0. PICK i : i = Entry(p, n).id
  OBVIOUS
<1> DEFINE s2 == [slot EXCEPT ![i].lookups = @ + 1]
<1>1. TreeInv(slot, node) /\ Tables(slot, node)
  BY DEF MemoryInv, TreeInv
<1>2. i \in DOMAIN node
  <2>1. HasEntry(p, n)
    BY DEF Lookup
  <2>2. NameOf(p, n, i)
    BY <1>0, <2>1, EntryHere
  <2> QED BY <2>2 DEF NameOf
<1>3. slot[i].lookups \in 0..MaxLookups /\ slot[i].lookups < MaxLookups
  BY <1>0, <1>1, <1>2, NodeShape DEF Lookup
<1>4. slot[i].lookups + 1 \in 0..MaxLookups
  BY <1>3, MemoryAssumption
<1>5. Tables(s2, node)
  BY <1>1, <1>2, <1>4 DEF Tables, SlotRecs
<1>6. \A j \in DOMAIN node : s2[j].links = slot[j].links /\ s2[j].parent = slot[j].parent
  BY <1>1, <1>2 DEF Tables, SlotRecs
<1>7. Commit(s2, node)
  BY <1>0 DEF Lookup
<1> HIDE DEF s2
<1>8. TreeInv(s2, node)
  BY <1>1, <1>5, <1>6, KeepTree
<1> QED BY <1>7, <1>8, CommitTree

LEMMA ForgetStep == ASSUME MemoryInv, NEW i, NEW k \in 1..MaxLookups, ForgetInode(i, k) PROVE MemoryInv'
<1> DEFINE s2 == [slot EXCEPT ![i].lookups = @ - k]
<1>1. TreeInv(slot, node) /\ Tables(slot, node)
  BY DEF MemoryInv, TreeInv
<1>2. i \in DOMAIN node /\ k <= slot[i].lookups
  BY <1>1 DEF ForgetInode, Tables
<1>3. slot[i].lookups \in 0..MaxLookups
  BY <1>1, <1>2, NodeShape
<1>4. slot[i].lookups - k \in 0..MaxLookups
  BY <1>2, <1>3, MemoryAssumption
<1>5. Tables(s2, node)
  BY <1>1, <1>2, <1>4 DEF Tables, SlotRecs
<1>6. \A j \in DOMAIN node : s2[j].links = slot[j].links /\ s2[j].parent = slot[j].parent
  BY <1>1, <1>2 DEF Tables, SlotRecs
<1>7. Commit(s2, node)
  BY DEF ForgetInode
<1> HIDE DEF s2
<1>8. TreeInv(s2, node)
  BY <1>1, <1>5, <1>6, KeepTree
<1> QED BY <1>7, <1>8, CommitTree

LEMMA UnlinkStep == ASSUME MemoryInv, NEW p, NEW n, Unlink(p, n) PROVE MemoryInv'
<1>0. PICK i : i = Entry(p, n).id
  OBVIOUS
<1>1. TreeInv(slot, node) /\ Tables(slot, node) /\ Whole(node)
  BY DEF MemoryInv, TreeInv
<1>2. NameOf(p, n, i)
  <2>1. HasEntry(p, n)
    BY DEF Unlink
  <2> QED BY <1>0, <2>1, EntryHere
<1>3. /\ p \in DOMAIN node /\ n \in DOMAIN node[p].entries /\ i = node[p].entries[n].id
      /\ i \in DOMAIN node /\ i # p /\ slot[i].links \in Nat \ {0} /\ node[i].nlink \in Nat \ {0}
  BY <1>2 DEF NameOf
<1>4. node[i].kind # "Directory"
  BY <1>0 DEF Unlink, IsDir
<1>5. PICK r : r = remove(node, p, n)
  OBVIOUS
<1>6. /\ r \in [DOMAIN node -> NodeRecs]
      /\ r[p].kind = node[p].kind /\ r[p].nlink = node[p].nlink
      /\ r[p].entries = Restrict(node[p].entries, DOMAIN node[p].entries \ {n})
      /\ \A j \in DOMAIN node \ {p} : r[j] = node[j]
  <2>1. WithoutEntry(node, r, p, n)
    BY <1>1, <1>3, <1>5, Removed
  <2> QED BY <2>1 DEF WithoutEntry
<1>7. PICK s2 : s2 = [slot EXCEPT ![i].links = slot[i].links - 1]
  OBVIOUS
<1>8. PICK n2 : n2 = [r EXCEPT ![i].nlink = node[i].nlink - 1]
  OBVIOUS
<1>9. Commit(s2, n2)
  <2>1. s2 = [slot EXCEPT ![i].links = Minus1(@)]
    BY <1>1, <1>3, <1>7 DEF Minus1, Tables, SlotRecs
  <2>2. n2 = [r EXCEPT ![i].nlink = Minus1(@)]
    BY <1>3, <1>6, <1>8 DEF Minus1
  <2> QED BY <1>0, <1>5, <2>1, <2>2 DEF Unlink
<1>10. /\ DOMAIN s2 = DOMAIN slot /\ s2 \in [DOMAIN slot -> SlotRecs]
       /\ s2[i].links = slot[i].links - 1
       /\ \A j \in DOMAIN node \ {i} : s2[j].links = slot[j].links
       /\ \A j \in DOMAIN node : s2[j].parent = slot[j].parent
  <2>1. slot \in [DOMAIN slot -> SlotRecs] /\ slot[i].links - 1 \in Nat /\ slot[i] \in SlotRecs
    BY <1>1, <1>3 DEF Tables
  <2>2. s2 = [slot EXCEPT ![i] = [slot[i] EXCEPT !.links = slot[i].links - 1]]
    BY <1>7
  <2>3. [slot[i] EXCEPT !.links = slot[i].links - 1] \in SlotRecs
    BY <2>1 DEF SlotRecs
  <2>4. DOMAIN node = DOMAIN slot
    BY <1>1 DEF Tables
  <2> QED BY <2>1, <2>2, <2>3, <2>4, <1>3 DEF SlotRecs
<1>11. /\ DOMAIN n2 = DOMAIN node /\ n2 \in [DOMAIN node -> NodeRecs]
       /\ n2[i].nlink = node[i].nlink - 1 /\ n2[i].entries = node[i].entries /\ n2[i].kind = node[i].kind
       /\ \A j \in DOMAIN node \ {i} : n2[j] = r[j]
  <2>1. r[i] = node[i] /\ r[i] \in NodeRecs /\ node[i].nlink - 1 \in Nat
    BY <1>3, <1>6
  <2>2. [r[i] EXCEPT !.nlink = node[i].nlink - 1] \in NodeRecs
    BY <2>1 DEF NodeRecs
  <2>3. n2 = [r EXCEPT ![i] = [r[i] EXCEPT !.nlink = node[i].nlink - 1]]
    BY <1>8
  <2> QED BY <2>1, <2>2, <2>3, <1>3, <1>6 DEF NodeRecs
<1>12. Tables(s2, n2)
  BY <1>1, <1>10, <1>11 DEF Tables
<1>13. Lost(node, n2, p, n)
  BY <1>3, <1>6, <1>11 DEF Lost
<1>14. DOMAIN node[i].entries = {}
  <2>1. ~InTree(node, i)
    BY <1>4 DEF InTree
  <2> QED BY <2>1, <1>1, <1>3, OutsideEmpty
<1>15. /\ \A j \in DOMAIN node : n2[j].kind = node[j].kind /\ s2[j].parent = slot[j].parent
       /\ n2[p].nlink = node[p].nlink
       /\ \A j \in DOMAIN node \ {i, p} : n2[j].nlink = node[j].nlink
  BY <1>3, <1>6, <1>10, <1>11
<1>16. LossCounted(slot, node, s2, n2, p, i)
  BY <1>4, <1>10, <1>11, <1>15 DEF LossCounted
<1>17. TreeInv(s2, n2)
  BY <1>1, <1>3, <1>12, <1>13, <1>14, <1>16, LoseTree
<1> QED BY <1>9, <1>17, CommitTree

LEMMA RmdirStep == ASSUME MemoryInv, NEW p, NEW n, Rmdir(p, n) PROVE MemoryInv'
<1>0. PICK i : i = Entry(p, n).id
  OBVIOUS
<1>1. TreeInv(slot, node) /\ Tables(slot, node)
  BY DEF MemoryInv, TreeInv
<1>2. NameOf(p, n, i)
  <2>1. HasEntry(p, n)
    BY DEF Rmdir
  <2> QED BY <1>0, <2>1, EntryHere
<1>4. node[i].kind = "Directory" /\ DOMAIN node[i].entries = {}
  BY <1>0 DEF Rmdir, IsDir, NoEntries
<1>3. /\ p \in DOMAIN node /\ n \in DOMAIN node[p].entries /\ i = node[p].entries[n].id
      /\ i \in DOMAIN node /\ i # p /\ slot[i].links \in Nat \ {0} /\ node[p].nlink \in Nat \ {0}
  BY <1>2, <1>4 DEF NameOf
<1>5. PICK r : r = remove(node, p, n)
  OBVIOUS
<1>6. /\ r \in [DOMAIN node -> NodeRecs]
      /\ r[p].kind = node[p].kind /\ r[p].nlink = node[p].nlink
      /\ r[p].entries = Restrict(node[p].entries, DOMAIN node[p].entries \ {n})
      /\ \A j \in DOMAIN node \ {p} : r[j] = node[j]
  <2>1. WithoutEntry(node, r, p, n)
    BY <1>1, <1>3, <1>5, Removed
  <2> QED BY <2>1 DEF WithoutEntry
<1>7. PICK s2 : s2 = [slot EXCEPT ![i].links = slot[i].links - 1]
  OBVIOUS
<1>8. PICK n2 : n2 = [r EXCEPT ![p].nlink = node[p].nlink - 1, ![i].nlink = 0]
  OBVIOUS
<1>9. Commit(s2, n2)
  <2>1. s2 = [slot EXCEPT ![i].links = Minus1(@)]
    BY <1>1, <1>3, <1>7 DEF Minus1, Tables, SlotRecs
  <2>2. n2 = [r EXCEPT ![p].nlink = Minus1(@), ![i].nlink = 0]
    BY <1>3, <1>6, <1>8 DEF Minus1
  <2> QED BY <1>0, <1>5, <2>1, <2>2 DEF Rmdir
<1>10. /\ DOMAIN s2 = DOMAIN slot /\ s2 \in [DOMAIN slot -> SlotRecs]
       /\ s2[i].links = slot[i].links - 1
       /\ \A j \in DOMAIN node \ {i} : s2[j].links = slot[j].links
       /\ \A j \in DOMAIN node : s2[j].parent = slot[j].parent
  <2>1. slot \in [DOMAIN slot -> SlotRecs] /\ slot[i].links - 1 \in Nat /\ slot[i] \in SlotRecs
    BY <1>1, <1>3 DEF Tables
  <2>2. s2 = [slot EXCEPT ![i] = [slot[i] EXCEPT !.links = slot[i].links - 1]]
    BY <1>7
  <2>3. [slot[i] EXCEPT !.links = slot[i].links - 1] \in SlotRecs
    BY <2>1 DEF SlotRecs
  <2>4. DOMAIN node = DOMAIN slot
    BY <1>1 DEF Tables
  <2> QED BY <2>1, <2>2, <2>3, <2>4, <1>3 DEF SlotRecs
<1>11. /\ DOMAIN n2 = DOMAIN node /\ n2 \in [DOMAIN node -> NodeRecs]
       /\ n2[i].nlink = 0 /\ n2[i].entries = node[i].entries /\ n2[i].kind = node[i].kind
       /\ n2[p].nlink = node[p].nlink - 1 /\ n2[p].entries = r[p].entries /\ n2[p].kind = node[p].kind
       /\ \A j \in DOMAIN node \ {i, p} : n2[j] = r[j]
  BY <1>3, <1>6, <1>8 DEF NodeRecs
<1>12. Tables(s2, n2)
  BY <1>1, <1>10, <1>11 DEF Tables
<1>13. Lost(node, n2, p, n)
  BY <1>3, <1>6, <1>11 DEF Lost
<1>15. /\ \A j \in DOMAIN node : n2[j].kind = node[j].kind /\ s2[j].parent = slot[j].parent
       /\ \A j \in DOMAIN node \ {i, p} : n2[j].nlink = node[j].nlink
  BY <1>3, <1>6, <1>10, <1>11
<1>16. LossCounted(slot, node, s2, n2, p, i)
  BY <1>4, <1>10, <1>11, <1>15 DEF LossCounted
<1>17. TreeInv(s2, n2)
  BY <1>1, <1>3, <1>4, <1>12, <1>13, <1>16, LoseTree
<1> QED BY <1>9, <1>17, CommitTree

LEMMA LinkStep == ASSUME MemoryInv, NEW i, NEW q, NEW m \in Names, Link(i, q, m) PROVE MemoryInv'
<1>1. TreeInv(slot, node) /\ Tables(slot, node) /\ Whole(node)
  BY DEF MemoryInv, TreeInv
<1>2. InTree(node, q)
  <2>1. Directory(q)
    BY DEF Link
  <2> QED BY <2>1, InTheTree
<1>3. /\ i \in DOMAIN node \ {RootIno} /\ node[i].kind # "Directory" /\ slot[i].lookups \in 1..(MaxLookups - 1)
      /\ q \in DOMAIN node /\ i # q /\ m \notin DOMAIN node[q].entries
  BY <1>1, <1>2 DEF Link, IsDir, NewEntry, Whole, InTree
<1>4. /\ node[i].kind \in Kinds /\ i \in Ids /\ node[i] \in NodeRecs /\ node[i].nlink \in Nat
      /\ slot[i].links \in Nat /\ slot[i] \in SlotRecs
  BY <1>1, <1>3, NodeShape
<1>5. PICK e : e = [id |-> i, kind |-> node[i].kind]
  OBVIOUS
<1>6. e \in EntryRecs /\ e.kind = node[i].kind
  BY <1>4, <1>5 DEF EntryRecs
<1>7. PICK r : r = link_into(node, q, m, e)
  OBVIOUS
<1>8. /\ r \in [DOMAIN node -> NodeRecs]
      /\ r[q].kind = node[q].kind /\ r[q].entries = With(node[q].entries, m, e)
      /\ r[q].nlink = node[q].nlink
      /\ \A j \in DOMAIN node \ {q} : r[j] = node[j]
  <2>1. WithEntry(node, r, q, m, e)
    BY <1>1, <1>3, <1>6, <1>7, LinkedInto
  <2> QED BY <2>1, <1>3, <1>6 DEF WithEntry
<1>9. PICK s2 : s2 = [slot EXCEPT ![i].links = @ + 1, ![i].lookups = @ + 1]
  OBVIOUS
<1>10. PICK n2 : n2 = [r EXCEPT ![i].nlink = @ + 1]
  OBVIOUS
<1>11. Commit(s2, n2)
  BY <1>5, <1>7, <1>9, <1>10 DEF Link
<1>12. /\ DOMAIN s2 = DOMAIN slot /\ s2 \in [DOMAIN slot -> SlotRecs]
       /\ s2[i].links = slot[i].links + 1
       /\ \A j \in DOMAIN node \ {i} : s2[j].links = slot[j].links /\ s2[j].parent = slot[j].parent
  <2>1. slot[i].lookups + 1 \in 0..MaxLookups
    BY <1>3, MemoryAssumption
  <2>2. s2 = [slot EXCEPT ![i] = [slot[i] EXCEPT !.links = slot[i].links + 1, !.lookups = slot[i].lookups + 1]]
    BY <1>1, <1>3, <1>4, <1>9 DEF Tables, SlotRecs
  <2>3. [slot[i] EXCEPT !.links = slot[i].links + 1, !.lookups = slot[i].lookups + 1] \in SlotRecs
    <3>1. ASSUME NEW a \in Nat, NEW b \in 0..MaxLookups
          PROVE  [slot[i] EXCEPT !.links = a, !.lookups = b] \in SlotRecs
      BY <1>4 DEF SlotRecs
    <3>2. slot[i].links + 1 \in Nat
      BY <1>4
    <3> QED BY <2>1, <3>1, <3>2
  <2> QED BY <2>2, <2>3, <1>1, <1>3, <1>4 DEF Tables, SlotRecs
<1>13. /\ DOMAIN n2 = DOMAIN node /\ n2 \in [DOMAIN node -> NodeRecs]
       /\ n2[i].nlink = node[i].nlink + 1 /\ n2[i].entries = node[i].entries /\ n2[i].kind = node[i].kind
       /\ \A j \in DOMAIN node \ {i} : n2[j] = r[j]
  <2>1. r[i] = node[i] /\ node[i].nlink + 1 \in Nat
    BY <1>3, <1>4, <1>8
  <2>2. [r[i] EXCEPT !.nlink = node[i].nlink + 1] \in NodeRecs
    BY <2>1, <1>4 DEF NodeRecs
  <2>3. n2 = [r EXCEPT ![i] = [r[i] EXCEPT !.nlink = node[i].nlink + 1]]
    BY <2>1, <1>10
  <2> QED BY <2>1, <2>2, <2>3, <1>3, <1>4, <1>8 DEF NodeRecs
<1>14. Tables(s2, n2)
  BY <1>1, <1>12, <1>13 DEF Tables
<1>15. Gained(node, n2, q, m, [id |-> i, kind |-> node[i].kind])
  <2>1. Gained(node, n2, q, m, e)
    BY <1>3, <1>8, <1>13 DEF Gained
  <2> QED BY <2>1, <1>5
<1>16. /\ \A j \in DOMAIN node : n2[j].kind = node[j].kind
       /\ n2[q].nlink = node[q].nlink
       /\ \A j \in DOMAIN node \ {i, q} : n2[j].nlink = node[j].nlink
  BY <1>3, <1>8, <1>13
<1>17. TreeInv(s2, n2)
  BY <1>1, <1>2, <1>3, <1>12, <1>13, <1>14, <1>15, <1>16, GainTree
<1> QED BY <1>11, <1>17, CommitTree

LEMMA CreateStep ==
  ASSUME MemoryInv, NEW p, NEW n \in Names, NEW kind \in Kinds, Create(p, n, kind) PROVE MemoryInv'
<1>1. TreeInv(slot, node) /\ Tables(slot, node) /\ Whole(node) /\ DOMAIN node = DOMAIN slot
  BY DEF MemoryInv, TreeInv, Tables
<1>2. InTree(node, p) /\ p \in DOMAIN node /\ n \notin DOMAIN node[p].entries
  <2>1. Directory(p) /\ NewEntry(p, n)
    BY DEF Create
  <2> QED BY <2>1, InTheTree DEF NewEntry
<1>3. PICK i : i = Min(Ids \ DOMAIN slot)
  OBVIOUS
<1>4. i \in Ids \ DOMAIN node
  <2>1. Ids \ DOMAIN slot \in SUBSET Nat /\ Ids \ DOMAIN slot # {}
    <3>1. DOMAIN slot # Ids
      BY DEF Create
    <3>2. DOMAIN slot \subseteq Ids
      BY <1>1 DEF Tables
    <3>3. Ids \subseteq Nat
      BY MemoryAssumption DEF Ids
    <3> QED BY <3>1, <3>2, <3>3
  <2>2. PICK x \in Ids \ DOMAIN slot : \A y \in Ids \ DOMAIN slot : x <= y
    BY <2>1, LeastPlace
  <2> QED BY <2>2, <1>1, <1>3 DEF Min
<1>5. i # RootIno /\ i # p /\ p \in Ids
  BY <1>1, <1>2, <1>4 DEF Whole, Tables
<1>6. PICK e : e = [id |-> i, kind |-> kind]
  OBVIOUS
<1>7. e \in EntryRecs /\ e.kind = kind
  BY <1>4, <1>6 DEF EntryRecs
<1>8. PICK y : y = NewNode(kind)
  OBVIOUS
<1>9. /\ y \in NodeRecs /\ y.kind = kind /\ DOMAIN y.entries = {}
      /\ y.nlink = (IF kind = "Directory" THEN 2 ELSE 1)
  <2>1. NoEntries \in [{} -> EntryRecs] /\ DOMAIN NoEntries = {}
    BY DEF NoEntries
  <2>2. NoEntries \in EntryMaps
    BY <2>1 DEF EntryMaps
  <2> HIDE DEF NoEntries
  <2> QED BY <2>1, <2>2, <1>8 DEF NewNode, NodeRecs
<1>10. PICK y0 : y0 = [y EXCEPT !.nlink = 0]
  OBVIOUS
<1>11. y0 \in NodeRecs /\ y0.nlink = 0 /\ DOMAIN y0.entries = {} /\ y0.kind = kind /\ y0.entries = y.entries
  BY <1>9, <1>10 DEF NodeRecs
<1>12. PICK x0 : x0 = [links |-> 0, lookups |-> 1, parent |-> p]
  OBVIOUS
<1>13. PICK x : x = [links |-> 1, lookups |-> 1, parent |-> p]
  OBVIOUS
<1>14. /\ x0 \in SlotRecs /\ x0.links = 0
       /\ x \in SlotRecs /\ x.links = 1 /\ x.parent = p
  BY <1>5, <1>12, <1>13, MemoryAssumption DEF SlotRecs
<1>15. PICK s1 : s1 = With(slot, i, x0)
  OBVIOUS
<1>16. PICK n1 : n1 = With(node, i, y0)
  OBVIOUS
<1>17. PICK s2 : s2 = With(slot, i, x)
  OBVIOUS
<1>18. PICK r : r = With(node, i, y)
  OBVIOUS
<1>19. TreeInv(s1, n1) /\ NamesOf(n1, i) = {} /\ NamesOf(n1, p) = NamesOf(node, p)
  BY <1>1, <1>4, <1>11, <1>14, <1>15, <1>16, FreshTree
<1>20. /\ DOMAIN s1 = DOMAIN node \cup {i} /\ s1[i] = x0 /\ \A j \in DOMAIN node : s1[j] = slot[j]
       /\ DOMAIN s2 = DOMAIN node \cup {i} /\ s2[i] = x /\ \A j \in DOMAIN node : s2[j] = slot[j]
       /\ s2 \in [DOMAIN node \cup {i} -> SlotRecs]
  BY <1>1, <1>4, <1>14, <1>15, <1>17 DEF With, Tables
<1>21. /\ DOMAIN n1 = DOMAIN node \cup {i} /\ n1[i] = y0 /\ \A j \in DOMAIN node : n1[j] = node[j]
       /\ DOMAIN r = DOMAIN node \cup {i} /\ r[i] = y /\ \A j \in DOMAIN node : r[j] = node[j]
       /\ r \in [DOMAIN node \cup {i} -> NodeRecs]
  BY <1>1, <1>4, <1>9, <1>16, <1>18 DEF With, Tables
<1>22. PICK n2 : n2 = link_into(r, p, n, e)
  OBVIOUS
<1>23. Commit(s2, n2)
  BY <1>3, <1>6, <1>8, <1>13, <1>17, <1>18, <1>22 DEF Create
<1>24. Tables(s2, r)
  BY <1>1, <1>4, <1>20, <1>21 DEF Tables
<1>25. WithEntry(r, n2, p, n, e)
  BY <1>2, <1>7, <1>21, <1>22, <1>24, LinkedInto
<1>26. /\ DOMAIN n2 = DOMAIN n1 /\ n2 \in [DOMAIN n1 -> NodeRecs]
       /\ n2[p].kind = node[p].kind /\ n2[p].entries = With(node[p].entries, n, e)
       /\ n2[p].nlink = (IF kind = "Directory" THEN node[p].nlink + 1 ELSE node[p].nlink)
       /\ n2[i] = y /\ \A j \in DOMAIN node \ {p} : n2[j] = node[j]
  BY <1>2, <1>4, <1>5, <1>7, <1>21, <1>25 DEF WithEntry
<1>27. Tables(s2, n2)
  BY <1>20, <1>21, <1>24, <1>26 DEF Tables
<1>28. Gained(n1, n2, p, n, [id |-> i, kind |-> n1[i].kind])
  <2>1. Gained(n1, n2, p, n, e)
    BY <1>2, <1>4, <1>11, <1>21, <1>26 DEF Gained
  <2>2. e = [id |-> i, kind |-> n1[i].kind]
    BY <1>6, <1>11, <1>21
  <2> QED BY <2>1, <2>2
<1>29. InTree(n1, p)
  BY <1>2, <1>19, <1>21 DEF InTree
<1>30. /\ \A j \in DOMAIN n1 : n2[j].kind = n1[j].kind
       /\ s2[i].links = s1[i].links + 1 /\ s2[i].parent = p
       /\ \A j \in DOMAIN n1 \ {i} : s2[j].links = s1[j].links /\ s2[j].parent = s1[j].parent
  BY <1>2, <1>4, <1>9, <1>11, <1>14, <1>20, <1>21, <1>26
<1>31. /\ n2[i].nlink = (IF n1[i].kind = "Directory" THEN 2 ELSE n1[i].nlink + 1)
       /\ n2[p].nlink = (IF n1[i].kind = "Directory" THEN n1[p].nlink + 1 ELSE n1[p].nlink)
       /\ \A j \in DOMAIN n1 \ {i, p} : n2[j].nlink = n1[j].nlink
  BY <1>2, <1>4, <1>9, <1>11, <1>21, <1>26
<1>32. i \in DOMAIN n1 \ {RootIno}
  BY <1>5, <1>21
<1>33. TreeInv(s2, n2)
  BY <1>19, <1>27, <1>28, <1>29, <1>30, <1>31, <1>32, GainTree
<1> QED BY <1>23, <1>33, CommitTree

\* Entries without n, with m set to e, are those without n and without m, and m.
Without(g, n) == Restrict(g, DOMAIN g \ {n})

LEMMA Replaced ==
  ASSUME NEW g, NEW m, NEW n, m # n, NEW e
  PROVE  With(Without(g, n), m, e) = With(Without(Without(g, m), n), m, e)
BY DEF With, Without, Restrict

\* The tables as rename makes them, before a replaced entry is counted out: r is
\* without the old name, v has the new one, and a directory counts for its new
\* parent.
Retabled(p, n, i, q, m, e, r, v) ==
  /\ v \in [DOMAIN node -> NodeRecs] /\ DOMAIN r = DOMAIN node
  /\ \A j \in DOMAIN node : v[j].kind = node[j].kind
  /\ v[q].entries = With(r[q].entries, m, e)
  /\ \A j \in DOMAIN node \ {q} : v[j].entries = r[j].entries
  /\ r[p].entries = Restrict(node[p].entries, DOMAIN node[p].entries \ {n})
  /\ \A j \in DOMAIN node \ {p} : r[j].entries = node[j].entries
  /\ \A j \in DOMAIN node : v[j].nlink =
       IF node[i].kind # "Directory" \/ p = q THEN node[j].nlink
       ELSE IF j = p THEN node[j].nlink - 1 ELSE IF j = q THEN node[j].nlink + 1 ELSE node[j].nlink

EntryFor(i) == [id |-> i, kind |-> node[i].kind]
Entered(r, q, m, e) == [r EXCEPT ![q].entries = With(@, m, e)]
Recounted(w, p, q, i) ==
  IF IsDir(i) /\ p # q THEN [w EXCEPT ![p].nlink = Minus1(@), ![q].nlink = @ + 1] ELSE w

LEMMA RenameTables ==
  ASSUME MemoryInv, NEW p, NEW n, NEW i, NameOf(p, n, i), NEW q, InTree(node, q), NEW m \in Names,
         NEW e, e = EntryFor(i), NEW r, r = remove(node, p, n), NEW w, w = Entered(r, q, m, e),
         NEW v, v = Recounted(w, p, q, i)
  PROVE  Retabled(p, n, i, q, m, e, r, v)
<1>1. Tables(slot, node) /\ node \in [DOMAIN node -> NodeRecs] /\ q \in DOMAIN node
  BY DEF MemoryInv, TreeInv, Tables, InTree
<1>2. /\ p \in DOMAIN node /\ i \in DOMAIN node
      /\ node[i].kind = "Directory" => node[p].nlink \in Nat \ {0}
  BY DEF NameOf
<1>3. e \in EntryRecs
  <2>1. i \in Ids /\ node[i].kind \in Kinds
    BY <1>1, <1>2, NodeShape
  <2> QED BY <2>1 DEF EntryRecs, EntryFor
<1>4. WithoutEntry(node, r, p, n)
  BY <1>1, <1>2, Removed
<1>5. /\ r \in [DOMAIN node -> NodeRecs] /\ DOMAIN r = DOMAIN node
      /\ r[p].entries = Restrict(node[p].entries, DOMAIN node[p].entries \ {n})
      /\ \A j \in DOMAIN node \ {p} : r[j].entries = node[j].entries
  BY <1>4 DEF WithoutEntry
<1>6. \A j \in DOMAIN node : r[j].kind = node[j].kind /\ r[j].nlink = node[j].nlink
  BY <1>4 DEF WithoutEntry
<1>7. PICK g : g = With(r[q].entries, m, e)
  OBVIOUS
<1>8. g \in EntryMaps
  <2>1. r[q].entries \in EntryMaps
    BY <1>1, <1>5 DEF NodeRecs
  <2> QED BY <2>1, <1>3, <1>7, MapWith
<1>9. w = [r EXCEPT ![q] = [r[q] EXCEPT !.entries = g]] /\ r[q] \in NodeRecs
  BY <1>1, <1>5, <1>7 DEF Entered
<1>10. [r[q] EXCEPT !.entries = g] \in NodeRecs
  BY <1>8, <1>9 DEF NodeRecs
<1>11. /\ w \in [DOMAIN node -> NodeRecs] /\ w[q].entries = g
       /\ \A j \in DOMAIN node \ {q} : w[j].entries = r[j].entries
       /\ \A j \in DOMAIN node : w[j].kind = node[j].kind /\ w[j].nlink = node[j].nlink
  BY <1>1, <1>5, <1>6, <1>9, <1>10 DEF NodeRecs
<1>12. CASE node[i].kind # "Directory" \/ p = q
  <2>1. v = w
    BY <1>12 DEF IsDir, Recounted
  <2> QED BY <2>1, <1>5, <1>7, <1>11, <1>12 DEF Retabled
<1>13. CASE node[i].kind = "Directory" /\ p # q
  <2>1. /\ w[p] \in NodeRecs /\ w[p].nlink = node[p].nlink
        /\ w[q] \in NodeRecs /\ w[q].nlink = node[q].nlink /\ node[q].nlink \in Nat
    BY <1>1, <1>2, <1>11, NodeShape
  <2>2. /\ [w[p] EXCEPT !.nlink = node[p].nlink - 1] \in NodeRecs
        /\ [w[q] EXCEPT !.nlink = node[q].nlink + 1] \in NodeRecs
    <3>1. ASSUME NEW x \in NodeRecs, NEW k \in Nat PROVE [x EXCEPT !.nlink = k] \in NodeRecs
      BY DEF NodeRecs
    <3>2. node[p].nlink - 1 \in Nat /\ node[q].nlink + 1 \in Nat
      BY <1>2, <1>13, <2>1
    <3> QED BY <2>1, <3>1, <3>2
  <2>3. v = [w EXCEPT ![p] = [w[p] EXCEPT !.nlink = node[p].nlink - 1],
                      ![q] = [w[q] EXCEPT !.nlink = node[q].nlink + 1]]
    BY <1>1, <1>2, <1>11, <1>13, <2>1 DEF Recounted, IsDir, Minus1
  <2>4. /\ v \in [DOMAIN node -> NodeRecs] /\ \A j \in DOMAIN node \ {p, q} : v[j] = w[j]
        /\ v[p].nlink = node[p].nlink - 1 /\ v[p].kind = w[p].kind /\ v[p].entries = w[p].entries
        /\ v[q].nlink = node[q].nlink + 1 /\ v[q].kind = w[q].kind /\ v[q].entries = w[q].entries
    BY <1>1, <1>2, <1>11, <1>13, <2>1, <2>2, <2>3 DEF NodeRecs
  <2>5. \A j \in DOMAIN node : v[j].kind = w[j].kind /\ v[j].entries = w[j].entries
    BY <2>4
  <2>6. \A j \in DOMAIN node : v[j].nlink =
          IF j = p THEN node[j].nlink - 1 ELSE IF j = q THEN node[j].nlink + 1 ELSE node[j].nlink
    BY <1>11, <1>13, <2>4
  <2>7. v[q].entries = With(r[q].entries, m, e) /\ \A j \in DOMAIN node \ {q} : v[j].entries = r[j].entries
    BY <2>5, <1>1, <1>7, <1>11
  <2>8. \A j \in DOMAIN node : v[j].kind = node[j].kind
    BY <2>5, <1>11
  <2>9. ~(node[i].kind # "Directory" \/ p = q)
    BY <1>13
  <2> QED BY <2>4, <2>6, <2>7, <2>8, <2>9, <1>5 DEF Retabled
<1> QED BY <1>12, <1>13

LinkLost(u, o) == [u EXCEPT ![o].links = Minus1(@)]
CountLost(v, q, o) ==
  IF node[o].kind = "Directory" THEN [v EXCEPT ![q].nlink = Minus1(@), ![o].nlink = 0]
                                ELSE [v EXCEPT ![o].nlink = Minus1(@)]

\* A directory that moves has its new parent, and nothing else of a slot changes.
LEMMA MovedSlots ==
  ASSUME MemoryInv, NEW p, NEW n, NEW i, NameOf(p, n, i), NEW q \in DOMAIN node, NEW u, u = Moved(p, q, i)
  PROVE  /\ u \in [DOMAIN slot -> SlotRecs]
         /\ \A j \in DOMAIN node : u[j].links = slot[j].links
         /\ \A j \in DOMAIN node \ {i} : u[j].parent = slot[j].parent
         /\ node[i].kind = "Directory" => u[i].parent = q
<1>1. slot \in [DOMAIN slot -> SlotRecs] /\ DOMAIN node = DOMAIN slot /\ q \in Ids
  BY DEF MemoryInv, TreeInv, Tables
<1>2. i \in DOMAIN node /\ (node[i].kind = "Directory" => slot[i].parent = p)
  BY DEF NameOf
<1>3. CASE IsDir(i) /\ p # q
  <2>1. u = [slot EXCEPT ![i].parent = q]
    BY <1>3 DEF Moved
  <2> QED BY <2>1, <1>1, <1>2 DEF SlotRecs
<1>4. CASE ~(IsDir(i) /\ p # q)
  <2>1. u = slot
    BY <1>4 DEF Moved
  <2> QED BY <2>1, <1>1, <1>2, <1>4 DEF IsDir
<1> QED BY <1>3, <1>4

\* A rename to a free name.
LEMMA RenameFree ==
  ASSUME MemoryInv, NEW p, NEW n, NEW i, NameOf(p, n, i), NEW q, InTree(node, q), NEW m \in Names,
         m \notin DOMAIN node[q].entries,
         NEW T, Above(slot, T, q, i), NEW e, e = EntryFor(i),
         NEW r, NEW v, Retabled(p, n, i, q, m, e, r, v), NEW u, u = Moved(p, q, i)
  PROVE  TreeInv(u, v)
<1>1. TreeInv(slot, node) /\ Tables(slot, node) /\ DOMAIN node = DOMAIN slot /\ DOMAIN slot \subseteq Ids
  BY DEF MemoryInv, TreeInv, Tables
<1>2. p \in DOMAIN node /\ n \in DOMAIN node[p].entries /\ i = node[p].entries[n].id /\ q \in DOMAIN node
  BY DEF NameOf, InTree
<1>3. /\ u \in [DOMAIN slot -> SlotRecs]
      /\ \A j \in DOMAIN node : u[j].links = slot[j].links
      /\ \A j \in DOMAIN node \ {i} : u[j].parent = slot[j].parent
      /\ node[i].kind = "Directory" => u[i].parent = q
  BY <1>2, MovedSlots
<1>4. Tables(u, v)
  BY <1>1, <1>3 DEF Tables, Retabled
<1>5. Lost(node, r, p, n)
  BY <1>2 DEF Lost, Retabled
<1>6. Gained(r, v, q, m, e)
  <2>1. m \notin DOMAIN r[q].entries
    <3>1. CASE q = p
      BY <3>1 DEF Retabled, Restrict
    <3>2. CASE q # p
      BY <3>2, <1>2 DEF Retabled
    <3> QED BY <3>1, <3>2
  <2> QED BY <2>1 DEF Gained, Retabled
<1>7. MoveCounted(slot, node, u, v, p, i, q)
  BY <1>3 DEF Retabled, MoveCounted
<1>8. Gained(r, v, q, m, [id |-> i, kind |-> node[i].kind])
  BY <1>6 DEF EntryFor
<1> QED BY <1>1, <1>2, <1>4, <1>5, <1>7, <1>8, MoveTree

\* A rename that replaces an entry is the loss of that entry and a move.
LEMMA RenameOver ==
  ASSUME MemoryInv, NEW p, NEW n, NEW i, NameOf(p, n, i), NEW q, InTree(node, q), NEW m \in Names,
         NEW o, NameOf(q, m, o), o # i, (node[o].kind = "Directory") <=> (node[i].kind = "Directory"),
         DOMAIN node[o].entries = {},
         NEW T \in SUBSET DOMAIN slot, Above(slot, T, q, i), NEW e, e = EntryFor(i),
         NEW r, NEW v, Retabled(p, n, i, q, m, e, r, v), NEW u, u = Moved(p, q, i),
         NEW s2, s2 = LinkLost(u, o), NEW n2, n2 = CountLost(v, q, o)
  PROVE  TreeInv(s2, n2)
<1> DEFINE dir == node[i].kind = "Directory"
<1>1. TreeInv(slot, node) /\ Tables(slot, node) /\ DOMAIN node = DOMAIN slot /\ DOMAIN slot \subseteq Ids
  BY DEF MemoryInv, TreeInv, Tables
<1>2. /\ p \in DOMAIN node /\ n \in DOMAIN node[p].entries /\ i = node[p].entries[n].id /\ i \in DOMAIN node
      /\ i # p /\ (dir => node[p].nlink \in Nat \ {0})
  BY DEF NameOf
<1>3. /\ q \in DOMAIN node /\ m \in DOMAIN node[q].entries /\ o = node[q].entries[m].id /\ o \in DOMAIN node
      /\ o # q /\ slot[o].links \in Nat \ {0} /\ node[o].nlink \in Nat \ {0}
      /\ (dir => node[q].nlink \in Nat \ {0, 1, 2}) /\ <<q, m>> \notin NamesOf(node, q)
  BY DEF NameOf
<1>4. o # p /\ ~(p = q /\ n = m)
  BY <1>2, <1>3
<1>5. \A j \in DOMAIN node : node[j].nlink \in Nat /\ node[j] \in NodeRecs
  BY <1>1, NodeShape
<1>6. /\ u \in [DOMAIN slot -> SlotRecs]
      /\ \A j \in DOMAIN node : u[j].links = slot[j].links
      /\ \A j \in DOMAIN node \ {i} : u[j].parent = slot[j].parent
      /\ dir => u[i].parent = q
  BY <1>3, MovedSlots

\* without the entry that is replaced
<1>7. PICK s0 : s0 = [slot EXCEPT ![o].links = slot[o].links - 1]
  OBVIOUS
<1>8. /\ DOMAIN s0 = DOMAIN slot /\ s0 \in [DOMAIN slot -> SlotRecs] /\ s0[o].links = slot[o].links - 1
      /\ \A j \in DOMAIN node \ {o} : s0[j].links = slot[j].links
      /\ \A j \in DOMAIN node : s0[j].parent = slot[j].parent
  <2>1. slot \in [DOMAIN slot -> SlotRecs] /\ slot[o].links - 1 \in Nat /\ slot[o] \in SlotRecs
    BY <1>1, <1>3 DEF Tables
  <2>2. s0 = [slot EXCEPT ![o] = [slot[o] EXCEPT !.links = slot[o].links - 1]]
    BY <1>7
  <2>3. [slot[o] EXCEPT !.links = slot[o].links - 1] \in SlotRecs
    BY <2>1 DEF SlotRecs
  <2> QED BY <2>1, <2>2, <2>3, <1>1, <1>3 DEF SlotRecs
<1> DEFINE count(j) == IF j = o THEN (IF dir THEN 0 ELSE node[o].nlink - 1)
                       ELSE IF j = q /\ dir THEN node[q].nlink - 1 ELSE node[j].nlink
           left(j) == IF j = q THEN Restrict(node[q].entries, DOMAIN node[q].entries \ {m}) ELSE node[j].entries
<1>9. PICK n0 : n0 = [j \in DOMAIN node |-> [kind |-> node[j].kind, nlink |-> count(j), entries |-> left(j)]]
  OBVIOUS
<1>10. \A j \in DOMAIN node : count(j) \in Nat
  BY <1>3, <1>5
<1>11. ASSUME NEW j \in DOMAIN node PROVE left(j) \in EntryMaps /\ node[j].kind \in Kinds
  <2>1. node[j].entries \in EntryMaps /\ node[q].entries \in EntryMaps /\ node[j].kind \in Kinds
    BY <1>1, <1>3, NodeShape
  <2>2. Restrict(node[q].entries, DOMAIN node[q].entries \ {m}) \in EntryMaps
    BY <2>1, MapRestrict
  <2> QED BY <2>1, <2>2
<1> HIDE DEF count, left
<1>12. /\ DOMAIN n0 = DOMAIN node /\ n0 \in [DOMAIN node -> NodeRecs]
       /\ \A j \in DOMAIN node : n0[j].kind = node[j].kind /\ n0[j].nlink = count(j) /\ n0[j].entries = left(j)
  BY <1>9, <1>10, <1>11 DEF NodeRecs
<1>13. Tables(s0, n0)
  BY <1>1, <1>8, <1>12 DEF Tables
<1>14. Lost(node, n0, q, m)
  BY <1>3, <1>12 DEF Lost, left
<1>15. TreeInv(s0, n0)
  <2>1. \A j \in DOMAIN node : n0[j].kind = node[j].kind /\ s0[j].parent = slot[j].parent
    BY <1>8, <1>12
  <2>2. /\ n0[o].nlink = (IF node[o].kind = "Directory" THEN 0 ELSE node[o].nlink - 1)
        /\ n0[q].nlink = (IF node[o].kind = "Directory" THEN node[q].nlink - 1 ELSE node[q].nlink)
        /\ \A j \in DOMAIN node \ {o, q} : n0[j].nlink = node[j].nlink
    BY <1>3, <1>12 DEF count
  <2>3. LossCounted(slot, node, s0, n0, q, o)
    BY <1>8, <2>1, <2>2 DEF LossCounted
  <2> QED BY <1>1, <1>3, <1>13, <1>14, <2>3, LoseTree

\* and the move
<1>16. PICK n1 : n1 = remove(n0, p, n)
  OBVIOUS
<1>17. WithoutEntry(n0, n1, p, n)
  BY <1>2, <1>12, <1>13, <1>16, Removed
<1>18. n \in DOMAIN n0[p].entries /\ n0[p].entries[n] = node[p].entries[n]
  <2>1. n0[p].entries = left(p)
    BY <1>2, <1>12
  <2>2. CASE p = q
    <3>1. n \in DOMAIN node[p].entries \ {m}
      BY <2>2, <1>2, <1>4
    <3> QED BY <2>1, <2>2, <3>1 DEF left, Restrict
  <2>3. CASE p # q
    BY <2>1, <2>3, <1>2 DEF left
  <2> QED BY <2>2, <2>3
<1>19. Lost(n0, n1, p, n)
  BY <1>2, <1>12, <1>17, <1>18 DEF WithoutEntry, Lost
<1>20. InTree(n0, q)
  <2>1. NamesOf(n0, q) = NamesOf(node, q) \ {<<q, m>>}
    BY <1>3, <1>14, NamesLost
  <2>2. NamesOf(n0, q) = NamesOf(node, q)
    BY <2>1, <1>3
  <2> QED BY <2>2, <1>3, <1>12 DEF InTree
<1>21. /\ DOMAIN s2 = DOMAIN slot /\ s2 \in [DOMAIN slot -> SlotRecs]
       /\ \A j \in DOMAIN node : s2[j].links = s0[j].links /\ s2[j].parent = u[j].parent
  <2>1. s2 = [u EXCEPT ![o].links = slot[o].links - 1]
    BY <1>1, <1>3, <1>6 DEF LinkLost, Minus1
  <2>2. slot[o].links - 1 \in Nat
    BY <1>3
  <2> QED BY <2>1, <2>2, <1>1, <1>3, <1>6, <1>8 DEF SlotRecs
<1>22. /\ v \in [DOMAIN node -> NodeRecs]
       /\ \A j \in DOMAIN node : v[j].nlink =
            IF ~dir \/ p = q THEN node[j].nlink
            ELSE IF j = p THEN node[j].nlink - 1 ELSE IF j = q THEN node[j].nlink + 1 ELSE node[j].nlink
  BY DEF Retabled
<1>23. v[o].nlink = node[o].nlink /\ (dir => v[q].nlink = IF p = q THEN node[q].nlink ELSE node[q].nlink + 1)
  BY <1>3, <1>4, <1>22
<1>24. /\ DOMAIN n2 = DOMAIN node /\ n2 \in [DOMAIN node -> NodeRecs]
       /\ \A j \in DOMAIN node : n2[j].kind = node[j].kind /\ n2[j].entries = v[j].entries
       /\ \A j \in DOMAIN node \ {o, q} : n2[j].nlink = v[j].nlink
       /\ n2[o].nlink = (IF dir THEN 0 ELSE node[o].nlink - 1)
       /\ n2[q].nlink = (IF dir THEN v[q].nlink - 1 ELSE v[q].nlink)
  <2>0. ASSUME NEW x \in NodeRecs, NEW k \in Nat
        PROVE  /\ [x EXCEPT !.nlink = k] \in NodeRecs /\ [x EXCEPT !.nlink = k].nlink = k
               /\ [x EXCEPT !.nlink = k].kind = x.kind /\ [x EXCEPT !.nlink = k].entries = x.entries
    BY DEF NodeRecs
  <2>1. v[o] \in NodeRecs /\ v[q] \in NodeRecs /\ \A j \in DOMAIN node : v[j].kind = node[j].kind
    BY <1>3, <1>22 DEF Retabled
  <2>2. CASE dir
    <3>1. v[q].nlink - 1 \in Nat /\ v[q].nlink # 0
      BY <1>3, <1>23, <2>2
    <3>2. n2 = [v EXCEPT ![q] = [v[q] EXCEPT !.nlink = v[q].nlink - 1], ![o] = [v[o] EXCEPT !.nlink = 0]]
      BY <1>3, <1>22, <2>2, <3>1 DEF CountLost, Minus1
    <3>3. PICK a : a = [v[q] EXCEPT !.nlink = v[q].nlink - 1]
      OBVIOUS
    <3>4. a \in NodeRecs /\ a.nlink = v[q].nlink - 1 /\ a.kind = v[q].kind /\ a.entries = v[q].entries
      BY <2>0, <2>1, <3>1, <3>3
    <3>5. PICK b : b = [v[o] EXCEPT !.nlink = 0]
      OBVIOUS
    <3>6. b \in NodeRecs /\ b.nlink = 0 /\ b.kind = v[o].kind /\ b.entries = v[o].entries
      BY <2>0, <2>1, <3>5
    <3>7. /\ n2 \in [DOMAIN node -> NodeRecs] /\ n2[q] = a /\ n2[o] = b
          /\ \A j \in DOMAIN node \ {o, q} : n2[j] = v[j]
      BY <1>3, <1>22, <3>2, <3>3, <3>4, <3>5, <3>6
    <3>8. \A j \in DOMAIN node : n2[j].kind = node[j].kind /\ n2[j].entries = v[j].entries
      BY <2>1, <3>4, <3>6, <3>7
    <3> QED BY <1>3, <2>2, <3>4, <3>6, <3>7, <3>8
  <2>3. CASE ~dir
    <3>1. node[o].nlink - 1 \in Nat
      BY <1>3
    <3>2. n2 = [v EXCEPT ![o] = [v[o] EXCEPT !.nlink = node[o].nlink - 1]]
      BY <1>3, <1>22, <1>23, <2>3 DEF CountLost, Minus1
    <3>3. PICK b : b = [v[o] EXCEPT !.nlink = node[o].nlink - 1]
      OBVIOUS
    <3>4. b \in NodeRecs /\ b.nlink = node[o].nlink - 1 /\ b.kind = v[o].kind /\ b.entries = v[o].entries
      BY <2>0, <2>1, <3>1, <3>3
    <3>5. n2 \in [DOMAIN node -> NodeRecs] /\ n2[o] = b /\ \A j \in DOMAIN node \ {o} : n2[j] = v[j]
      BY <1>3, <1>22, <3>2, <3>3, <3>4
    <3> QED BY <1>3, <2>1, <2>3, <3>4, <3>5
  <2> QED BY <2>2, <2>3
<1>25. Tables(s2, n2)
  BY <1>1, <1>21, <1>24 DEF Tables
<1>26. Gained(n1, n2, q, m, e)
  <2>1. DOMAIN n1 = DOMAIN node /\ \A j \in DOMAIN node \ {p} : n1[j].entries = n0[j].entries
    BY <1>12, <1>17 DEF WithoutEntry
  <2>2. n1[p].entries = Restrict(n0[p].entries, DOMAIN n0[p].entries \ {n})
    BY <1>17 DEF WithoutEntry
  <2>3. n0[q].entries = Restrict(node[q].entries, DOMAIN node[q].entries \ {m})
    BY <1>3, <1>12 DEF left
  <2>4. \A j \in DOMAIN node \ {q} : n0[j].entries = node[j].entries
    BY <1>12 DEF left
  <2>5. m \notin DOMAIN n1[q].entries
    BY <1>3, <2>1, <2>2, <2>3 DEF Restrict
  <2>6. n2[q].entries = With(n1[q].entries, m, e)
    <3>1. n2[q].entries = With(r[q].entries, m, e)
      BY <1>3, <1>24 DEF Retabled
    <3>2. CASE p = q
      <4>1. r[q].entries = Restrict(node[q].entries, DOMAIN node[q].entries \ {n})
        BY <3>2 DEF Retabled
      <4>2. m # n
        BY <3>2, <1>4
      <4>3. PICK g : g = node[q].entries
        OBVIOUS
      <4>4. With(Without(g, n), m, e) = With(Without(Without(g, m), n), m, e)
        BY <4>2, Replaced
      <4>5. r[q].entries = Without(g, n) /\ n1[q].entries = Without(Without(g, m), n)
        BY <3>2, <4>1, <4>3, <2>2, <2>3 DEF Without
      <4> QED BY <3>1, <4>4, <4>5
    <3>3. CASE p # q
      <4>1. r[q].entries = node[q].entries /\ n1[q].entries = n0[q].entries
        BY <3>3, <1>3, <2>1 DEF Retabled
      <4>2. With(node[q].entries, m, e) = With(Restrict(node[q].entries, DOMAIN node[q].entries \ {m}), m, e)
        BY DEF With, Restrict
      <4> QED BY <3>1, <4>1, <4>2, <2>3
    <3> QED BY <3>2, <3>3
  <2>7. ASSUME NEW j \in DOMAIN node \ {q} PROVE n2[j].entries = n1[j].entries
    <3>1. n2[j].entries = r[j].entries
      BY <1>24 DEF Retabled
    <3>2. CASE j = p
      BY <3>1, <3>2, <2>2, <2>4 DEF Retabled
    <3>3. CASE j # p
      BY <3>1, <3>3, <2>1, <2>4 DEF Retabled
    <3> QED BY <3>2, <3>3
  <2> QED BY <2>1, <2>5, <2>6, <2>7, <1>24 DEF Gained
<1>27. n0[i].kind = node[i].kind /\ Gained(n1, n2, q, m, [id |-> i, kind |-> n0[i].kind])
  BY <1>2, <1>12, <1>26 DEF EntryFor
<1>28. \A j \in DOMAIN n0 : n2[j].kind = n0[j].kind /\ s2[j].links = s0[j].links
  BY <1>12, <1>21, <1>24
<1>29. ASSUME NEW j \in DOMAIN n0 \ {i} PROVE s2[j].parent = s0[j].parent
  BY <1>6, <1>8, <1>12, <1>21
<1>30. n0[i].kind = "Directory" => s2[i].parent = q
  BY <1>2, <1>6, <1>21, <1>27
<1>31. ASSUME NEW j \in DOMAIN n0
       PROVE  n2[j].nlink =
                IF n0[i].kind # "Directory" \/ p = q THEN n0[j].nlink
                ELSE IF j = p THEN n0[j].nlink - 1 ELSE IF j = q THEN n0[j].nlink + 1 ELSE n0[j].nlink
  <2>1. n0[j].nlink = count(j) /\ j \in DOMAIN node /\ node[j].nlink \in Nat
    BY <1>5, <1>12
  <2>2. CASE j = o
    BY <2>1, <2>2, <1>3, <1>4, <1>24 DEF count
  <2>3. CASE j = q
    <3>1. CASE dir
      <4>1. n0[j].nlink = node[q].nlink - 1 /\ n2[j].nlink = v[q].nlink - 1
        BY <2>1, <2>3, <3>1, <1>3, <1>24 DEF count
      <4> QED BY <2>3, <3>1, <4>1, <1>3, <1>23, <1>27
    <3>2. CASE ~dir
      BY <2>1, <2>3, <3>2, <1>3, <1>22, <1>24, <1>27 DEF count
    <3> QED BY <3>1, <3>2
  <2>4. CASE j \notin {o, q}
    BY <2>1, <2>4, <1>22, <1>24, <1>27 DEF count
  <2> QED BY <2>2, <2>3, <2>4
<1>32. p \in DOMAIN n0 /\ i = n0[p].entries[n].id
  BY <1>2, <1>12, <1>18
<1>33. MoveCounted(s0, n0, s2, n2, p, i, q)
  BY <1>28, <1>29, <1>30, <1>31 DEF MoveCounted
<1>34. Above(s0, T, q, i)
  BY <1>1, <1>8 DEF Above
<1> QED BY <1>15, <1>18, <1>19, <1>20, <1>25, <1>27, <1>32, <1>33, <1>34, MoveTree

LEMMA RenameStep ==
  ASSUME MemoryInv, NEW p, NEW n, NEW q, NEW m \in Names, Rename(p, n, q, m) PROVE MemoryInv'
<1>0. PICK i : i = Entry(p, n).id
  OBVIOUS
<1>1. HasEntry(p, n) /\ Directory(q) /\ ~Under(q, i) /\ Replaceable(i, q, m)
  BY <1>0 DEF Rename
<1>2. NameOf(p, n, i) /\ InTree(node, q)
  BY <1>0, <1>1, EntryHere, InTheTree
<1>3. PICK T \in SUBSET DOMAIN slot : Above(slot, T, q, i)
  BY <1>1 DEF Under, Above
<1>4. PICK e : e = EntryFor(i)
  OBVIOUS
<1>5. PICK r : r = remove(node, p, n)
  OBVIOUS
<1>6. PICK w : w = Entered(r, q, m, e)
  OBVIOUS
<1>7. PICK v : v = Recounted(w, p, q, i)
  OBVIOUS
<1>8. PICK u : u = Moved(p, q, i)
  OBVIOUS
<1>9. Retabled(p, n, i, q, m, e, r, v)
  BY <1>2, <1>4, <1>5, <1>6, <1>7, RenameTables
<1>10. Commit(IF HasEntry(q, m) THEN [u EXCEPT ![Entry(q, m).id].links = Minus1(@)] ELSE u,
              Counted(w, p, q, m, i))
  BY <1>0, <1>4, <1>5, <1>6, <1>8 DEF Rename, EntryFor, Entered
<1>11. CASE ~HasEntry(q, m)
  <2>1. Commit(u, v)
    BY <1>7, <1>10, <1>11 DEF Counted, Recounted
  <2>2. m \notin DOMAIN node[q].entries
    BY <1>11, <1>2 DEF HasEntry, InTree, IsDir
  <2>3. TreeInv(u, v)
    BY <1>2, <1>3, <1>4, <1>8, <1>9, <2>2, RenameFree
  <2> QED BY <2>1, <2>3, CommitTree
<1>12. CASE HasEntry(q, m)
  <2>1. PICK o : o = Entry(q, m).id
    OBVIOUS
  <2>2. NameOf(q, m, o)
    BY <1>12, <2>1, EntryHere
  <2>3. /\ o # i /\ DOMAIN node[o].entries = {}
        /\ (node[o].kind = "Directory") <=> (node[i].kind = "Directory")
    BY <1>1, <1>12, <2>1 DEF Replaceable, IsDir, NoEntries
  <2>4. Entry(q, m).kind = node[o].kind
    BY <2>2 DEF NameOf, Entry
  <2>5. PICK s2 : s2 = LinkLost(u, o)
    OBVIOUS
  <2>6. PICK n2 : n2 = CountLost(v, q, o)
    OBVIOUS
  <2>7. Counted(w, p, q, m, i) = n2
    BY <1>7, <1>12, <2>1, <2>4, <2>6 DEF Counted, CountLost, Recounted
  <2>8. Commit(s2, n2)
    BY <1>10, <1>12, <2>1, <2>5, <2>7 DEF LinkLost
  <2>9. TreeInv(s2, n2)
    BY <1>2, <1>3, <1>4, <1>8, <1>9, <2>2, <2>3, <2>5, <2>6, RenameOver
  <2> QED BY <2>8, <2>9, CommitTree
<1> QED BY <1>11, <1>12

LEMMA MemoryBase == MemoryInit => MemoryInv
<1> SUFFICES ASSUME MemoryInit PROVE MemoryInv
  OBVIOUS
<1>1. NoEntries \in [{} -> EntryRecs] /\ DOMAIN NoEntries = {}
  BY DEF NoEntries
<1>2. NoEntries \in EntryMaps
  BY <1>1 DEF EntryMaps
<1>3. /\ DOMAIN slot = {RootIno} /\ DOMAIN node = {RootIno}
      /\ slot[RootIno] = [links |-> 1, lookups |-> 0, parent |-> RootIno]
      /\ node[RootIno] = [kind |-> "Directory", nlink |-> 2, entries |-> NoEntries]
  BY DEF MemoryInit, NewNode
<1>4. RootIno \in Ids
  BY MemoryAssumption DEF RootIno, Ids
<1>5. slot[RootIno] \in SlotRecs /\ node[RootIno] \in NodeRecs
  BY <1>2, <1>3, <1>4, MemoryAssumption DEF SlotRecs, NodeRecs, Kinds
<1>6. Tables(slot, node)
  BY <1>3, <1>4, <1>5 DEF Tables, MemoryInit
<1>7. DOMAIN node[RootIno].entries = {} /\ node[RootIno].kind = "Directory" /\ node[RootIno].nlink = 2
  BY <1>1, <1>3
<1>8. \A i : NamesOf(node, i) = {}
  BY <1>3, <1>7 DEF NamesOf
<1>9. SubDirs(node, RootIno) = {} /\ InTree(node, RootIno)
  BY <1>3, <1>7 DEF SubDirs, InTree
<1>10. Whole(node)
  BY <1>3, <1>7 DEF Whole
<1>11. LinksRight(slot, node)
  BY <1>3 DEF LinksRight
<1>12. NlinkRight(node)
  <2>1. Cardinality(SubDirs(node, RootIno)) = 0
    BY <1>9, FS_EmptySet
  <2>2. NlinkOf(node, RootIno) = 2 + Cardinality(SubDirs(node, RootIno))
    BY <1>7, <1>9 DEF NlinkOf
  <2>3. node[RootIno].nlink = NlinkOf(node, RootIno)
    BY <2>1, <2>2, <1>7
  <2>4. \A i \in DOMAIN node : i = RootIno
    BY <1>3
  <2> QED BY <2>3, <2>4 DEF NlinkRight
<1>13. OneParent(slot, node)
  BY <1>8 DEF OneParent
<1>14. NoLoop(slot, node)
  BY <1>8 DEF NoLoop
<1> QED BY <1>3, <1>6, <1>10, <1>11, <1>12, <1>13, <1>14 DEF MemoryInv, TreeInv

\* Every request of memory_fs.rs, and every forget, leaves entries, link counts,
\* st_nlink and parents that describe one tree without rings, and drops what
\* nothing refers to.
THEOREM MemoryInvariance == MemorySpec => []MemoryInv
<1>1. ASSUME MemoryInv, [MemoryNext]_memoryVars PROVE MemoryInv'
  <2>1. CASE UNCHANGED memoryVars
    BY <2>1, <1>1 DEF memoryVars, MemoryInv
  <2>2. ASSUME NEW p \in Ids, NEW n \in Names,
               \/ Lookup(p, n) \/ Unlink(p, n) \/ Rmdir(p, n)
               \/ \E kind \in {"Directory", "RegularFile"} : Create(p, n, kind)
               \/ \E q \in Ids, m \in Names : Rename(p, n, q, m)
               \/ \E i \in Ids : Link(i, p, n)
        PROVE  MemoryInv'
    <3>1. CASE Lookup(p, n)
      BY <1>1, <3>1, LookupStep
    <3>2. CASE Unlink(p, n)
      BY <1>1, <3>2, UnlinkStep
    <3>3. CASE Rmdir(p, n)
      BY <1>1, <3>3, RmdirStep
    <3>4. CASE \E kind \in {"Directory", "RegularFile"} : Create(p, n, kind)
      BY <1>1, <3>4, CreateStep DEF Kinds
    <3>5. CASE \E q \in Ids, m \in Names : Rename(p, n, q, m)
      BY <1>1, <3>5, RenameStep
    <3>6. CASE \E i \in Ids : Link(i, p, n)
      BY <1>1, <3>6, LinkStep
    <3> QED BY <2>2, <3>1, <3>2, <3>3, <3>4, <3>5, <3>6
  <2>3. ASSUME NEW i \in Ids, NEW k \in 1..MaxLookups, ForgetInode(i, k) PROVE MemoryInv'
    BY <1>1, <2>3, ForgetStep
  <2> QED BY <1>1, <2>1, <2>2, <2>3 DEF MemoryNext
<1> QED BY <1>1, MemoryBase, PTL DEF MemorySpec

\* A directory that has a name is below the root: a set with it and all its
\* parents, without the root, would be a ring.
LEMMA BelowRoot ==
  ASSUME MemoryInv, NEW i \in DOMAIN node, node[i].kind = "Directory", NamesOf(node, i) # {}
  PROVE  Under(i, RootIno)
<1> SUFFICES ASSUME NEW S \in SUBSET (DOMAIN slot), i \in S,
                    \A j \in S \ {RootIno} : slot[j].parent \in S, RootIno \notin S
             PROVE  FALSE
  BY DEF Under
<1>1. TreeInv(slot, node) /\ DOMAIN node = DOMAIN slot
  BY DEF MemoryInv, TreeInv, Tables
<1> DEFINE R == {j \in S : node[j].kind = "Directory" /\ NamesOf(node, j) # {}}
<1>2. ASSUME NEW j \in R PROVE slot[j].parent \in R
  <2>1. slot[j].parent \in S
    OBVIOUS
  <2>2. InTree(node, slot[j].parent)
    BY <1>1, ParentInTree
  <2> QED BY <2>1, <2>2 DEF InTree
<1>3. R \in SUBSET {j \in DOMAIN node : node[j].kind = "Directory" /\ NamesOf(node, j) # {}} /\ i \in R
  BY <1>1
<1> HIDE DEF R
<1> QED BY <1>1, <1>2, <1>3 DEF TreeInv, NoLoop

LEMMA TreeNow == MemoryInv => TreeExact
<1> SUFFICES ASSUME MemoryInv PROVE TreeExact
  OBVIOUS
<1>1. TreeInv(slot, node) /\ Tables(slot, node) /\ Whole(node) /\ DOMAIN node = DOMAIN slot
  BY DEF MemoryInv, TreeInv, Tables
<1>2. ASSUME NEW i PROVE NamedBy(i) = NamesOf(node, i)
  BY DEF NamedBy, NamesOf, Entry
<1>3. ASSUME NEW i PROVE Linked(i) <=> i = RootIno \/ NamesOf(node, i) # {}
  <2>1. ASSUME NEW p \in DOMAIN node, NEW n \in DOMAIN node[p].entries, Entry(p, n).id = i
        PROVE  <<p, n>> \in NamesOf(node, i)
    <3>1. n \in Names
      BY <1>1, NodeShape
    <3> QED BY <2>1, <3>1 DEF NamesOf, Entry
  <2>2. ASSUME NEW d \in NamesOf(node, i) PROVE Linked(i)
    BY DEF NamesOf, Linked, Entry
  <2> QED BY <2>1, <2>2 DEF Linked
<1>4. MemoryTypeOK
  <2>1. DOMAIN slot \subseteq Ids /\ DOMAIN node = DOMAIN slot
    BY <1>1 DEF Tables
  <2>2. ASSUME NEW i \in DOMAIN slot
        PROVE  /\ slot[i].links \in Nat /\ slot[i].lookups \in 0..MaxLookups /\ slot[i].parent \in Ids
               /\ node[i].kind \in Kinds /\ node[i].nlink \in Nat /\ DOMAIN node[i].entries \subseteq Names
    BY <1>1, NodeShape
  <2> QED BY <2>1, <2>2 DEF MemoryTypeOK, Kinds
<1>5. EntriesLive
  <2>1. ASSUME NEW p \in DOMAIN node, NEW n \in DOMAIN node[p].entries
        PROVE  Entry(p, n).id \in DOMAIN node /\ node[Entry(p, n).id].kind = Entry(p, n).kind
    BY <1>1 DEF Whole, EntryRight, Entry
  <2>2. \A i \in DOMAIN node \ {RootIno} : NamedBy(i) # {} \/ slot[i].lookups > 0
    BY <1>2 DEF MemoryInv
  <2> QED BY <2>1, <2>2 DEF EntriesLive
<1>6. LinksExact
  BY <1>1, <1>2 DEF TreeInv, LinksRight, LinksExact
<1>7. NlinkExact
  <2> SUFFICES ASSUME NEW i \in DOMAIN node
               PROVE  node[i].nlink =
                        IF ~IsDir(i) THEN Cardinality(NamedBy(i))
                        ELSE IF ~Linked(i) THEN 0
                        ELSE 2 + Cardinality({n \in DOMAIN node[i].entries : Entry(i, n).kind = "Directory"})
    BY DEF NlinkExact
  <2>1. {n \in DOMAIN node[i].entries : Entry(i, n).kind = "Directory"} = SubDirs(node, i)
    BY DEF SubDirs, Entry
  <2>2. node[i].nlink = NlinkOf(node, i)
    BY <1>1 DEF TreeInv, NlinkRight
  <2>3. InTree(node, i) <=> IsDir(i) /\ Linked(i)
    BY <1>3 DEF InTree, IsDir
  <2> QED BY <1>2, <2>1, <2>2, <2>3 DEF NlinkOf, IsDir
<1>8. ParentRight
  <2> SUFFICES ASSUME NEW i \in DOMAIN node, IsDir(i), i # RootIno, Linked(i)
               PROVE  /\ Cardinality(NamedBy(i)) = 1
                      /\ \E n \in Names : <<slot[i].parent, n>> \in NamedBy(i)
                      /\ Under(i, RootIno)
    BY DEF ParentRight
  <2>1. PICK d : d \in NamesOf(node, i)
    BY <1>3
  <2>2. NamesOf(node, i) = {d} /\ d[1] = slot[i].parent
    BY <1>1, <2>1 DEF TreeInv, OneParent, IsDir
  <2>3. Cardinality({d}) = 1
    BY FS_Singleton
  <2>4. d[2] \in Names /\ d = <<d[1], d[2]>>
    BY <2>1 DEF NamesOf
  <2>5. Under(i, RootIno)
    BY <2>1, BelowRoot DEF IsDir
  <2> QED BY <1>2, <2>2, <2>3, <2>4, <2>5
<1> QED BY <1>4, <1>5, <1>6, <1>7, <1>8 DEF TreeExact

\* After every request and forget, the entries, the link counts of the runtime,
\* the st_nlink that programs see and the parents of memory_fs.rs agree: no name
\* is of a node that was dropped, and every directory hangs from the root.
THEOREM TreeExactHolds == MemorySpec => []TreeExact
BY MemoryInvariance, TreeNow, PTL
=============================================================================
