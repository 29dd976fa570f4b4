------------------------------ MODULE MemoryFs ------------------------------
(***************************************************************************)
(* memory_fs.rs, the read-write filesystem written against NodeFs, with    *)
(* the part of the inode table it drives: directory entries, the link      *)
(* counts it reports, and the link counts by which the runtime knows when  *)
(* a node may be dropped are three records of the same fact.               *)
(*                                                                         *)
(* One action is one request.  The kernel holds the locks of the           *)
(* directories and of the node that a request changes, so that requests    *)
(* which touch the same node do not overlap; only forgets come at any      *)
(* time.  Symlinks and special files are files here.                       *)
(***************************************************************************)
EXTENDS Naturals, FiniteSets, FiniteSetsExt, Functions

CONSTANTS
  Names,      \* file names
  MaxNodes,   \* bound: nodes that exist at a time
  MaxLookups  \* bound: references the kernel takes to a node

ASSUME MemoryAssumption ==
  /\ IsFiniteSet(Names)
  /\ MaxNodes \in Nat \ {0}
  /\ MaxLookups \in Nat \ {0}

RootIno == 1
Ids == 1..MaxNodes

VARIABLES
  slot,   \* the inode table: slot[i] = [links, lookups, parent]
  node    \* node[i] = [kind, nlink, entries], entries from names to [id, kind]

memoryVars == <<slot, node>>

NoEntries == [n \in {} |-> [id |-> RootIno, kind |-> "Directory"]]
NewNode(kind) ==
  [kind |-> kind, nlink |-> IF kind = "Directory" THEN 2 ELSE 1, entries |-> NoEntries]
IsDir(i) == node[i].kind = "Directory"

MemoryTypeOK ==
  /\ DOMAIN slot \subseteq Ids /\ DOMAIN node = DOMAIN slot
  /\ \A i \in DOMAIN slot :
       /\ slot[i].links \in Nat /\ slot[i].lookups \in 0..MaxLookups /\ slot[i].parent \in Ids
       /\ node[i].kind \in {"Directory", "RegularFile"} /\ node[i].nlink \in Nat
       /\ DOMAIN node[i].entries \subseteq Names

MemoryInit ==
  /\ slot = [i \in {RootIno} |-> [links |-> 1, lookups |-> 0, parent |-> RootIno]]
  /\ node = [i \in {RootIno} |-> NewNode("Directory")]

-----------------------------------------------------------------------------
(* Pieces of the methods *)

\* maybe_drop: a slot nothing refers to leaves the table, and its node with it.
Commit(s, n) ==
  LET live == {i \in DOMAIN s : s[i].links > 0 \/ s[i].lookups > 0}
  IN slot' = Restrict(s, live) /\ node' = Restrict(n, live)

\* A map, and one more or a new value in it.
With(f, x, v) == [y \in DOMAIN f \cup {x} |-> IF y = x THEN v ELSE f[y]]

Minus1(k) == IF k = 0 THEN 0 ELSE k - 1         \* saturating_sub(1)

\* check_new_entry
NewEntry(p, n) == /\ p \in DOMAIN node
                  /\ IsDir(p)
                  /\ n \notin DOMAIN node[p].entries

\* entry
HasEntry(p, n) == p \in DOMAIN node /\ IsDir(p) /\ n \in DOMAIN node[p].entries
Entry(p, n) == node[p].entries[n]

link_into(nodes, p, n, e) ==
  [nodes EXCEPT ![p].entries = With(@, n, e),
                ![p].nlink = IF e.kind = "Directory" THEN @ + 1 ELSE @]

remove(nodes, p, n) == [nodes EXCEPT ![p].entries = Restrict(@, DOMAIN @ \ {n})]

-----------------------------------------------------------------------------
(* What the kernel asks for (VFS): it names directories that it has looked  *)
(* up and that are not removed, and gives back what it was given.           *)

Linked(i) ==
  i = RootIno \/ \E p \in DOMAIN node : \E n \in DOMAIN node[p].entries : Entry(p, n).id = i
Directory(p) == p \in DOMAIN node /\ IsDir(p) /\ Linked(p) /\ (p = RootIno \/ slot[p].lookups > 0)

\* d is i or one of the directories above it: it is in every set of nodes that
\* has i and, with a node, its parent.
Under(i, d) ==
  \A S \in SUBSET (DOMAIN slot) :
    i \in S /\ (\A j \in S \ {RootIno} : slot[j].parent \in S) => d \in S

-----------------------------------------------------------------------------
(* The requests *)

\* lookup, whose entry the kernel then counts.
Lookup(p, n) ==
  /\ Directory(p) /\ HasEntry(p, n)
  /\ slot[Entry(p, n).id].lookups < MaxLookups
  /\ Commit([slot EXCEPT ![Entry(p, n).id].lookups = @ + 1], node)

\* create_child, for mknod, mkdir, symlink and create; the kernel gets the entry.
Create(p, n, kind) ==
  LET id == Min(Ids \ DOMAIN slot)
  IN /\ Directory(p) /\ NewEntry(p, n)
     /\ DOMAIN slot # Ids
     /\ Commit(With(slot, id, [links |-> 1, lookups |-> 1, parent |-> p]),
               link_into(With(node, id, NewNode(kind)), p, n, [id |-> id, kind |-> kind]))

Unlink(p, n) ==
  LET id == Entry(p, n).id
  IN /\ Directory(p) /\ HasEntry(p, n) /\ ~IsDir(id)
     /\ Commit([slot EXCEPT ![id].links = Minus1(@)],
               [remove(node, p, n) EXCEPT ![id].nlink = Minus1(@)])

Rmdir(p, n) ==
  LET id == Entry(p, n).id
  IN /\ Directory(p) /\ HasEntry(p, n) /\ IsDir(id)
     /\ node[id].entries = NoEntries
     /\ Commit([slot EXCEPT ![id].links = Minus1(@)],
               [remove(node, p, n) EXCEPT ![p].nlink = Minus1(@), ![id].nlink = 0])

\* What the tests of rename let through: the target may replace an entry of its
\* own sort, an empty directory if it is one.  If the entry is another name of
\* the target nothing happens.
Replaceable(target, q, m) ==
  HasEntry(q, m) => LET old == Entry(q, m).id
                    IN /\ old # target
                       /\ IsDir(old) <=> IsDir(target)
                       /\ node[old].entries = NoEntries

\* A directory that changes its parent says so.
Moved(p, q, target) ==
  IF IsDir(target) /\ p # q THEN [slot EXCEPT ![target].parent = q] ELSE slot

\* Mutant of Counted: the directory that was replaced still counts.
CountedOnce(nodes, p, q, m, target) ==
  LET moved == IF IsDir(target) /\ p # q
                 THEN [nodes EXCEPT ![p].nlink = Minus1(@), ![q].nlink = @ + 1] ELSE nodes
  IN IF ~HasEntry(q, m) THEN moved
     ELSE [moved EXCEPT ![Entry(q, m).id].nlink = IF IsDir(target) THEN 0 ELSE Minus1(@)]

\* The link counts after a rename.
Counted(nodes, p, q, m, target) ==
  LET moved == IF IsDir(target) /\ p # q
                 THEN [nodes EXCEPT ![p].nlink = Minus1(@), ![q].nlink = @ + 1] ELSE nodes
  IN IF ~HasEntry(q, m) THEN moved
     ELSE IF Entry(q, m).kind = "Directory"
       THEN [moved EXCEPT ![q].nlink = Minus1(@), ![Entry(q, m).id].nlink = 0]
     ELSE [moved EXCEPT ![Entry(q, m).id].nlink = Minus1(@)]

\* The flags are not looked at.  The kernel moves no directory below itself.
Rename(p, n, q, m) ==
  LET target == Entry(p, n).id
      nodes == [remove(node, p, n) EXCEPT
                  ![q].entries = With(@, m, [id |-> target, kind |-> node[target].kind])]
  IN /\ Directory(p) /\ HasEntry(p, n) /\ Directory(q)
     /\ ~Under(q, target)
     /\ Replaceable(target, q, m)
     /\ Commit(IF HasEntry(q, m)
                 THEN [Moved(p, q, target) EXCEPT ![Entry(q, m).id].links = Minus1(@)]
                 ELSE Moved(p, q, target),
               Counted(nodes, p, q, m, target))

Link(i, q, m) ==
  /\ i \in DOMAIN node /\ Linked(i) /\ slot[i].lookups \in 1..(MaxLookups - 1)
  /\ ~IsDir(i)
  /\ Directory(q) /\ NewEntry(q, m)
  /\ Commit([slot EXCEPT ![i].links = @ + 1, ![i].lookups = @ + 1],
            [link_into(node, q, m, [id |-> i, kind |-> node[i].kind]) EXCEPT ![i].nlink = @ + 1])

ForgetInode(i, k) ==
  /\ i \in DOMAIN slot /\ k <= slot[i].lookups
  /\ Commit([slot EXCEPT ![i].lookups = @ - k], node)

MemoryNext ==
  \/ \E p \in Ids, n \in Names :
       \/ Lookup(p, n) \/ Unlink(p, n) \/ Rmdir(p, n)
       \/ \E kind \in {"Directory", "RegularFile"} : Create(p, n, kind)
       \/ \E q \in Ids, m \in Names : Rename(p, n, q, m)
       \/ \E i \in Ids : Link(i, p, n)
  \/ \E i \in Ids, k \in 1..MaxLookups : ForgetInode(i, k)

MemorySpec == MemoryInit /\ [][MemoryNext]_memoryVars

-----------------------------------------------------------------------------
(* Properties *)

\* The entries that name a node.
NamedBy(i) == {d \in (DOMAIN node) \X Names :
                 d[2] \in DOMAIN node[d[1]].entries /\ Entry(d[1], d[2]).id = i}

\* No entry names a node that is gone, or a number that became another node: a
\* node stays in the table as long as a directory, or the kernel, refers to it,
\* and no longer.
EntriesLive ==
  /\ \A p \in DOMAIN node : \A n \in DOMAIN node[p].entries :
       Entry(p, n).id \in DOMAIN node /\ node[Entry(p, n).id].kind = Entry(p, n).kind
  /\ \A i \in DOMAIN node \ {RootIno} : NamedBy(i) # {} \/ slot[i].lookups > 0

\* The runtime's link count is the number of names: too low, and a file is
\* dropped under its other name, too high and it is never dropped.
LinksExact ==
  \A i \in DOMAIN node : slot[i].links = (IF i = RootIno THEN 1 ELSE Cardinality(NamedBy(i)))

\* st_nlink, which programs that walk trees rely on: names for a file, and for a
\* directory two and the subdirectories ("directory link counts follow child
\* directories"), through every create, link, rename and replacement.
NlinkExact ==
  \A i \in DOMAIN node :
    node[i].nlink =
      IF ~IsDir(i) THEN Cardinality(NamedBy(i))
      ELSE IF ~Linked(i) THEN 0
      ELSE 2 + Cardinality({n \in DOMAIN node[i].entries : Entry(i, n).kind = "Directory"})

\* ".." of a directory is the directory that holds it, and a directory has one
\* name: the directories are a tree, also after renames and replacements.
ParentRight ==
  \A i \in DOMAIN node : IsDir(i) /\ i # RootIno /\ Linked(i) =>
    /\ Cardinality(NamedBy(i)) = 1
    /\ \E n \in Names : <<slot[i].parent, n>> \in NamedBy(i)
    /\ Under(i, RootIno)

\* The nodes, entries and counts of the in-memory filesystem and the slots of
\* the runtime describe one tree.
TreeExact == MemoryTypeOK /\ EntriesLive /\ LinksExact /\ NlinkExact /\ ParentRight
=============================================================================
