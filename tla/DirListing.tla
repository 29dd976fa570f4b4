----------------------------- MODULE DirListing -----------------------------
(***************************************************************************)
(* A directory read in pages: MemoryFs::readdir pushes entries into a      *)
(* DirBuffer (ffi.rs) of limited size, the shim sends what is there, and   *)
(* the kernel comes back with the cookie of the last entry it used, while  *)
(* files come and go in the directory.                                     *)
(***************************************************************************)
EXTENDS Integers, FiniteSets

CONSTANTS
  Names,      \* names, as numbers in their order in the BTreeMap
  Long,       \* those whose directory entry takes two units of space, not one
  NulNames,   \* those with a NUL byte, which a filesystem might come up with
  Capacity,   \* the buffer the kernel asks to be filled
  MaxChanges  \* bound: files that come or go while the directory is read

ASSUME ListingAssumption ==
  /\ Names \subseteq Nat \ {0} /\ IsFiniteSet(Names)
  /\ Long \cup NulNames \subseteq Names
  /\ Capacity \in Nat \ {0, 1}          \* any one entry fits
  /\ MaxChanges \in Nat

Dots == {-1, 0}         \* "." and ".."

VARIABLES
  entries,  \* the names in the directory
  offset,   \* the cookie the kernel goes on from
  filled,   \* the space taken in the last reply
  seen,     \* seen[n]: how often the name was read so far; 2 for more often
  done,     \* the kernel was told that the end is reached
  changes   \* files that came or went

listingVars == <<entries, offset, filled, seen, done, changes>>

ListingTypeOK ==
  /\ entries \subseteq Names
  /\ offset \in 0..(2 + Cardinality(Names))
  /\ seen \in [Dots \cup Names -> 0..2]
  /\ done \in BOOLEAN /\ changes \in 0..MaxChanges

ListingInit ==
  /\ entries \in SUBSET Names
  /\ offset = 0 /\ filled = 0 /\ seen = [n \in Dots \cup Names |-> 0] /\ done = FALSE /\ changes = 0

-----------------------------------------------------------------------------

\* The place of a name in what readdir adds: the dots, then the map in order.
Place(n) == IF n \in Dots THEN n + 2 ELSE 2 + Cardinality({m \in entries : m <= n})

\* Mutant of next_offset: the cookie of a name is its own place, not the next.
next_offset_same(n) == IF n \in Dots THEN Place(n) ELSE Place(n) - 1

\* Mutant of next_offset: the dots share a cookie.
next_offset_dots(n) == IF n \in Dots THEN 2 ELSE Place(n)

next_offset(n) == Place(n)

\* The space entries take (fuse_add_direntry): one with a NUL is skipped.
Space(S) == Cardinality(S \ NulNames) + Cardinality((S \cap Long) \ NulNames)

\* DirBuffer::add, of name n that makes the buffer hold S.
add(S, n) == Space(S) <= Capacity

\* readdir adds entries from the cookie on, until one does not fit.
Page(from) ==
  LET rest == {n \in Dots \cup entries : Place(n) > from}
      upto(n) == {m \in rest : m <= n}
  IN {n \in rest : \A m \in upto(n) : add(upto(m), m)} \ NulNames

\* readdir_shim.  The kernel uses as many entries as its caller has room for,
\* and asks again from there; an empty reply is the end.
ReadPage ==
  LET page == Page(offset)
  IN /\ ~done
     /\ filled' = Space(page)
     /\ IF page = {}
          THEN done' = TRUE /\ UNCHANGED <<offset, seen>>
          ELSE \E last \in page :
                 /\ seen' = [n \in DOMAIN seen |-> IF n \in page /\ n <= last /\ seen[n] < 2
                                                   THEN seen[n] + 1 ELSE seen[n]]
                 /\ offset' = next_offset(last)
                 /\ UNCHANGED done
     /\ UNCHANGED <<entries, changes>>

\* Another process creates or unlinks a file.
Change(n) ==
  /\ ~done /\ changes < MaxChanges
  /\ changes' = changes + 1
  /\ entries' = IF n \in entries THEN entries \ {n} ELSE entries \cup {n}
  /\ UNCHANGED <<offset, filled, seen, done>>

ListingNext == ReadPage \/ \E n \in Names : Change(n)

\* A program that lists a directory goes on to the end.
ListingSpec == ListingInit /\ [][ListingNext]_listingVars /\ WF_listingVars(ReadPage)

-----------------------------------------------------------------------------
(* Properties *)

\* A directory that does not change is listed whole, each of its names exactly
\* once, however the pages fall; names with a NUL are left out.
ListedOnce ==
  done /\ changes = 0 => \A n \in Dots \cup Names :
                           seen[n] = IF n \in Dots \cup (entries \ NulNames) THEN 1 ELSE 0

\* A reply is no longer than the kernel asked for.
PageFits == filled <= Capacity

\* A listing that has begun ends, although files come and go: each reply moves
\* the cookie on, so no page is read twice forever.
ListingEnds == filled > 0 ~> done

\* What readdir sends: every name once, in replies of the size asked for.
PagesRight == ListingTypeOK /\ ListedOnce /\ PageFits
=============================================================================
