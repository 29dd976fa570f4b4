-------------------------- MODULE MCNodesAndTrees --------------------------
(***************************************************************************)
(* Model checking of the inode table and of the two trees of names: the    *)
(* in-memory filesystem's, and the one the path adapter keeps beside its   *)
(* filesystem's.  The three modules share no state, so a behaviour is      *)
(* about one of them, its subject, and the others stay as they are.        *)
(***************************************************************************)
EXTENDS NodeTable, MemoryFs, PathTree, TLC

VARIABLES subject

vars == <<subject, tableVars, memoryVars, pathTreeVars>>

Init ==
  /\ subject \in {"table", "memory", "paths"}
  /\ TableInit /\ MemoryInit /\ PathTreeInit

About(s) == subject = s /\ UNCHANGED subject

Next ==
  \/ About("table") /\ TableNext /\ UNCHANGED <<memoryVars, pathTreeVars>>
  \/ About("memory") /\ MemoryNext /\ UNCHANGED <<tableVars, pathTreeVars>>
  \/ About("paths") /\ PathTreeNext /\ UNCHANGED <<tableVars, memoryVars>>

Spec == Init /\ [][Next]_vars

\* Not the components of paths: the first of several is a choice.
Symmetry == Permutations(Holders) \cup Permutations(Names) \cup Permutations(Workers)
=============================================================================
