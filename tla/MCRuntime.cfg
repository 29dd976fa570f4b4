CONSTANTS
  Holders = {t1, t2}
  Parents = {1}
  MaxRecords = 2
  MaxCount = 1
  Names = {a, b}
  Serial = TRUE
  FaultSets = {{"readdirplus"}, {"entry", "open", "panic"}}
  MaxFh = 1
  MaxLookups = 2
SPECIFICATION Spec
SYMMETRY Symmetry
INVARIANTS
  TypeOK
  KernelInodeLive
  LookupsExact
  OpensExact
  HandleKeepsNode
  EntryIsTarget
  FreedWhenUnreferenced
