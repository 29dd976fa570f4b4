CONSTANTS
  Holders = {t1, t2}
  Parents = {1}
  MaxRecords = 2
  MaxCount = 1
  Names = {a, b}
  Serial = TRUE
  FaultSets = {{"readdirplus"}}
  MaxFh = 0
  MaxLookups = 2
  Parallel = TRUE
  MaxObjects = 3
SPECIFICATION PathSpec
SYMMETRY Symmetry
INVARIANTS
  PathKnown
