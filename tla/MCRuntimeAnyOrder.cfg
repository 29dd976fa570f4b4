CONSTANTS
  Holders = {t1, t2}
  Parents = {1}
  MaxRecords = 2
  MaxCount = 1
  Names = {a}
  Serial = FALSE
  FaultSets = {{}}
  MaxFh = 2
  MaxLookups = 1
SPECIFICATION Spec
SYMMETRY Symmetry
INVARIANTS
  HandlePinned
