CONSTANTS
  Holders = {t1, t2}
  Parents = {2}
  MaxRecords = 3
  MaxCount = 1
  Names = {a, b}
  MaxNodes = 4
  MaxLookups = 2
  Dirs = {d1, d2}
  Files = {f1}
  Components = {x, y}
  Workers = {w1, w2}
SPECIFICATION Spec
SYMMETRY Symmetry
INVARIANTS
  LeasePins
  NoZombie
  IdentityUnique
  FreeListExact
  TreeExact
  PathsExact
PROPERTIES
  NoTakeover
