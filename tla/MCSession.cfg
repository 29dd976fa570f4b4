CONSTANTS
  Workers = {w1, w2, w3}
  Caps = {"ParallelDirops", "AsyncRead"}
  MAX_THREADS = 2
  MaxRuns = 4
  Lockers = {l1, l2, l3}
  Makers = {m1}
  max_threads = 2
  PathAdapter = TRUE
  WriterFirst = TRUE
  Rounds = 1
  Threads = {t1, t2, t3}
  Nodes = {n1, n2}
  MaxFh = 2
SPECIFICATION AllSpec
CHECK_DEADLOCK FALSE
INVARIANTS
  NoStaleUse
  TornDownOnce
  SessionOK
  NoUseAfterTake
  ConsumedExactlyOnce
  NoLostWakeup
PROPERTIES
  OnlyJams
  ReleaseCompletes
  ImplementsContract
