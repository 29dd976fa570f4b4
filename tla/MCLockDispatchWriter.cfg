CONSTANTS
  Lockers = {l1, l2}
  Makers = {m1}
  max_threads = 3
  PathAdapter = TRUE
  WriterFirst = TRUE
  Rounds = 1
SPECIFICATION DispatchSpec
CHECK_DEADLOCK FALSE
PROPERTIES
  Served
