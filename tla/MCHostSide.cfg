CONSTANTS
  Reqs = {r1, r2}
  Supports = {"readdirplus", "posix_locks"}
  MaxSize = 1
  OffMax = 2
  UMax = 5
  PidMax = 1
  Second = 2
  SecMax = 1
  MaxRequests = 1
  Callers = {c1}
  Contents = {"x", "y"}
  MaxLen = 2
  Names = {1, 2, 3, 4}
  Long = {2, 4}
  NulNames = {3}
  Capacity = 3
  MaxChanges = 3
SPECIFICATION Spec
CHECK_DEADLOCK FALSE
INVARIANTS
  ReqProtocol
  ReplyRight
  LocksAgree
  GetlkExact
  AttrsExact
  ReadsTrue
  PermsRight
  PagesRight
PROPERTIES
  Answered
  ListingEnds
