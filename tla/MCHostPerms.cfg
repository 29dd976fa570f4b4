SPECIFICATION PermSpec
INVARIANT
  ChmodNoFollow
