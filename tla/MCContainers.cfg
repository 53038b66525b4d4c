\* The socket pool, the heap, the sort and the share of a request,
\* locations of clients and thresholds of time windows
SPECIFICATION MCSpec
CONSTANTS
  Capacity = 4
  MaxConns = 4
  Zeroed = FALSE
  Keys = {1, 2, 3, 4, 5, 6, 7}
  SortLen = 6
  Span = 12
  Octets = {1, 2, 30}
  Deadline = 2000
  Infinite = 4
INVARIANTS
  PoolSound
  HelpersSound
CHECK_DEADLOCK FALSE
