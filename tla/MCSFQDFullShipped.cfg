SPECIFICATION Spec
CONSTANTS
  a = a
  b = b
  Apps <- MCApps
  Socks <- MCSocks
  AppOf <- MCAppOf
  Weight <- MCWeight
  Depth = 8
  Factor = 10
  Threshold = 65536
  HardBlock = TRUE
  LargeBlock = FALSE
  Lengths <- MCLengths
  REDUCER = 32
  MaxItems = 5
INVARIANTS
  NoStall
CHECK_DEADLOCK FALSE
