SPECIFICATION FairSpec
CONSTANTS
  a = a
  b = b
  Apps <- MCApps
  Socks <- MCSocks
  AppOf <- MCAppOf
  Weight <- MCWeight
  Depth = 3
  Factor = 2
  Threshold = 65536
  HardBlock = TRUE
  LargeBlock = FALSE
  Lengths <- MCLengths
  REDUCER = 32
  MaxItems = 5
INVARIANTS
  TypeOK
  SlotsAccounted
  SmallCounted
  OwnItem
  ConnectionInOrder
  NoStall
PROPERTIES
  HeldIsReleased
CHECK_DEADLOCK FALSE
