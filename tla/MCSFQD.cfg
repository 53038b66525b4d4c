SPECIFICATION MCSpec
CONSTANTS
  a = a
  b = b
  Apps <- MCApps
  Weight <- MCWeight
  Depth = 2
  Sizes <- MCSizes
  MaxSize = 6000
  REDUCER = 1024
  MaxItems = 6
INVARIANTS
  TypeOK
  SlotsExact
  WorkConserving
  OwnItem
  EmptyListNeverSorted
  HeadsNearVirtualTime
  OvertakingBounded
PROPERTIES
  VirtualTimeMonotone
  HeldIsReleased
  KeepsPromise
CHECK_DEADLOCK FALSE
