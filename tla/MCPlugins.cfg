\* SFQD3, SFQD2 and 2LSFQD, one part per subject
SPECIFICATION MCSpec
CONSTANTS
  a1 = a1
  a2 = a2
  c1 = c1
  c2 = c2
  c3 = c3
  Apps = {a1, a2}
  Weight <- MCWeight
  Depth <- MCDepth
  MaxDiff = 2
  Sizes = {2, 5}
  MaxItems = 5
  CCost <- MCCost
  CLimit <- MCLimit
  CKinds <- MCKinds
  CItems = 4
  NumApps = 2
  Conns = {c1, c2, c3}
  TSizes = {1, 2}
  Full <- MCFull
  Initial <- MCInitial
  Infinite = 2
  TItems = 3
INVARIANTS
  TypesOK
  ClassesSound
  OnlyThrottled
  TwoLevels
SYMMETRY ConnSymmetry
CHECK_DEADLOCK FALSE
