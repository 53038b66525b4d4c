SPECIFICATION Spec
CONSTANTS
  c1 = c1
  c2 = c2
  a1 = a1
  a2 = a2
  t1 = t1
  t2 = t2
  Conns <- MCConns
  Apps <- MCApps
  AppOf <- MCAppOf
  Tags <- MCTags
  Kinds = {"read", "write", "other"}
  Shares = {1}
  FlowUnits = 2
  Depth = 2
  AcceptMeta = TRUE
  Whole = {TRUE}
  MayClose = TRUE
  MaxRequests = 3
SYMMETRY MCSymmetry
INVARIANTS
  TypeOK
  DepthAtServer
  SchedulerMatchesLists
  MessagesWhole
  TagInOrder
  PointersValid
  TagForgotten
  NoFault
CHECK_DEADLOCK FALSE
