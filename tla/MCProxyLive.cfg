SPECIFICATION FairSpec
CONSTANTS
  c1 = c1
  c2 = c2
  a1 = a1
  a2 = a2
  t1 = t1
  t2 = t2
  Conns <- MCConns
  Apps <- MCApps
  AppOf <- MCAppOf
  Tags = {t1}
  Kinds = {"read", "write", "small"}
  Shares = {0, 1}
  FlowUnits = 2
  Depth = 1
  AcceptMeta = TRUE
  Whole = {TRUE}
  MayClose = FALSE
  MaxRequests = 4
PROPERTIES
  Answered
CHECK_DEADLOCK FALSE
