\* The plug-ins that talk to other proxies, one part per subject
SPECIFICATION MCSpec
CONSTANTS
  a1 = a1
  a2 = a2
  p1 = p1
  p2 = p2
  p3 = p3
  Nothing = Nothing
  Apps = {a1, a2}
  Peers = {p1, p2}
  Weight <- MCWeight
  Depth = 1
  Threshold = 5
  Sizes = {3}
  MaxSize = 3
  PeerReports <- MCReports
  REDUCER = 1
  MaxItems = 4
  MaxReports = 1
  VThreshold = 2
  VPeerApps = {a1}
  VItems = 3
INVARIANTS
  TypesOK
  BytesReportedOnce
  BytesChargedOnce
  NoStrandedBroadcast
  Announcements
PROPERTIES
  EveryPeerTold
  PromisesKept
  AllStart
CHECK_DEADLOCK FALSE
