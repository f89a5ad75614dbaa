SPECIFICATION FairSpec
CONSTANTS
  c1 = c1
  c2 = c2
  Policies = {p1}
  CheckIDs = {c1}
  EscalationThreshold = 1
  MaxInt32 = 1
  MaxTime = 0
  Policy = p1
  Specs <- RescanOrNot
  FullSlots = {f1}
  RescanSlots = {r1}
  Channels = {}
  MaxCrashes = 1
PROPERTIES FailingIsRescanned
