SPECIFICATION Spec
CONSTANTS
  c1 = c1
  c2 = c2
  Policies = {p1}
  CheckIDs = {c1, c2}
  EscalationThreshold = 2
  MaxInt32 = 2
  MaxTime = 1
  Policy = p1
  Specs <- TwoOrOne
  FullSlots = {f1}
  RescanSlots = {}
  Channels = {slack}
  MaxCrashes = 1
INVARIANTS DuplicateAlertsSuppressed
