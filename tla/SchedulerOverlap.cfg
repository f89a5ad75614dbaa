SPECIFICATION Spec
CONSTANTS
  c1 = c1
  c2 = c2
  Policies = {p1}
  CheckIDs = {c1}
  EscalationThreshold = 1
  MaxInt32 = 1
  MaxTime = 1
  Policy = p1
  Specs <- OneOrNone
  FullSlots = {f1, f2}
  RescanSlots = {}
  Channels = {slack}
  MaxCrashes = 0
INVARIANTS AlertsConserved BoardShowsState StopReachesTracked FailedSinceNotOlder
SYMMETRY AnySlot
