SPECIFICATION Spec
CONSTANTS
  Policies = {p1}
  CheckIDs = {c1, c2}
  EscalationThreshold = 2
  MaxInt32 = 3
  MaxTime = 2
INVARIANTS EscalatesOnThreshold FailedSinceIsStreakStart ToldOncePerState
PROPERTIES ImplementsLifecycle
