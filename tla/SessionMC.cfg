SPECIFICATION Spec
CONSTANTS
  Tabs = {t1, t2}
  MaxLogins = 2
  MaxRequests = 2
  MaxLoads = 1
  MaxFaults = 1
INVARIANTS OwnRequestsAreCurrent
PROPERTIES OnlyLateRefusalsLogOut LoggedOutEverywhere GuardDecides
