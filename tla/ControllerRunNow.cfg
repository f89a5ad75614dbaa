SPECIFICATION Spec
CONSTANTS
  Specs = {good1, good2, bad}
  Valid = {good1, good2}
  NoSpec = NoSpec
  MaxMoves = 3
  MaxLag = 2

PROPERTIES RunNowTriggersScan
CHECK_DEADLOCK FALSE
