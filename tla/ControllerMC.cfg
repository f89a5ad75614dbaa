SPECIFICATION Spec
CONSTANTS
  Specs = {good1, good2, bad}
  Valid = {good1, good2}
  NoSpec = NoSpec
  MaxMoves = 8
  MaxLag = 3
INVARIANTS GoneIsStopped
PROPERTIES ReconcilerKeepsUserFields EventuallyConverged EventuallyTruthful EventuallyQuiet
CHECK_DEADLOCK FALSE
