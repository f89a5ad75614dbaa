SPECIFICATION Spec
CONSTANTS
  CheckIDs <- IDs
  Within <- PartOf
  Batches <- OneAndTwo
  Texts <- AllTexts
  Contents <- SomeContents
  MaxIterations = 1
INVARIANTS PerCheckVerdicts
CHECK_DEADLOCK FALSE
