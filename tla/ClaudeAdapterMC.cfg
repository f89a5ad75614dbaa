SPECIFICATION Spec
CONSTANTS
  CheckIDs <- IDs
  Within <- PartOf
  Batches <- OneAndTwo
  Texts <- AllTexts
  Contents <- SomeContents
  MaxIterations = 3
INVARIANTS ConversationAccepted EvidenceIsWhatWasShown NoVerdictBeforeTheEnd AnswerIsUnderstood SilenceFails
CHECK_DEADLOCK FALSE
