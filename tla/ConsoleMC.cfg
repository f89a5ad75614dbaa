SPECIFICATION ConsoleSpec
CONSTANTS
  Keys <- TwoNamespaces
  Stored <- OnePolicy
  OtherSpec <- OtherPolicy
  defaultNs = "ops"
  MaxEdits = 4
  MaxRequests = 2
  MaxUpsets = 1
  MaxMoves = 5
  Results <- FourResults
  Earlier <- ThreeResults
  PAGE_SIZE = 2
  MaxClicks = 3
  MaxReports = 2
  MaxLosses = 1
  MaxSteps = 4
INVARIANTS UntouchedFieldsAreShown OneSubmissionPerForm PreviewIsSubmitted AcknowledgedIsListed BoxesAreClean InRange CollapseWhenAllUnfolded HealthAgrees
PROPERTIES TypedIsKept
