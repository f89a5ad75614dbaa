SPECIFICATION Spec
CONSTANTS
  TypedDocs <- Typed
  OtherDocs <- Other
  StoredDocs <- Stored
  MaxSaves = 2
  MaxUpsets = 1
INVARIANTS AnswersTellTheTruth UntouchedFormShowsData SavedIsShown
PROPERTIES EditsOutlastPolls EventuallyShowsStored
