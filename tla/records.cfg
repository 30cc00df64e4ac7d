SPECIFICATION Spec
CONSTANTS
  Roots <- MCRoots
  MaxSaves = 3
INVARIANTS
  TypeOK
  LoadedIsSaved
  RootSurvives
  FailureExplained
  VerifiedIsIntact
  MarkerMeansRolledBack
CHECK_DEADLOCK FALSE
