\* Scripts one after the other and two at a time, one of them killed.
SPECIFICATION FairSpec
CHECK_DEADLOCK FALSE
CONSTANTS
  Run = {t1, t2}
  SourceChain = "sepolia"
  Scripts <- MCScripts
  Racing <- MCRacing
  FeeEntries <- MCFeeEntries
  MaxStarts = 2
  MaxFaults = 1
INVARIANTS
  DeployTypeOK
  DependenciesInPlace
  BehindIsInEffect
  RecordedIsUsable
  LegsPricePair
  FeesCoverWorstCase
  CalmRunsSucceed
PROPERTIES
  RunsEnd
