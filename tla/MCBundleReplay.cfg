SPECIFICATION Spec
CONSTANTS
  Readings <- MCReadings
  MaxTime = 3
  MaxPolls = 3
INVARIANTS
  SummariesAgree
  GenerationsAccounted
  CountsConsistent
  OnlineMatchesReplay
PROPERTIES
  FailuresKeepSummaries
