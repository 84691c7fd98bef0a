SPECIFICATION MCSpec
CONSTANTS
  Symbol <- MCSymbol
  Library <- MCLibrary
  LibraryOf <- MCLibraryOf
  Hosts <- MCHosts
  RequestedRounds = {0, 1, 3}
  DefaultRounds = 3
  StartRound = 1
  Traffic <- MCTraffic
  Between <- MCBetween
  MaxLost = 1
  Libraries <- MCLibraries
  VtableName <- MCVtableName
  Slides = {100}
  Object <- MCObject
  VtableAt <- MCVtableAt
  RootTable = 40
  RootAt <- MCRootAt
  ROOT_LABELS = 2
  ROOT_QUEUE_ENTRY_SIZE = 8
  Inline = 10
  MaxLines = 4
INVARIANTS
  StopIsEarned
  ExtractorsAgree
  SeriesFollowRounds
  CountersAddUp
  OkMeansFinished
  MoreAccessBetterClass
  SlideIsRight
  LabelsAreRight
