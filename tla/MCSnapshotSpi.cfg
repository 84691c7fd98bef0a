SPECIFICATION SpiSpec
CONSTANTS
  Caller = {c1, c2}
  Width = 2
  MaxRequests = 5
  MaxCaptures = 4
SYMMETRY Symmetry
INVARIANTS
  GenerationsNameSnapshots
  DeltasSurviveWrap
