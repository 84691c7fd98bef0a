SPECIFICATION ReadSpec
CONSTANTS
  Bucket = {q1, q2}
  MaxEvents = 4
SYMMETRY Symmetry
INVARIANTS
  CaptureNeverOverstates
  TearBoundsView
  BacklogIsReal
