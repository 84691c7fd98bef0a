SPECIFICATION Spec
CONSTANTS
  Warmup = 1
  Samples = 2
  Tid = {k1, k2}
INVARIANTS
  TimesOwnCallbacks
