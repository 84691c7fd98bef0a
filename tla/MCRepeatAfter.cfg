SPECIFICATION Spec
CONSTANTS
  rounds = 2
  tasks = 2
  Parents = {p1, p2}
INVARIANTS
  NoCompletionStranded
  ExactUnlessOverlapped
PROPERTIES
  RoundAwaitsTimers
  ImplementsRounds
  EndsOk
