SPECIFICATION Spec
CONSTANTS
  rounds = 3
  tasks = 3
INVARIANTS
  NotifiedRoundIsComplete
  OkRecordIsExact
PROPERTIES
  ChildrenReusedWhenLeft
  ImplementsRounds
  EndsOk
