SPECIFICATION FairSpec
CONSTANTS
  Worker = {w1, w2, w3}
  Thread = {t1, t2}
  MainThread = main_thread
  MaxThreads = 2
  LeavesThroughState = TRUE
INVARIANTS
  ExitCodeTellsRecords
  PeakHasThreads
  WaitedRecordIsExact
  OkRecordHasPeak
  LateLeaveWasReported
PROPERTIES
  EndsOk
