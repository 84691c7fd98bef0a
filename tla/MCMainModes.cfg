SPECIFICATION Spec
CONSTANTS
  Worker = {w1, w2, w3}
  Thread = {t1, t2, t3}
  MainThread = main_thread
  MaxThreads = 3
INVARIANTS
  QuietWhileRead
  ExitRecordHasPeak
PROPERTIES
  Exits
