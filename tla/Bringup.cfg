\* A queue of two, counters that wrap at three; frames arrive from the start of the controller on.
SPECIFICATION BootFairSpec
CONSTANTS
  RxQueueDepth = 2
  CounterModulus = 3
  MaxFrames = 5
  UdsEnabled = TRUE
INVARIANTS
  BootTypeOK
  NothingHalfBuilt
  Accounting
  Chronological
  WindowExact
  StatusBracketsArrivals
PROPERTIES
  BootsIntoLogger
  RecoveryFollowsReport
  FramesReachHostOrHalt
  BusOffRecoversOrHalt
  LossReportedOrHalt
CHECK_DEADLOCK FALSE
