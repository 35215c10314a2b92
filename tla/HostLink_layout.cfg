SPECIFICATION Spec
CONSTANTS
  Frames <- OneFrame
  Statuses <- OneStatus
  Strays <- Noisy
  Cuts = {1, 16}
  MaxLost = 0
INVARIANTS
  HostLogsWhatWasCaptured
CHECK_DEADLOCK FALSE
