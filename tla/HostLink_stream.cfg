SPECIFICATION Spec
CONSTANTS
  Frames <- OneFrame
  Statuses <- OneStatus
  Strays <- Noisy
  Cuts = {1, 16}
  MaxLost = 1
INVARIANTS
  TypeOK
  WholePacketsArrive
  ChunksDoNotMatter
  DataSurvives
CHECK_DEADLOCK FALSE
