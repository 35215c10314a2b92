SPECIFICATION Spec
CONSTANTS
  RxBufBytes = 10
  ReqQueueDepth = 1
  MaxPending = 1
  FcBlockSize = 0
  FcStMin = 0
  Mailboxes = 1
  CopyCuts = {1}
  Requests <- ShortAndLong
  CapturedFrames <- AnswerFrames
INVARIANTS
  UdsTypeOK
  NoLostWakeup
  FreshFramesOnly
PROPERTY
  ImplementsService
