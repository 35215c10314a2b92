SPECIFICATION Spec
CONSTANTS
  RxQueueDepth = 2
  CounterModulus = 8
  RxBufBytes = 16
  ReqQueueDepth = 2
  MaxPending = 1
  FcBlockSize = 0
  FcStMin = 0
  Mailboxes = 2
  CopyCuts = {1, 8}
  Requests <- Codes
  Scripts <- OneFrame
  Punctual = TRUE
  MaxRequests = 3
  MaxNoise = 3
INVARIANT AnswerIsHeard
