SPECIFICATION FairSpec
CONSTANTS
  RxQueueDepth = 1
  CounterModulus = 8
  RxBufBytes = 16
  ReqQueueDepth = 2
  MaxPending = 1
  FcBlockSize = 0
  FcStMin = 0
  Mailboxes = 2
  CopyCuts = {2, 3, 8}
  Requests <- Session
  Scripts <- AnyAnswer
  Punctual = FALSE
  MaxRequests = 2
  MaxNoise = 0
INVARIANT EachWholeAnswerOnce
PROPERTY ServesEveryRequest
