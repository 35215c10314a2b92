SPECIFICATION Spec
CONSTANTS
  RxQueueDepth = 4
  CounterModulus = 8
  RxBufBytes = 16
  ReqQueueDepth = 2
  MaxPending = 1
  FcBlockSize = 0
  FcStMin = 0
  Mailboxes = 2
  CopyCuts = {1, 8}
  Requests <- ReadOnly
  Scripts <- PendingFirst
  Punctual = TRUE
  MaxRequests = 1
  MaxNoise = 0
INVARIANT SnapshotIsOneFrame
