SPECIFICATION Spec
CONSTANTS
  RxBufBytes = 10
  ReqQueueDepth = 1
  MaxPending = 1
  FcBlockSize = 0
  FcStMin = 0
  Mailboxes = 1
  CopyCuts = {8}
  Requests <- ShortAndLong
  CapturedFrames <- OddFrames
PROPERTY
  IgnoredFramesAreHarmless
