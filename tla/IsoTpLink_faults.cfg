\* Two mailboxes of frames under way and enough faults to hide a turn of the sequence number.
SPECIFICATION FairSpec
CONSTANTS
  RxBufBytes = 256
  Pdus <- SomePdus
  BlockSize = 0
  Mailboxes = 2
  MaxFaults = 17
INVARIANTS
  TypeOK
  Integrity
  NoFrameInvented
PROPERTY
  Completion
CHECK_DEADLOCK FALSE
