\* The sender stops after every second consecutive frame.
SPECIFICATION FairSpec
CONSTANTS
  RxBufBytes = 256
  Pdus <- SomePdus
  BlockSize = 2
  Mailboxes = 2
  MaxFaults = 0
PROPERTY Completion
CHECK_DEADLOCK FALSE
