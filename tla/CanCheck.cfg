CONSTANTS
  CAN_FD_FRAME_LEN = 3
  UINT32 = 4
  mainQUEUE_LENGTH = 1
  Mailboxes = 2
  Faults = {"late", "lost"}
SPECIFICATION FairSpec
INVARIANTS
  CheckedOk
  FramesAccounted
PROPERTIES
  KeepsChecking
