CONSTANTS
  IDSM_LOG_MAX_ENTRIES = 3
  Events = {"BOOT_START"}
  Faults <- AllFaults
  MaxBoots = 2
  MaxCalls = 4
SPECIFICATION LogSpec
INVARIANTS
  TypeOK
  Retained
  SequenceCountsEveryCall
  TimestampNeverAhead
PROPERTIES
  EarlierBootsKept
  RingSpec
CHECK_DEADLOCK FALSE
