CONSTANTS
  PLAT_SECBOOT_LOG_SIZE = 12
  NumImages = 2
  SkipLoading = {1}
  MaxBoots = 4
SPECIFICATION FairSpec
INVARIANTS
  TypeOK
  FailureOnRecord
PROPERTIES
  AppendSpec
  BootDecided
CHECK_DEADLOCK FALSE
