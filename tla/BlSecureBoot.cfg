CONSTANTS
  NumKeys = 3
  NvmKeys = {1, 3}
  Fragments <- MCFragments
  BL_BOOTLOADER_SMR_ID = 0
  BL_BOOT_TABLE_SMR_ID = 1
  MaxFailures = 2
  MaxLosses = 4
SPECIFICATION Spec
INVARIANTS
  TypeOK
  SecureIsComplete
  KeysPresent
PROPERTIES
  ActivatedAtLast
CHECK_DEADLOCK FALSE
