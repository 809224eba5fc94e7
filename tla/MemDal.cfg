CONSTANTS
  MEMDAL_BLOCKS_NUMBER = 2
  MEMDAL_JOB_QUEUE_SIZE = 3
  eMemory <- MCMemory
  eWrite <- MCWrite
SPECIFICATION Spec
INVARIANTS
  TypeOK
  BusyHasJob
  FeeServesHead
PROPERTIES
  QueueSpec
