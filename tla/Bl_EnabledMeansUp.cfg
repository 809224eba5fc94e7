CONSTANTS
  Configs <- MCConfigs
  BL_NO_OF_DATA_TRANSFERS = 3
  SDHC_LOAD_TIMEOUT = 3
  BL_COM_SESSION_TIMEOUT = 2
  TIMEOUT_CNT_INIT_VALUE = 3
  Polls = {0, 3, 4}
SPECIFICATION Spec
INVARIANTS
  EnabledMeansUp
CHECK_DEADLOCK FALSE
