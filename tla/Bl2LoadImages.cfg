CONSTANTS
  IDSM_LOG_MAX_ENTRIES = 3
  Events <- LoadEvents
  Faults = {"import_rsa", "aead", "sign"}
  MaxBoots = 2
  MaxCalls = 3
  NumImages = 3
  PlatSetup = {1, 3}
  SkipLoading = {2}
SPECIFICATION FairSpec
INVARIANTS
  HandoverFromOneFip
  SetupBeforeLoad
  OutcomeIsTrue
  BootStory
  FailureLoggedBeforeAction
PROPERTIES
  BootDecided
CHECK_DEADLOCK FALSE
