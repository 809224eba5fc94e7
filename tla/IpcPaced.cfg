CONSTANTS
  SAMPLE_NUM_MSGS = 4
  UINT16 = 6
  UINT8 = 4
  Bufs = 2
  Pace = {"period", "prompt"}
SPECIFICATION FairSpec
INVARIANTS
  BuffersConserved
  AllEchoed
  NeverStops
PROPERTIES
  EveryMessageAnswered
  TurnsSpec
