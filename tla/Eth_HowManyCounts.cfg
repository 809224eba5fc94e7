CONSTANTS
  Frames = {f1}
  NoFrame = NoFrame
  QUEUE_CAPACITY = 4
  FillsInWindow = TRUE
SPECIFICATION Spec
INVARIANT HowManyCounts
