CONSTANTS
  Frames = {f1, f2}
  NoFrame = NoFrame
  QUEUE_CAPACITY = 4
  FillsInWindow = FALSE
SPECIFICATION Spec
INVARIANTS TypeOK HowManyCounts
PROPERTY FifoSpec
