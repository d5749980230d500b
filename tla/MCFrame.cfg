SPECIFICATION FairSpec
CONSTANTS
  w1 = w1  w2 = w2
  None = None
  Workers = {w1, w2}
  NFrames = 5
  Capacity = 2
INVARIANTS TypeOK FramesAccounted SuccessIsComplete
PROPERTIES RunSpec Terminates
