SPECIFICATION Spec
CONSTANTS
  Steps = 2
  Samples = 8
  Frames = 2
  Ids = {"a", "b"}
  NoId = "-"
  Works <- MCWorks
INVARIANTS GlyphsAsWritten EveryLoopTravels LeastTravel FadeKeepsColour
PROPERTIES ReadsToTheEnd
