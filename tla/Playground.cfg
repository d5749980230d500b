CONSTANTS
  Generations = {g1}
  Texts = {plain, other, broken, long}
  Valid = {plain, other, long}
  Long = {long}
  NoText = NoText
  MaxAttempts = 2
  MaxStoreFaults = 1
  Default = plain
  MaxEdits = 2
  MaxErrors = 2
  MaxLosses = 1
SPECIFICATION Spec
INVARIANTS LogTellsTheStory BadgeAtRest
PROPERTIES Converges
