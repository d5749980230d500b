SPECIFICATION ReaderSpec
CONSTANTS
  Word <- MCWord
  Clock <- MCClock
  Window <- MCWindow
  Eases = {"in", "out"}
  Transitions = {"morph"}
  Presets = {"fade"}
  Highlights = {"flash"}
  Keys <- MCKeys
  Documents <- MCDocuments
INVARIANTS ReadsAsWritten FollowsWhatItReads EveryLineOnce FieldsUnderNearest RowsFitTheirBlock TextKept EveryElementOnce
