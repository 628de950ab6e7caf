SPECIFICATION ConsoleSpec
CONSTANTS
  Texts <- MCTexts
  Keys <- MCKeys
  MaxKeys = 2
  MaxErrors = 1
  BufLens = {1, 2, 4}
  ForceLine = TRUE
  ReplaceTabs = 8
  Capacities = {8, 16, 32, 64}
INVARIANT KeysInOrder
PROPERTY KeysRead
PROPERTY ShownExactly
CHECK_DEADLOCK FALSE
