SPECIFICATION Spec
CONSTANTS
  FileLens = {0, 1, 3}
  Free = 2
  NodeLens = {0, 1, 3, 4, 20, 255, 256}
  NameBytes = 6
  MaxDepth = 5
  MaxCalls = 2
INVARIANTS ImageWholeUnlessCut FilesClosed PathIsChain
CHECK_DEADLOCK FALSE
