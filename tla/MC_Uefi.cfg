SPECIFICATION MC_Spec
CONSTANTS
  NumHandles = 3
  MaxChanges = 2
  MaxEnumerations = 2
  BufLen = 2
  MaxBytes = 3
INVARIANTS FoundIsComplete NoByteLostButPartial
PROPERTIES StarvesOnlyOnSilence CTSRespected
CHECK_DEADLOCK FALSE
