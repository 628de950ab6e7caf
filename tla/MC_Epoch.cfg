SPECIFICATION MC_Spec
CONSTANTS
  Procs = {g1}
  None = None
  Machines <- MC_Machines
  Diffs = {0, 1}
  MaxCalls = 1
  ZeroYear = 401
  LastYear = 2400
INVARIANT EpochExact
CHECK_DEADLOCK FALSE
