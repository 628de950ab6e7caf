SPECIFICATION MC_Spec
CONSTANTS
  Procs = {g1, g2, g3}
  None = None
  Machines <- MC_Machines
  Diffs = {0, 1, 2}
  MaxCalls = 2
  ZeroYear = 401
  LastYear = 2400
INVARIANTS FrequenciesAgree EventsClosed DaysExact
PROPERTY CallsReturn
CHECK_DEADLOCK FALSE
