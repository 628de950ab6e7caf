SPECIFICATION MC_Spec
CONSTANTS
  k1 = k1
  k2 = k2
  i1 = i1
  i2 = i2
  t0 = t0
  Blobs <- MC_Blobs
  BlobLen <- MC_BlobLen
  Sha <- MC_Sha
  NoBlob = NoBlob
  MaxLen = 2
  Kernels <- MC_Kernels
  Initrds <- MC_Initrds
  Torns <- MC_Torns
  Cmds = {"quiet", "long"}
  Cmds2 = {"quiet"}
  Cmds0 <- MC_Cmds0
  MaxRuns = 2
  MaxFaults = 2
  InitrdEnv = {"default", "NONE", "other"}
  CmdxLen = 8
  PoolSize = 12
  MaxFile = 13
SYMMETRY MC_Symmetry
INVARIANT ConfigHasInitrd
CHECK_DEADLOCK FALSE
