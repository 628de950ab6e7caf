SPECIFICATION FairSpec
CONSTANTS
  Blobs <- MC_Blobs
  BlobLen <- MC_BlobLen
  Headers <- MC_Headers
  Header <- MC_Header
  Sha <- MC_Sha
  Configs <- MC_Configs
  NoBlob = NoBlob
  NaN = NaN
  PageSize = 4
  HeaderSize = 3
  CmdxLen = 4
  SetupSize = 4
  SetupMax = 20
  KernelMax = 35
  I32Max = 14
  FourG = 24
  MemTop = 40
  MaxLen = 12
INVARIANTS HandoverVerified HandoverComplete AccessesInBounds HandoverPointers BoundFailureReported
PROPERTY ImplementsVerifiedBoot
CHECK_DEADLOCK FALSE
