SPECIFICATION FairSpec
CONSTANTS
  Configs <- MC_Configs
  MinPrint = 2
  Files = {0, 2, 3}
  NoFile = NoFile
  ReadSize = 2
  Texts <- MC_Texts
  MaxCmds = 2
INVARIANTS SignedStartsOnlySection RecoveryCmdline CmdlineNotCut HandlesBounded
PROPERTY Decides
CHECK_DEADLOCK FALSE
