SPECIFICATION Spec
CONSTANTS
  Names = {1, 2, 3}
  NameSize <- MC_NameSize
  DataSizes = {1, 2, 3}
  MaxChanges = 2
INVARIANTS NameInBuffer EachListedOnce
PROPERTY Ends
CHECK_DEADLOCK FALSE
