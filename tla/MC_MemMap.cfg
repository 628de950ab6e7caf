SPECIFICATION Spec
CONSTANTS
  Pages = 7
  Layouts <- MC_Layouts
  RamStart = 2
  RamSize0 = 3
  MaxEntries = 6
  DescriptorSizes = {5, 6, 7}
  MaxEvents = 1
  MaxExits = 2
INVARIANTS HeapOwned MapCurrent E820Exact
CHECK_DEADLOCK FALSE
