SPECIFICATION Spec
CONSTANTS
  MaxArgs = 10
  Entries = {40, 41}
INVARIANTS ArgsDelivered CallerIntact ServiceReached DescriptionsAgree
CHECK_DEADLOCK FALSE
