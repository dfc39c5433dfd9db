SPECIFICATION FairSpec
CONSTANTS
  MaxMsg = 3
  Capacity = 2
  TO_CACHE = 1
  FROM_CACHE = 1
  FILE_MAX = 1
  VACUUM = 1
  Quoted = {2}
  MaxFaults = 2
  MaxRestarts = 1
INVARIANTS
  NothingVanishes
  NoDuplicates
PROPERTIES
  Drains
CHECK_DEADLOCK FALSE
