SPECIFICATION FairSpec
CONSTANTS
  Modes <- AllModes
  MAX_MSG_ID = 6
  MAX_INFLIGHT = 2
  FirstIds = {5, 6}
  BrokerDup = TRUE
  Loads <- SmallLoads
  MaxFaults = 2
  MaxRestarts = 1
INVARIANTS
  NeverTwice
  FirstReceiptsInOrder
  CompletionTrue
PROPERTIES
  AcceptedArrives
  OfferedArrives
CHECK_DEADLOCK FALSE
