SPECIFICATION FairSpec
CONSTANTS
  MaxClients = 4
  MaxFaults = 4
INVARIANTS
  AnswersMatch
  LossReportedOnce
  RunnerServes
PROPERTIES
  ConnectEnds
  LossIsReported
CHECK_DEADLOCK FALSE
