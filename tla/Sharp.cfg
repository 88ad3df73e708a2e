CONSTANTS
  Confs <- Collectives
  ResultWindow = 4
  ResultGenerations = 2
  ResultRetryLimit = 3
SPECIFICATION FairSpec
CHECK_DEADLOCK FALSE
INVARIANTS
  ResultsBacked
  RecentRepairable
PROPERTY
  EveryRankServed
