SPECIFICATION FairSpec
CONSTANTS
  job = job
  request = request
  Runs <- MCRuns
  Queued <- MCQueued
CHECK_DEADLOCK FALSE
INVARIANTS
  TypeOK
  ReportsOwnUnlessOverlapped
  RowsFollowVerdict
  StatusSettles
  LastRunTells
  CheckoutFollowsChild
  BaseIsGone
PROPERTIES
  VerdictFinal
  EverySpawnDecided
  EveryRunEnds
