SPECIFICATION FairSpec
CONSTANTS
  learner = learner
  pro = pro
  starter = starter
  Requests <- MCRequests
  Cost <- MCCost
  Purchases <- MCPurchases
  Pack <- MCPack
  StartBalance = 5
  Attempts = 2
  Deliveries = 2
CHECK_DEADLOCK FALSE
INVARIANTS
  TypeOK
  BalanceExact
  LogExplainsBalance
  PurchaseAccounted
PROPERTIES
  FailureRefunded
  PurchaseSettles
  ImplementsLedger
