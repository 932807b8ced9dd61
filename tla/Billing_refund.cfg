\* A retried job is refunded, against docs/CONTEXT.md.
SPECIFICATION Spec
CONSTANTS
  learner = learner
  pro = pro
  starter = starter
  Requests <- MCRequests
  Cost <- MCCost
  Purchases <- MCPurchases
  Pack <- MCPack
  StartBalance = 5
  Attempts = 2
  Deliveries = 2
\* Everything the bounds admit may be done.
CHECK_DEADLOCK FALSE
INVARIANT RefundOnlyOnHardFailure
