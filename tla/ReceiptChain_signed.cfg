\* Receipts are signed.
SPECIFICATION Spec
CONSTANTS
  Writers = {w1}
  Signing = TRUE
  MaxReceipts = 2
  MaxOverlap = 2
INVARIANTS
  VerifyChainClean
