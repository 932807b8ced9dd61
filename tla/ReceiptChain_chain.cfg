\* Runs of one target, one at a time or, for fewer receipts, two at once.
SPECIFICATION Spec
\* No run starts at the bounds.
CHECK_DEADLOCK FALSE
CONSTANTS
  Writers = {w1, w2}
  Signing = FALSE
  MaxReceipts = 5
  MaxOverlap = 3
SYMMETRY Symmetry
INVARIANTS
  TypeOK
  FilesLinkedUnlessForked
  FilesLinkedUnlessRestarted
  RowsKeptUnlessRestarted
  HeadHasRow
  VerifierExact
PROPERTIES
  LengthNeverShrinks
