CONSTANTS
  MaxSwaps = 4
  MaxNest = 4
  MaxBlocks = 2
  MaxCount = 5
SPECIFICATION FairSpec
INVARIANT TransferIsRight
INVARIANT Coherent
INVARIANT InsertionNoticed
INVARIANT OneStray
PROPERTY Returns
