CONSTANTS
  PhdrMax = 3
  MaxBeyond = 2
  MaxMessages = 0
  Files <- MCFiles
SPECIFICATION Spec
INVARIANT LoadDoneIsTrue
CHECK_DEADLOCK FALSE
