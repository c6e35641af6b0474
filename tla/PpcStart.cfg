CONSTANTS
  PhdrMax = 3
  MaxBeyond = 2
  MaxMessages = 3
  Files <- MCFiles
SPECIFICATION FairSpec
INVARIANT CounterHarmless
INVARIANT ReadyMeansWaiting
INVARIANT HeldWhileLoading
INVARIANT StartedLast
INVARIANT Served
PROPERTY PrepareReturns
PROPERTY PpcStarts
PROPERTY Answered
CHECK_DEADLOCK FALSE
