CONSTANTS
  MaxLevel = 4
  MaxErrors = 2
  MaxCardEvents = 1
  MaxDiscover = 2
SPECIFICATION FairSpec
INVARIANTS TypeOK DmaOnlyForWaitingCaller AbortOnlyForTransfer ResultIsTrue StatusIsOwn NoStalledDma
PROPERTY CommandEnds
