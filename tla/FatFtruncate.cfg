SPECIFICATION Spec
CONSTANTS
  Fat32 = TRUE
  Clusters = 4
  csize = 2
  SS = 2
  PerSector = 3
  n_rootdir = 2
  DirPer = 1
  Name = {"a", "b", "z"}
  Card = {1, 2}
  Handle = {1, 2}
  Blank <- MCBlank
  Flags <- MCFlags
  Used = {"a", "b"}
  Reads = {5}
  Writes = {1, 5}
  Seeks <- MCSeeks
  Wrap = 100
  Lengths = {3, 6}
  MaxOps = 3
  MaxFaults = 1
  FaultOps = 3
  MaxSwaps = 1
INVARIANT AlwaysPlaced
CHECK_DEADLOCK FALSE
