CONSTANTS
  LevelTriggered = TRUE
  AckClearsError = FALSE
  MaxSdEvents = 2
  AddressBits = 3
  Words = 2
  Contents <- MCContents
  Faults <- MCFaults
SPECIFICATION ReadFairSpec
INVARIANT WaitMeansDone
INVARIANT SleepIsWoken
PROPERTY NoStrayQuiet
PROPERTY PageIsRight
PROPERTY RefusedForReason
PROPERTY SdServed
PROPERTY CommandReturns
