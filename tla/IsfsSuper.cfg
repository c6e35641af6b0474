CONSTANTS
  Volumes = 2
  Slots = 2
  HeadPages = 2
  Pages = 3
  Limit <- MCLimit
  SlotImages <- MCSlots
SPECIFICATION FairSpec
INVARIANT NewestUsable
INVARIANT GivenUpOnlyIfNone
PROPERTY RetriesDescend
PROPERTY MountEnds
