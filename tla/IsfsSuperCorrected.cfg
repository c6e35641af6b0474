CONSTANTS
  Volumes = 1
  Slots = 2
  HeadPages = 2
  Pages = 3
  Limit <- MCLimit
  SlotImages <- MCSlotsPages
SPECIFICATION Spec
INVARIANT CorrectedNotSkipped
