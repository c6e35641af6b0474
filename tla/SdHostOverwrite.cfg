CONSTANTS
  MaxLevel = 2
  MaxErrors = 0
  MaxCardEvents = 1
  MaxDiscover = 1
SPECIFICATION Spec
INVARIANT StartedCommandIsOwn
