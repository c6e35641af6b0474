CONSTANTS
  MaxLevel = 1
  MaxErrors = 0
  MaxCardEvents = 0
  MaxDiscover = 0
SPECIFICATION Spec
INVARIANT WaiterIsWoken
