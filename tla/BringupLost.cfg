SPECIFICATION Spec
CONSTANTS
  MaxModules = 2
  LineLen = 2
  MaxLosses = 1
  MaxChanges = 0
INVARIANT DataFindsItsModule
CHECK_DEADLOCK FALSE
