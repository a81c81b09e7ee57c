\* The bring-up ends once initThread has terminated and the line is empty.
SPECIFICATION FairSpec
CONSTANTS
  MaxModules = 2
  LineLen = 2
  MaxLosses = 1
  MaxChanges = 1
INVARIANTS TypeOK SequencesAreDense FiledRightUnlessLost
PROPERTIES StartsReady 
CHECK_DEADLOCK FALSE
