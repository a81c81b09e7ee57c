SPECIFICATION Spec
CONSTANTS
  Size = 4
  FrameLen = 3
  Kept = 1
  MaxBytes = 7
INVARIANTS TypeOK LosslessUntilFull AccountedUnlessRaced FrameNotTornUnlessRaced
CHECK_DEADLOCK FALSE
