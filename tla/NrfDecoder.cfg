SPECIFICATION Spec
\* The coprocessor may send no more.
CONSTANTS
  RingSize = 8
  Sizes = {7}
  Commands = {0}
  Values = {2, 115}
  MaxFrames = 3
  MaxNoise = 1
  MaxTimeouts = 1
INVARIANTS TypeOK InOrderAndOnce LostOnlyWhenHit WrapsOnlyWhenShifted
CHECK_DEADLOCK FALSE
