SPECIFICATION Spec
\* The coprocessor may send no more.
CONSTANTS
  RingSize = 8
  Sizes = {7}
  Commands = {0}
  Values = {2, 115}
  MaxFrames = 2
  MaxNoise = 0
  MaxTimeouts = 0
INVARIANT OnlySecondRemoved
CHECK_DEADLOCK FALSE
