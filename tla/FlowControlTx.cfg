\* The transfer ends, or waits for ever for a frame that was lost.
SPECIFICATION FairSpec
CONSTANTS
  Payload = 3
  Burst = 5
  DestRoom = 7
  Sizes = {0, 1, 8, 13, 15, 21, 25, 27, 30, 36}
  BurstBytes = {4, 5}
  Reads = {TRUE, FALSE}
  MaxRequests = 3
  MaxLosses = 2
INVARIANTS TypeOK NeverAhead WholeFileWhenOver
PROPERTY Completes
CHECK_DEADLOCK FALSE
