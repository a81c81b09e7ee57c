SPECIFICATION Spec
CONSTANTS
  Payload = 3
  Burst = 5
  DestRoom = 7
  Sizes = {27}
  BurstBytes = {5}
  Reads = {TRUE}
  MaxRequests = 1
  MaxLosses = 0
INVARIANT PacketsFit
CHECK_DEADLOCK FALSE
