SPECIFICATION Spec
CONSTANTS
  Threads = {streamer, tablet}
  None = None
INVARIANT SuccessMeansSent
