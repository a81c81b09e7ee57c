SPECIFICATION FairSpec
CONSTANTS
  Threads = {streamer, tablet}
  None = None
INVARIANTS TypeOK BufferLivesUnlessLate SentUnlessLate
PROPERTIES MutexComesBack CallReturns
