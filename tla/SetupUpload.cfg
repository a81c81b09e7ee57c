SPECIFICATION FairSpec
\* The tablet may be done, or wait for an answer that is not repeated.
CONSTANTS
  Services = {"raw", "json", "list", "other"}
  Sizes = {7, 9}
  Payload = 2
  Burst = 2
  DrainAt = 4
  FifoRoom = 5
  RawRoom = 8
  MaxTransfers = 3
  MaxLosses = 1
  MaxFailures = 1
INVARIANTS TypeOK StoredInOrder DoneMeansStored
PROPERTY CompletesUnlessAckLost
CHECK_DEADLOCK FALSE
