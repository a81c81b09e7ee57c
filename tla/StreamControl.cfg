\* The tablet may send no more.
SPECIFICATION FairSpec
CONSTANTS
  Slots = 3
  MaxMessages = 6
INVARIANTS TypeOK AgreeUnlessRaced
PROPERTIES SilenceEndsLink SilenceStopsStream
CHECK_DEADLOCK FALSE
