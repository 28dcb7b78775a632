SPECIFICATION FairSpec
CONSTANTS
  w1 = w1
  w2 = w2
  NoEvent = NoEvent
  Workers = {w1, w2}
  MaxEvents = 3
  HasCallback = {1, 3}
  StreamMaxLen = 1
  MaxRetries = 2
  MaxExits = 1
  MaxFaults = 2
CHECK_DEADLOCK FALSE
INVARIANTS
  TypeOK
  OneDispatcher
  AckedMeansSettled
  AttemptsBounded
  DuplicatesAreCharged
  AbandonedAreCharged
PROPERTIES
  ImplementsDelivery
  EventuallySettled
