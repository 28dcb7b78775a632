SPECIFICATION FairSpec
CONSTANTS
  w1 = w1
  w2 = w2
  NoEvent = NoEvent
  Workers = {w1, w2}
  MaxEvents = 2
  HasCallback = {1, 2}
  StreamMaxLen = 3
  MaxRetries = 2
  MaxExits = 1
  MaxFaults = 0
CHECK_DEADLOCK FALSE
PROPERTIES
  GuaranteedDelivery
