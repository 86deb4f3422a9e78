SPECIFICATION FairSpec
CONSTANTS
  Beacons = {b1, b2}
  Endpoints = {e1}
  MaxEvents = 2
  MaxHeads = 2
INVARIANTS
  IInv
  NoEventLost
  NobodyIsAbandoned
PROPERTIES
  SubscriberIsNeverStuck
  ShutdownEndsGoroutines
CHECK_DEADLOCK FALSE
