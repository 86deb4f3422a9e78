SPECIFICATION Spec
CONSTANTS
  Clients = {c1}
  Hashes = {h1}
  Workers = {w1}
  NoHash = NoHash
  Garbage = Garbage
  MaxAnnounce = 1
  MaxFaults = 0
  MaxTime = 1
INVARIANTS
  ReceivedWhenSeen
CHECK_DEADLOCK FALSE
