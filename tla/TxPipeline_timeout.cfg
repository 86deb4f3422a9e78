SPECIFICATION FairSpec
CONSTANTS
  Clients = {c1}
  Hashes = {h1}
  Workers = {w1}
  NoHash = NoHash
  Garbage = Garbage
  MaxAnnounce = 2
  MaxFaults = 1
  MaxTime = 0
PROPERTIES
  LoopKeepsPolling
CHECK_DEADLOCK FALSE
