SPECIFICATION FairSpec
CONSTANTS
  Clients = {c1}
  Hashes = {h1}
  Workers = {w1, w2}
  NoHash = NoHash
  Garbage = Garbage
  MaxAnnounce = 2
  MaxFaults = 1
  MaxTime = 0
INVARIANTS
  TrackedUntilSettled
  FinalWasTrue
  RecordsAreListed
  OnePollerPerAnnouncement
  GasIndexCoversRecords
  IInv
PROPERTIES
  MinedIsSettled
  LoopKeepsPolling
  ImplementsStore
  FinalUnlessReannounced
  ImplementsLifecycle
CHECK_DEADLOCK FALSE
