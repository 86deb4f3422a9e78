SPECIFICATION FairSpec
CONSTANTS
  Clients = {c1, c2}
  Requests = {q1}
  FocilEnabled = TRUE
  MaxStarts = 2
  MaxFaults = 2
INVARIANTS
  CountedHaveEnded
  IInv
PROPERTIES
  FlushSparesOwnData
  SignalEndsProcess
CHECK_DEADLOCK FALSE
