SPECIFICATION FairSpec
CONSTANTS
  Beacons = {b1, b2}
  Endpoints = {e1}
  Txs = {t1, t2}
  MaxSlot = 1
  MaxEvents = 2
  MaxHeads = 2
  MaxFaults = 1
INVARIANTS
  ReportMatchesStoredList
  ScoredSlotHasList
  IInv
PROPERTIES
  ImplementsLog
  BlockGetsReport
CHECK_DEADLOCK FALSE
