SPECIFICATION Spec
CONSTANTS
  Beacons = {b1}
  Endpoints = {e1}
  Txs = {t1}
  MaxSlot = 2
  MaxEvents = 1
  MaxHeads = 1
  MaxFaults = 0
SYMMETRY Symmetry
INVARIANTS
  ReportIsOfItsSlot
CHECK_DEADLOCK FALSE
