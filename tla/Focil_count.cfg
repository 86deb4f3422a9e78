SPECIFICATION Spec
CONSTANTS
  Beacons = {b1}
  Endpoints = {e1}
  Txs = {t1, t2}
  MaxSlot = 1
  MaxEvents = 2
  MaxHeads = 1
  MaxFaults = 0
SYMMETRY Symmetry
INVARIANTS
  ScoreCountsStoredList
CHECK_DEADLOCK FALSE
