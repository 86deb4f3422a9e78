SPECIFICATION Spec
CONSTANTS
  Clients = {c1}
  Requests = {q1}
  FocilEnabled = FALSE
  MaxStarts = 1
  MaxFaults = 0
SYMMETRY Symmetry
INVARIANTS
  ShutdownIsGraceful
CHECK_DEADLOCK FALSE
