SPECIFICATION Spec
CONSTANTS
  Hashes = {h1, h2}
  NoHash = NoHash
  Workers = {w1, w2}
  Prices = {1, 3, 9}
  Nonces = {1}
  Addresses = {a1}
  NoAddress = NoAddress
  Types = {2}
  NoScore = NoScore
  Half = 4
  Exact = 2
  MaxSaves = 3
SYMMETRY Symmetry
INVARIANTS
  IInv
  GasRangesAgree
  LastUpdateIsIndexed
  GasFilterHidesNone
  GroupsRefineFilters
CHECK_DEADLOCK FALSE
