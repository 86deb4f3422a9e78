SPECIFICATION Spec
CONSTANTS
  Derived = {l1, l2, l3}
  Root = Root
  Calls = {c1, c2}
  Maps = {RootMap, m1, m2, m3}
  RootMap = RootMap
  NoMap = NoMap
  Keys = {Error, Endpoint}
  ErrorKey = Error
  Nobody = Nobody
SYMMETRY Symmetry
INVARIANTS
  FieldsAreOwn
  IInv
PROPERTIES
  FieldsNeverChange
CHECK_DEADLOCK FALSE
