SPECIFICATION Spec
CONSTANT Ids = {a, b, c, d}
SYMMETRY Symmetry
INVARIANTS
  OrderIsTopological
  OrderIsComplete
PROPERTIES
  KeepsGraphContract
CHECK_DEADLOCK FALSE
