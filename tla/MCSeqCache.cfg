SPECIFICATION Spec
CONSTANTS
  Names = {a, b, c, d}
  Nodes = {p, q, r, s, t}
  HalfWin = 3
  Capacities <- MCCapacities
SYMMETRY Symmetry
INVARIANTS
  TypeOK
  IteratorsValid
  SizeBound
PROPERTY ImplementsFilter
