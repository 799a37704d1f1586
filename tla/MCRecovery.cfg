SPECIFICATION Spec
CONSTANTS
  Names = {a, b}
  Nodes = {p, q}
  HalfWin = 4
  Capacities = {1, 2}
  MaxResets = 3
INVARIANT RejectionBound
PROPERTY Recovers
