SPECIFICATION MCSpec
CONSTANTS
  Names = {a, b}
  Nodes = {p, q}
  HalfWin = 3
  Capacities = {1}
  Stores = TRUE
  Reorders = TRUE
  Duplicates = TRUE
  Loses = TRUE
  MaxLink = 2
  MaxNo = 8
SYMMETRY Symmetry
INVARIANT TypeOK
PROPERTY NewerIffAccepted
