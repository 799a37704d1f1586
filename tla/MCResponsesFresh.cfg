SPECIFICATION MCSpec
CONSTANTS
  Names = {a, b}
  Nodes = {p, q}
  HalfWin = 3
  Capacities = {1}
  Stores = TRUE
  Reorders = FALSE
  Duplicates = FALSE
  Loses = FALSE
  MaxLink = 2
  MaxNo = 8
SYMMETRY Symmetry
INVARIANT ResponsesFresh
