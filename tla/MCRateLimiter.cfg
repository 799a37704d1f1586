SPECIFICATION MCSpec
CONSTANTS
  Names = {a, b}
  PHs = {0, 2}
  Thresholds = {0, 2, 4}
  WindowMs = 1
  NsPerMs = 2
  Word = 1000
  WallStarts <- MCWallStarts
  Delays = {1, 3}
  MaxSimNs = 6
  MaxWallMs = 4
  MaxRecorded = 5
INVARIANTS
  TypeOK
  BurstBound
PROPERTY ImplementsWindow
SYMMETRY Symmetry
