SPECIFICATION MCSpec
CONSTANTS
  Names = {a, b}
  PHs = {0, 2}
  Thresholds = {2}
  WindowMs = 1
  NsPerMs = 2
  Word = 1000
  WallStarts <- MCWallStarts
  Delays = {1, 3}
  MaxSimNs = 6
  MaxWallMs = 5
  MaxRecorded = 4
SYMMETRY Symmetry
INVARIANT ClampNeverInflates
