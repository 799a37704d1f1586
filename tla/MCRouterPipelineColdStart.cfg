SPECIFICATION MCSpec
CONSTANTS
  Names = {a, b}
  PHs = {0, 3}
  RHCs = {60}
  Neighbours = {g, h}
  Nodes = {p, q}
  HalfWin = 2
  Capacities = {1}
  Thresholds = {1}
  WindowMs = 1
  NsPerMs = 1
  Word = 1000
  WallStarts = {5}
  Delays = {2}
  One = 100
  InitialTrust = 50
  Decay = 90
  Alpha = 60
  MaxHops = 20
  Samples = {0, 99}
  MaxPackets = 3
  MaxSimNs = 2
  MaxWallMs = 5
SYMMETRY Symmetry
PROPERTY AcceptanceReinforces
