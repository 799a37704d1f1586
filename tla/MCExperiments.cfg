SPECIFICATION MCSpec
CONSTANTS
  Names = {a}
  PHs = {0}
  RHCs = {0}
  Neighbours = {h}
  Nodes = {p}
  HalfWin = 2
  Capacities = {1000}
  Thresholds = {10, 60}
  WindowMs = 1
  NsPerMs = 1
  Word = 100000
  WallStarts = {5}
  Delays = {1}
  One = 100
  InitialTrust = 50
  Decay = 90
  Alpha = 60
  MaxHops = 20
  Samples = {0}
  Topologies = {"geant"}
  AttackerCounts = {5}
  MaxHistory = 2
  MaxPackets = 3
  MaxSent = 3
  MaxMade = 3
INVARIANTS
  SameConfiguration
  Accounted
  WholeHeadersPass
  RatesInRange
CHECK_DEADLOCK FALSE
