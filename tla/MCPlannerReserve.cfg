SPECIFICATION Spec
CONSTANTS
  w1 = w1
  w2 = w2
  w3 = w3
  g1 = g1
  g2 = g2
  a = a
  b = b
  c = c
  Worker = {w1, w2}
  Gpu = {g1}
  Model = {a, b}
  Profile <- MCHeavyProfile
  Planners = {"cache"}
  Preload <- MCNoPreload
  Vram = 10
  Reserved = 1
  SleepReserve = 1
  MaxWorkers = 2
  MaxCached = 2
  ScaleWindow = 1
  MarginInverse = 20
  MaxRequests = 1
INVARIANT ResidualsFit
