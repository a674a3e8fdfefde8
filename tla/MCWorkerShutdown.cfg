SPECIFICATION SchedulerSpec
CONSTANTS
  w1 = w1
  w2 = w2
  g1 = g1
  g2 = g2
  r1 = r1
  r2 = r2
  Worker = {w1}
  Request = {r1}
  GpuSets <- MCOneGpu
  Sharing = FALSE
  MaxResident = 1
  MaxCached = 1
INVARIANTS
  ShutdownReapsEngines
CHECK_DEADLOCK FALSE
