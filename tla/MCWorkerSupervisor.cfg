SPECIFICATION Spec
CONSTANTS
  w1 = w1
  w2 = w2
  g1 = g1
  g2 = g2
  r1 = r1
  r2 = r2
  Worker = {w1, w2}
  Request = {r1}
  GpuSets <- MCTwoGpus
  Sharing = FALSE
  MaxResident = 1
  MaxCached = 1
SYMMETRY MCSymmetry
CONSTRAINT MCFewCalls
INVARIANTS
  TypeOK
  AdmittedIsServed
  ColdIsReaped
  ExitIsNoticed
  GpuPoolBound
PROPERTIES
  LifecycleOrder
CHECK_DEADLOCK FALSE
