SPECIFICATION MCResidencySpec
CONSTANTS
  w1 = w1
  w2 = w2
  r1 = r1
  g1 = g1
  g2 = g2
  Worker = {w1, w2}
  Request = {r1}
  GpuSets <- MCGpuSets
  MaxPlan = 1
INVARIANTS
  TypeOK
  ProbeIsAlone
  ReadyIsCold
PROPERTIES
  ValidationYields
  MaintenanceCompletes
