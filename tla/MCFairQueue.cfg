SPECIFICATION Spec
CONSTANTS
  t1 = t1
  t2 = t2
  t3 = t3
  r1 = r1
  r2 = r2
  r3 = r3
  r4 = r4
  Tenant = {t1, t2, t3}
  Request = {r1, r2, r3, r4}
  Cost = {1, 5}
  Quantum = 2
  TotalCapacity = 3
  TenantCapacity = 2
  MaxDeficit = 12
SYMMETRY MCSymmetry
INVARIANTS
  TypeOK
  TurnsAreForWaiting
  BoundedOvertaking
