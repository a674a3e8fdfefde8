SPECIFICATION FairSpec
CONSTANTS
  a1 = a1
  a2 = a2
  r1 = r1
  r2 = r2
  w1 = w1
  Attempt = {a1, a2}
  Rid = {r1, r2}
  RidOf <- Distinct
  Worker = {w1}
  Capacity = 2
INVARIANTS
  TypeOK
  ServedIsAdmitted
  AdmissionHasOwner
  NoLostWaiter
  ActiveIsUnsettled
PROPERTIES
  AdmissionEnds
