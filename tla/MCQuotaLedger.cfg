SPECIFICATION Spec
CONSTANTS
  a1 = a1
  r1 = r1
  r2 = r2
  r3 = r3
  Account = {a1}
  Request = {r1, r2, r3}
  Cost = {1, 3}
  Limit = {2, 4}
  MaxLifetime = 6
SYMMETRY MCSymmetry
INVARIANTS
  TypeOK
  ChargeWithinReservation
  BaselineWithinLifetime
PROPERTIES
  SettlementIsFinal
  TokensConserved
  LifetimeNeverShrinks
