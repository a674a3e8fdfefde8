SPECIFICATION CatalogSpec
CONSTANTS
  a = a
  b = b
  x = x
  y = y
  h1 = h1
  h2 = h2
  Model = {a, b}
  Uploaded = {a}
  Shape = {1}
  Context = {1, 2}
  Machine = {x, y}
  Handler = {h1, h2}
  MaxRows = 2
SYMMETRY MCSymmetry
INVARIANTS
  CatalogTypeOK
  LimitMatchesProfiles
  ProfilesAreLocal
  AvailableIsValidated
  JobIsRun
