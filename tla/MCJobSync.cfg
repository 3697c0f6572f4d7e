SPECIFICATION Spec
CONSTANTS
  p1 = p1
  p2 = p2
  m1 = m1
  m2 = m2
  Providers = {p1, p2}
  Models = {m1, m2}
  Owner <- TwoOwners
  Handlers = {h1}
INVARIANTS NoStrayJob NoMissingJob
PROPERTY StartDropsDeleted
