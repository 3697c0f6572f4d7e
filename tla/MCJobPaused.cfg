SPECIFICATION Spec
CONSTANTS
  p1 = p1
  p2 = p2
  m1 = m1
  m2 = m2
  Providers = {p1}
  Models = {m1, m2}
  Owner <- OneOwner
  Handlers = {h1}
PROPERTY ScheduleLeftAlone
