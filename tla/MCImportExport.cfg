SPECIFICATION Spec
CONSTANTS
  Uuids = {u1, u2, u3}
  Names = {1, 2}
  Models = {m1}
  Proxies = {p1}
  None = None
  MaxEdits = 5
SYMMETRY Symmetry
CHECK_DEADLOCK FALSE
INVARIANTS RoundTrip DeletionWins
PROPERTY Bystanders
