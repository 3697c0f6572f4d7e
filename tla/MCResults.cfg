SPECIFICATION Spec
CONSTANTS
  Models = {m1, m2}
  List = List
  TTL = 1
  LIMIT = 1
  Window = 2
  Retention = 2
  StaleAge = 3
  Horizon = 4
  MaxRows = 3
INVARIANTS RollupAgrees StaleMeansOld
PROPERTIES RetentionInvisible TrimInvisible
