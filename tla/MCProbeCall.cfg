SPECIFICATION CallSpec
CONSTANTS
  Statuses = {200, 304, 401, 403, 404, 408, 429, 500}
  Bytes = {"a", "b"}
  Terminator <- TestTerminator
  MaxBytes = 5
INVARIANTS SuccessIsComplete FailureIsClassified
CHECK_DEADLOCK FALSE
