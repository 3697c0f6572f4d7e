SPECIFICATION Spec
CONSTANTS
  Probes = {q1, q2}
  Window = 3
  MaxLimit = 2
  MaxSetting = 3
  MaxRetryAfter = 4
  DefaultCooldown = 2
  Headers = {0, 1, 3, 6}
  MaxTime = 9
INVARIANTS WindowBound CooldownBounded
PROPERTIES ReadLimitBound CooldownHonoured
