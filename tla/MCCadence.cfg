SPECIFICATION Spec
CONSTANTS
  Base = 2
  IDLE_MULTIPLIER = 2
  Tiers <- TestTiers
  Multipliers <- TestMultipliers
  MinJitter = 1
  MinAge = 1
  Zone = 0
  Slack = 1
  MaxStreak = 4
  MaxFactor = 8
  MaxPushed = 4
  Horizon = 65
INVARIANTS NoFalseStale FailuresShortenTheGap
