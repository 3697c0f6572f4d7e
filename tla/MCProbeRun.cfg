SPECIFICATION FairSpec
CONSTANTS
  MaxConcurrency = 3
  Probes = {q1, q2, q3}
  Models = {m1}
  Outcomes = {"ok", "error", "auth", "crash"}
  Threshold = 2
  MaxFailures = 2
  MaxSems = 1
INVARIANTS OneAtATime PermitMatches StatusFollowsLatest EditsSurvive
PROPERTY EveryProbeEnds
