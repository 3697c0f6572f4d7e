SPECIFICATION LifeFairSpec
CONSTANTS
  Keys = {k1, k2}
  Reqs = {r1, r2, r3}
  Workers = {w1}
  MaxPending = 2
  NoReq = NoReq
INVARIANTS ClientOutlivesProbes
PROPERTIES ManualIsServed ShutdownEnds ImplementsPool
