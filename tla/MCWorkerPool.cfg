SPECIFICATION Spec
CONSTANTS
  Keys = {k1, k2}
  Reqs = {r1, r2, r3, r4, r5, r6}
  Workers = {w1, w2}
  MaxPending = 3
  NoReq = NoReq
SYMMETRY Symm
INVARIANTS TypeOK DedupEntryIsPending NoLostWakeup InFlightIsProbed RefusalLosesNothing
PROPERTIES KeyNotForgotten ImplementsService
