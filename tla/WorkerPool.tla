----------------------------- MODULE WorkerPool -----------------------------
(***************************************************************************)
(* The worker pool of core/scheduler.py (_worker_loop, start_workers,      *)
(* stop_workers) draining the queue of TriggerQueue, with the trigger      *)
(* sources as an environment that enqueues any key at any priority.        *)
(*                                                                         *)
(* A worker runs from one await to the next in one step.  From the end of  *)
(* a probe that is: mark_done, the test of the shutdown event, and an      *)
(* attempt to dequeue that either marks a key in flight or goes to wait.   *)
(***************************************************************************)
EXTENDS TriggerQueue

VARIABLES
    pc,         \* "ready": task created, at the top of its loop;
                \* "dequeue": inside dequeue; "probing"; "stopped"
    held,       \* the request a worker is probing
    cancelled   \* stop_workers timed out and cancelled the tasks

vars == <<queues, req, dedup, inFlight, wake, waiters, closed, pc, held, cancelled>>

TypeOK ==
    /\ QueueTypeOK
    /\ pc \in [Workers -> {"ready", "dequeue", "probing", "stopped"}]
    /\ held \in [Workers -> Reqs \cup {NoReq}]
    /\ cancelled \in BOOLEAN

Init ==
    /\ QueueInit
    /\ pc = [w \in Workers |-> "ready"]
    /\ held = [w \in Workers |-> NoReq]
    /\ cancelled = FALSE

Held == {held[w] : w \in Workers} \ {NoReq}
Unused == Reqs \ (Queued \cup Held)

-----------------------------------------------------------------------------
(* The trigger sources: periodic jobs, sweeps, dashboards waking, the API.  *)

Trigger ==
    /\ \E k \in Keys, r \in Unused :
          \/ \E p \in Tiers : Enqueue(k, p, r)
          \/ EnqueueEvicting(k, r)
    /\ UNCHANGED <<pc, held, cancelled>>

TriggerRefused ==
    /\ \E k \in Keys : EnqueueRefused(k)
    /\ UNCHANGED <<pc, held, cancelled>>

-----------------------------------------------------------------------------
(* A step of a worker that reaches queue.dequeue(); `flying' is the         *)
(* in-flight set as the step finds it, `done' what it has finished with.    *)

TakeNext(w, flying, done) ==
    /\ LiveTiers # {}
    /\ IF closed
         THEN \* "Re-queue ...": the closed queue refuses it, the loop breaks
              /\ Remove(TakeCut, {}, done)
              /\ inFlight' = flying
              /\ pc' = [pc EXCEPT ![w] = "stopped"]
              /\ held' = [held EXCEPT ![w] = NoReq]
         ELSE /\ Remove(TakeCut, {NextReq}, done)
              /\ inFlight' = flying \cup {req[NextReq].key}
              /\ pc' = [pc EXCEPT ![w] = "probing"]
              /\ held' = [held EXCEPT ![w] = NextReq]
    /\ UNCHANGED <<wake, waiters>>

Wait(w, flying, done) ==
    /\ LiveTiers = {}
    /\ Remove(DrainCut, {}, done)
    /\ inFlight' = flying
    /\ wake' = FALSE
    /\ waiters' = waiters \cup {w}
    /\ pc' = [pc EXCEPT ![w] = "dequeue"]
    /\ held' = [held EXCEPT ![w] = NoReq]

Dequeue(w, flying, done) == TakeNext(w, flying, done) \/ Wait(w, flying, done)

\* The first iteration of the loop.
Start(w) ==
    /\ pc[w] = "ready"
    /\ ~closed
    /\ Dequeue(w, inFlight, {})
    /\ UNCHANGED <<closed, cancelled>>

\* _wake.wait() returned: dequeue tries again.
Resume(w) ==
    /\ pc[w] = "dequeue"
    /\ w \notin waiters
    /\ Dequeue(w, inFlight, {})
    /\ UNCHANGED <<closed, cancelled>>

\* _run_probe returned, raised or was cancelled (it swallows CancelledError).
Finish(w) ==
    /\ pc[w] = "probing"
    /\ ~closed
    /\ Dequeue(w, Unmark(held[w]), {held[w]})
    /\ UNCHANGED <<closed, cancelled>>

\* The test at the top of the loop finds the shutdown event set.
Stop(w) ==
    /\ closed
    /\ pc[w] \in {"ready", "probing"}
    /\ pc' = [pc EXCEPT ![w] = "stopped"]
    /\ inFlight' = IF pc[w] = "probing" THEN Unmark(held[w]) ELSE inFlight
    /\ req' = [r \in Reqs |-> IF r = held[w] THEN Freed ELSE req[r]]
    /\ held' = [held EXCEPT ![w] = NoReq]
    /\ UNCHANGED <<queues, dedup, wake, waiters, closed, cancelled>>

-----------------------------------------------------------------------------
(* stop_workers.                                                            *)

StopWorkers ==
    /\ ~closed
    /\ Close
    /\ UNCHANGED <<pc, held, cancelled>>

\* (mutant) the workers are awaited without a timeout
Timeout_None == FALSE
\* wait_for ran into its timeout, which may be before or after any probe ends.
Timeout ==
    /\ closed
    /\ ~cancelled
    /\ \E w \in Workers : pc[w] # "stopped"
    /\ cancelled' = TRUE
    /\ UNCHANGED <<queues, req, dedup, inFlight, wake, waiters, closed, pc, held>>

\* A task inside dequeue is cancelled; one that is probing reaches Stop.
Cancel(w) ==
    /\ cancelled
    /\ pc[w] = "dequeue"
    /\ pc' = [pc EXCEPT ![w] = "stopped"]
    /\ waiters' = waiters \ {w}
    /\ UNCHANGED <<queues, req, dedup, inFlight, wake, closed, held, cancelled>>

\* All workers have ended: the process exits.
Terminated ==
    /\ \A w \in Workers : pc[w] = "stopped"
    /\ UNCHANGED vars

WorkerStep(w) == Start(w) \/ Resume(w) \/ Finish(w) \/ Stop(w) \/ Cancel(w)

Next ==
    \/ Trigger
    \/ TriggerRefused
    \/ \E w \in Workers : WorkerStep(w)
    \/ StopWorkers
    \/ Timeout
    \/ Terminated

Spec == Init /\ [][Next]_vars

-----------------------------------------------------------------------------
(* Properties.                                                              *)

Pending(k) == {r \in Queued : req[r].key = k /\ ~req[r].superseded}
Probing(w) == pc[w] = "probing"

\* An entry of the dedup map refers to a request that is still queued, for
\* that key, in its own tier, and not superseded.  An entry left behind would
\* drop every later periodic probe of the key, for good.
DedupEntryIsPending ==
    \A k \in Keys : dedup[k] # NoReq =>
        LET r == dedup[k]
        IN  r \in In(req[r].priority) /\ req[r].key = k /\ ~req[r].superseded

\* No worker sleeps on the event while any request is queued: enqueue and the
\* clear-then-wait of dequeue cannot miss each other.
NoLostWakeup == waiters # {} => Queued = {} /\ ~wake

\* A key is marked in flight only while a worker is probing it, so PERIODIC
\* and SWEEP triggers of a key are not dropped when nobody is probing it.
InFlightIsProbed ==
    \A k \in inFlight : \E w \in Workers : Probing(w) /\ req[held[w]].key = k

\* The three tiers together never hold more than max_pending requests,
\* superseded ones counted.
CapacityRespected == TotalPending <= MaxPending

\* A request that a worker has taken is no longer queued, is not superseded
\* behind its back, and belongs to that worker alone.
ServedOnce ==
    /\ Held \cap Queued = {}
    /\ \A w \in Workers : held[w] # NoReq => ~req[held[w]].superseded
    /\ \A w, v \in Workers : held[w] = held[v] /\ held[w] # NoReq => w = v

\* A MANUAL call answered DROPPED_FULL finds only MANUAL requests queued, and
\* superseded nothing before it was refused (the bump comes first in the code).
RefusalLosesNothing ==
    \A k \in Keys : Admissible(k, MANUAL) /\ Full /\ VictimTiers = {} =>
        /\ Queued = In(MANUAL)
        /\ Bump(k) = req

\* A key with a live request pending keeps one until a worker takes it: being
\* bumped replaces it, and only a MANUAL that lands on a full queue evicts it.
KeyNotForgotten ==
    [][\A k \in Keys : Pending(k) # {} =>
          \/ Pending(k)' # {}
          \/ \E w \in Workers : held'[w] # held[w] /\ req'[held'[w]].key = k
          \/ Full /\ ~(In(MANUAL)' \subseteq In(MANUAL))
          \/ closed]_vars

\* Liveness (under the fairness of Lifecycle): an accepted MANUAL request is
\* probed, unless the pool is stopped first, whatever else keeps arriving.
ManualIsServed == \A r \in Reqs : r \in In(MANUAL) ~> r \in Held \/ closed

\* The queue and its pool implement TriggerService: the pending requests are
\* the queued ones that are not superseded.
Service == INSTANCE TriggerService WITH
    pending <- [r \in {x \in Queued : ~req[x].superseded} |->
                  [key |-> req[r].key, priority |-> req[r].priority]],
    serving <- held,
    open    <- ~closed
ImplementsService == Service!Spec

-----------------------------------------------------------------------------
(* What the docs and comments say and the code does not do.                 *)

\* trigger_queue.py:11: a key that is already pending is not queued again, so
\* no two live requests of one key are pending together.
OnePendingPerKey == \A k \in Keys : Cardinality(Pending(k)) <= 1

\* trigger_queue.py:94: _in_flight holds the keys currently being probed.
ProbedKeyIsInFlight ==
    \A w \in Workers : Probing(w) => req[held[w]].key \in inFlight

\* trigger_queue.py:208: closing lets blocked dequeues exit, so none is left
\* waiting on a closed queue.
NoneBlockedOnClosed == closed => waiters = {}

\* scheduler.py:1067: a MANUAL request taken during shutdown is put back.
ManualSurvivesShutdown == [][closed => In(MANUAL) \subseteq In(MANUAL)']_vars

=============================================================================
