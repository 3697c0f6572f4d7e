---------------------------- MODULE TriggerQueue ----------------------------
(***************************************************************************)
(* core/trigger_queue.py: the one queue all probe triggers go through.     *)
(*                                                                         *)
(* Three FIFO tiers, a map from a key to the request pending for it, the   *)
(* set of keys being probed and one asyncio.Event the idle workers wait    *)
(* on.  No critical section of the code awaits anything, so its lock is    *)
(* never contended: an enqueue call, and one attempt of dequeue between    *)
(* two waits, are each a single step of the event loop and a single action *)
(* here.  The drop counters only feed stats() and are left out, so a call  *)
(* that is refused changes nothing and has no action, except               *)
(* EnqueueRefused, which in the code writes before it refuses.             *)
(***************************************************************************)
EXTENDS Naturals, Sequences, FiniteSetsExt

CONSTANTS
    Keys,        \* the (provider, model, target) triples
    Reqs,        \* identities of TriggerRequest objects (a pool: reused once freed)
    Workers,     \* the tasks that call dequeue
    MaxPending,  \* max_pending: 1000 in production
    NoReq        \* "no object": a missing entry of the dedup map

ASSUME QueueAssumption ==
    /\ Keys # {}
    /\ NoReq \notin Reqs
    /\ MaxPending \in Nat \ {0}

VARIABLES
    queues,      \* _queues: per tier, the objects in it, oldest first
    req,         \* the fields of every request object
    dedup,       \* _dedup: key -> object, NoReq if absent
    inFlight,    \* _in_flight: keys marked as being probed
    wake,        \* _wake: the flag of the event
    waiters,     \* tasks suspended in _wake.wait(), not yet resolved
    closed       \* _closed (and _shutdown_event, set in the same step)

queueVars == <<queues, req, dedup, inFlight, wake, waiters, closed>>

\* TriggerPriority
PERIODIC == 1
SWEEP    == 2
MANUAL   == 3
Tiers    == {PERIODIC, SWEEP, MANUAL}

Request == [key : Keys, priority : Tiers, superseded : BOOLEAN]

\* What the model writes over an object nothing refers to any more.
Freed == [key |-> CHOOSE k \in Keys : TRUE, priority |-> PERIODIC, superseded |-> FALSE]

QueueTypeOK ==
    /\ queues \in [Tiers -> Seq(Reqs)]
    /\ req \in [Reqs -> Request]
    /\ dedup \in [Keys -> Reqs \cup {NoReq}]
    /\ inFlight \in SUBSET Keys
    /\ wake \in BOOLEAN
    /\ waiters \in SUBSET Workers
    /\ closed \in BOOLEAN

QueueInit ==
    /\ queues = [t \in Tiers |-> << >>]
    /\ req = [r \in Reqs |-> Freed]
    /\ dedup = [k \in Keys |-> NoReq]
    /\ inFlight = {}
    /\ wake = FALSE
    /\ waiters = {}
    /\ closed = FALSE

-----------------------------------------------------------------------------
(* Reading the queue.                                                      *)

In(t) == {queues[t][i] : i \in 1 .. Len(queues[t])}
Queued == In(PERIODIC) \cup In(SWEEP) \cup In(MANUAL)
Live(t) == {i \in 1 .. Len(queues[t]) : ~req[queues[t][i]].superseded}

\* _total_pending: superseded requests still count.
TotalPending == Len(queues[PERIODIC]) + Len(queues[SWEEP]) + Len(queues[MANUAL])

\* existing is not None and not existing.superseded
HasPending(k) == dedup[k] # NoReq /\ ~req[dedup[k]].superseded

\* The two ways enqueue answers DEDUPED before it looks at the capacity.
InFlightDup(k, p) == k \in inFlight /\ p # MANUAL
PendingDup(k, p)  == HasPending(k) /\ (p # MANUAL \/ req[dedup[k]].priority >= MANUAL)

Admissible(k, p) == ~closed /\ ~InFlightDup(k, p) /\ ~PendingDup(k, p)
Full == TotalPending >= MaxPending

-----------------------------------------------------------------------------
(* Removing heads.  `cut' says how many objects leave the head of each      *)
(* tier; the code pops the dedup entry of the KEY of each removed object,   *)
(* whichever object the entry refers to.                                    *)

NoCut == [t \in Tiers |-> 0]
Removed(cut) == {r \in Queued : \E t \in Tiers : \E i \in 1 .. cut[t] : queues[t][i] = r}
QueuesWithout(cut) == [t \in Tiers |-> SubSeq(queues[t], cut[t] + 1, Len(queues[t]))]
\* (mutant) the entry of a removed request is not popped
DedupWithout_NotPopped(cut) == dedup
DedupWithout(cut) ==
    [k \in Keys |-> IF \E r \in Removed(cut) : req[r].key = k THEN NoReq ELSE dedup[k]]

\* (mutant) only PERIODIC can be evicted
VictimTiers_PeriodicOnly == {t \in Tiers : t < SWEEP /\ queues[t] # << >>}
\* _evict_lower_than(MANUAL): the oldest of the lowest non-empty tier.
VictimTiers == {t \in Tiers : t < MANUAL /\ queues[t] # << >>}
EvictCut == [NoCut EXCEPT ![Min(VictimTiers)] = 1]

\* One attempt of dequeue: drop the superseded heads of every tier from the
\* highest down, and stop behind the first live request.
LiveTiers == {t \in Tiers : Live(t) # {}}
TopTier == Max(LiveTiers)
FirstLive(t) == Min(Live(t))
NextReq == queues[TopTier][FirstLive(TopTier)]
\* (mutant) the lower tiers are drained too
TakeCut_DrainsLower ==
    [t \in Tiers |-> IF t = TopTier THEN FirstLive(t) ELSE Len(queues[t])]
TakeCut ==
    [t \in Tiers |-> IF t > TopTier THEN Len(queues[t])
                     ELSE IF t = TopTier THEN FirstLive(t)
                     ELSE 0]
DrainCut == [t \in Tiers |-> Len(queues[t])]

-----------------------------------------------------------------------------
(* enqueue.                                                                 *)

\* (mutant) an old MANUAL request, or one of another key, is marked as well
Bump_All(k) == [r \in Reqs |-> [req[r] EXCEPT !.superseded = r \in Queued]]
\* MANUAL bumps PERIODIC/SWEEP: the old object is marked, and stays queued.
Bump(k) == [r \in Reqs |-> IF HasPending(k) /\ r = dedup[k]
                             THEN [req[r] EXCEPT !.superseded = TRUE]
                             ELSE req[r]]

\* (mutant) the event is not set
SetWake_Forgotten == UNCHANGED <<wake, waiters>>
\* asyncio.Event.set: resolves the waiters, but only if the flag was clear.
SetWake ==
    /\ wake' = TRUE
    /\ waiters' = IF wake THEN waiters ELSE {}

\* Step 4: "Land the request", behind the objects `cut' leaves.
Land(k, p, r, cut) ==
    /\ req' = [x \in Reqs |->
                 IF x = r THEN [key |-> k, priority |-> p, superseded |-> FALSE]
                 ELSE IF x \in Removed(cut) THEN Freed
                 ELSE Bump(k)[x]]
    /\ dedup' = [DedupWithout(cut) EXCEPT ![k] = r]
    /\ queues' = [QueuesWithout(cut) EXCEPT ![p] = Append(@, r)]
    /\ SetWake
    /\ UNCHANGED <<inFlight, closed>>

Enqueue(k, p, r) ==
    /\ Admissible(k, p)
    /\ ~Full
    /\ Land(k, p, r, NoCut)

EnqueueEvicting(k, r) ==
    /\ Admissible(k, MANUAL)
    /\ Full
    /\ VictimTiers # {}
    /\ Land(k, MANUAL, r, EvictCut)

\* DROPPED_FULL: nothing to evict; the mark on the bumped object stays.
EnqueueRefused(k) ==
    /\ Admissible(k, MANUAL)
    /\ Full
    /\ VictimTiers = {}
    /\ req' = Bump(k)
    /\ UNCHANGED <<queues, dedup, inFlight, wake, waiters, closed>>

-----------------------------------------------------------------------------
(* dequeue, in-flight marks, close.  `kept' is what of the removed objects  *)
(* the caller still holds afterwards, `released' what it lets go.           *)

Remove(cut, kept, released) ==
    /\ queues' = QueuesWithout(cut)
    /\ dedup' = DedupWithout(cut)
    /\ req' = [r \in Reqs |-> IF r \in (Removed(cut) \cup released) \ kept
                                THEN Freed ELSE req[r]]

\* (mutants) the key stays marked; the request is stored instead of its key
Unmark_Forgotten(r) == inFlight
Unmark_Request(r) == inFlight \cup {r}
\* mark_done
Unmark(r) == inFlight \ {req[r].key}

\* close
Close ==
    /\ closed' = TRUE
    /\ SetWake
    /\ UNCHANGED <<queues, req, dedup, inFlight>>

=============================================================================
