------------------------------ MODULE ProbeRun ------------------------------
(***************************************************************************)
(* _run_probe of core/scheduler.py: the chat probes of one provider, from  *)
(* the row they resolve, through the provider's semaphore, to the outcome  *)
(* they record, broadcast and reschedule by.  The session keeps the row as *)
(* it was resolved (expire_on_commit=False), and an UPDATE writes only the *)
(* columns whose value the probe has changed.                              *)
(*                                                                         *)
(* A semaphore object is a number: sync_all_jobs can drop the current one  *)
(* while it is held, and the next probe makes another.  The gates inside   *)
(* (cooldown and rate limit) are in ProviderGate; here they skip or admit. *)
(***************************************************************************)
EXTENDS Naturals, Sequences, FiniteSets

CONSTANTS
    MaxConcurrency, \* the setting: permits of the root semaphore
    Probes,      \* workers running _run_probe for this provider
    Models,      \* its chat models
    Outcomes,    \* the outcomes of a call that are tried
    Threshold,   \* failure confirmations until "offline"
    MaxFailures, \* bound on failures in a row, for model checking
    MaxSems      \* bound on semaphore objects, for model checking

\* What a prober returns; "crash": an exception or the watchdog's timeout.
AllOutcomes == {"ok", "error", "auth", "limited", "missing", "crash"}

\* start_workers raises the setting to one worker.
ASSUME ProbeAssumption ==
    /\ MaxConcurrency \in Nat
    /\ IsFiniteSet(Probes)
    /\ Cardinality(Probes) <= IF MaxConcurrency < 1 THEN 1 ELSE MaxConcurrency
    /\ Models # {}
    /\ "ok" \in Outcomes /\ Outcomes \subseteq AllOutcomes
    /\ Threshold \in Nat \ {0}
    /\ MaxFailures \in Nat
    /\ MaxSems \in Nat \ {0}

VARIABLES
    pc,       \* "idle", "root", "waiting", "gate", "call", "record", "tell", "admin"
    of,       \* of[q]: the model being probed
    seen,     \* seen[q]: the columns of the row as the session holds them
    outcome,  \* outcome[q]: of the call
    row,      \* row[m]: enabled, status and consecutive_failures in the database
    line,     \* line[s]: probes waiting for semaphore s, in order
    holders,  \* holders[s]: probes inside semaphore s
    current,  \* the semaphore _provider_sems holds
    wanted,   \* history: wanted[m], the enabled column as last saved by a user
    last,     \* history: last[m], the outcome last committed; "none" at first
    trail,    \* history: trail[m], failures committed since the last success
    passed,   \* history: probes whose model another probe has recorded since they read it
    blurred,  \* history: models with such a probe recorded, and no clean success since
    told      \* history: probes whose outcome has been broadcast

vars == <<pc, of, seen, outcome, row, line, holders, current, wanted, last, trail,
          passed, blurred, told>>
recorded == <<last, trail, blurred>>
hist == <<wanted, recorded>>
sems == <<line, holders, current>>

Sems == 1 .. MaxSems
Statuses == {"unknown", "online", "suspect", "offline", "unauthorized", "rate_limited", "not_found"}
Rows == [enabled : BOOLEAN, status : Statuses, failures : 0 .. MaxFailures]
NewRow == [enabled |-> TRUE, status |-> "unknown", failures |-> 0]

\* What the variables of a probe that is not running are set to.
AnyModel == CHOOSE m \in Models : TRUE

TypeOK ==
    /\ pc \in [Probes -> {"idle", "root", "waiting", "gate", "call", "record", "tell", "admin"}]
    /\ of \in [Probes -> Models]
    /\ seen \in [Probes -> Rows]
    /\ outcome \in [Probes -> Outcomes]
    /\ row \in [Models -> Rows]
    /\ line \in [Sems -> Seq(Probes)]
    /\ holders \in [Sems -> SUBSET Probes]
    /\ current \in Sems
    /\ wanted \in [Models -> BOOLEAN]
    /\ last \in [Models -> Outcomes \union {"none"}]
    /\ trail \in [Models -> 0 .. MaxFailures]
    /\ passed \subseteq Probes
    /\ blurred \subseteq Models
    /\ told \subseteq Probes

Init ==
    /\ pc = [q \in Probes |-> "idle"]
    /\ of = [q \in Probes |-> AnyModel]
    /\ seen = [q \in Probes |-> NewRow]
    /\ outcome = [q \in Probes |-> "ok"]
    /\ row = [m \in Models |-> NewRow]
    /\ line = [s \in Sems |-> << >>]
    /\ holders = [s \in Sems |-> {}]
    /\ current = 1
    /\ wanted = [m \in Models |-> TRUE]
    /\ last = [m \in Models |-> "none"]
    /\ trail = [m \in Models |-> 0]
    /\ passed = {}
    /\ blurred = {}
    /\ told = {}

-----------------------------------------------------------------------------
(* The semaphore.                                                           *)

\* The waiter of q leaves the line: deque.remove takes its first occurrence.
Without(s, q) ==
    IF \A i \in 1 .. Len(s) : s[i] # q THEN s
    ELSE LET k == CHOOSE i \in 1 .. Len(s) : s[i] = q /\ \A j \in 1 .. i - 1 : s[j] # q
         IN  [i \in 1 .. Len(s) - 1 |-> s[IF i < k THEN i ELSE i + 1]]

\* (mutant) a skipped probe keeps the permit
Left_Held(q) == [s \in Sems |-> IF pc[q] = "gate" THEN holders[s] ELSE holders[s] \ {q}]
\* Leaving `async with root, psem', however the block ends.
Left(q) == [s \in Sems |-> holders[s] \ {q}]

\* (mutant) two permits
HasPermit_Two(s) == Cardinality(holders[s]) < 2
HasPermit(s) == holders[s] = {}

Move(q, from, to) == pc[q] = from /\ pc' = [pc EXCEPT ![q] = to]

-----------------------------------------------------------------------------
(* What a failure makes of the row.                                         *)

\* (mutant) "offline" comes one failure late
FailureStatus_Late(o, n) ==
    CASE o = "auth" -> "unauthorized" [] o = "limited" -> "rate_limited" [] o = "missing" -> "not_found"
      [] OTHER -> IF n > Threshold THEN "offline" ELSE "suspect"
\* _model_status_from_failure
FailureStatus(o, n) ==
    CASE o = "auth" -> "unauthorized" [] o = "limited" -> "rate_limited" [] o = "missing" -> "not_found"
      [] OTHER -> IF n >= Threshold THEN "offline" ELSE "suspect"

\* (mutant) a success leaves the counter
Updated_NoReset(c, o) ==
    IF o = "ok" THEN [c EXCEPT !.status = "online"]
    ELSE [c EXCEPT !.failures = @ + 1, !.status = FailureStatus(o, c.failures + 1)]
\* _update_model_status, on the columns the session holds.
Updated(c, o) ==
    IF o = "ok" THEN [c EXCEPT !.status = "online", !.failures = 0]
    ELSE [c EXCEPT !.failures = @ + 1, !.status = FailureStatus(o, c.failures + 1)]

\* (mutant) the UPDATE writes every column
Flushed_AllColumns(old, new, stored) == new
\* The UPDATE writes the columns that differ from those loaded.
Flushed(old, new, stored) ==
    [f \in DOMAIN stored |-> IF new[f] # old[f] THEN new[f] ELSE stored[f]]

-----------------------------------------------------------------------------
(* The steps of a probe.                                                    *)

\* _run_probe returns: its session and its local variables are gone.
End(q) ==
    /\ pc' = [pc EXCEPT ![q] = "idle"]
    /\ of' = [of EXCEPT ![q] = AnyModel]
    /\ seen' = [seen EXCEPT ![q] = NewRow]
    /\ outcome' = [outcome EXCEPT ![q] = "ok"]
    /\ told' = told \ {q}
    /\ passed' = passed \ {q}
    /\ holders' = Left(q)
    /\ UNCHANGED <<row, current, hist>>

\* _resolve_probe_target, then the root semaphore, then the line for the provider's.
\* The root semaphore has the permits of the setting: enough for every worker, or,
\* with a setting of 0, none, and then no one ever leaves "root".  The queue hands
\* out a MANUAL request whatever is in flight, so other probes of the model may run;
\* a PERIODIC or SWEEP one begins only if none does, which is the same step.
\* (A target that is not enabled is skipped, and nothing changes.)
Start(q, m) ==
    /\ row[m].enabled
    /\ of' = [of EXCEPT ![q] = m]
    /\ seen' = [seen EXCEPT ![q] = row[m]]
    /\ IF MaxConcurrency = 0 THEN Move(q, "idle", "root") /\ UNCHANGED line
       ELSE Move(q, "idle", "waiting") /\ line' = [line EXCEPT ![current] = Append(@, q)]
    /\ UNCHANGED <<outcome, row, holders, current, hist, passed, told>>

\* asyncio.Semaphore wakes its waiters in order.
Enter(q) ==
    /\ Move(q, "waiting", "gate")
    /\ \E s \in Sems :
           /\ line[s] # << >>
           /\ Head(line[s]) = q
           /\ HasPermit(s)
           /\ line' = [line EXCEPT ![s] = Tail(@)]
           /\ holders' = [holders EXCEPT ![s] = @ \union {q}]
    /\ UNCHANGED <<of, seen, outcome, row, current, hist, passed, told>>

\* The cooldown is active, or the window is full.
Skip(q) == pc[q] = "gate" /\ End(q) /\ UNCHANGED line

Admit(q) ==
    /\ Move(q, "gate", "call")
    /\ UNCHANGED <<of, seen, outcome, row, sems, hist, passed, told>>

\* The prober returns or raises, or wait_for gives up.
Return(q, o) ==
    /\ Move(q, "call", "record")
    /\ o # "ok" => trail[of[q]] < MaxFailures /\ seen[q].failures < MaxFailures
    /\ outcome' = [outcome EXCEPT ![q] = o]
    /\ UNCHANGED <<of, seen, row, sems, hist, passed, told>>

\* The columns of m are written while q still holds the old ones.
Holding(m) == {r \in Probes : of[r] = m /\ pc[r] \in {"root", "waiting", "gate", "call", "record"}}

\* record_outcome; session.get finds the row in the session.  The result of an
\* exception is returned at once, without a broadcast.
Record(q) ==
    LET m == of[q]
        ok == outcome[q] = "ok"
    IN  /\ pc[q] = "record"
        /\ ok \/ trail[m] < MaxFailures
        /\ row' = [row EXCEPT ![m] = Flushed(seen[q], Updated(seen[q], outcome[q]), @)]
        /\ last' = [last EXCEPT ![m] = outcome[q]]
        /\ trail' = [trail EXCEPT ![m] = IF ok THEN 0 ELSE @ + 1]
        /\ passed' = passed \union (Holding(m) \ {q})
        /\ blurred' = IF q \in passed THEN blurred \union {m} ELSE IF ok THEN blurred \ {m} ELSE blurred
        /\ pc' = [pc EXCEPT ![q] = IF outcome[q] = "crash" THEN "admin" ELSE "tell"]
        /\ UNCHANGED <<of, seen, outcome, sems, wanted, told>>

Tell(q) ==
    /\ Move(q, "tell", "admin")
    /\ told' = told \union {q}
    /\ UNCHANGED <<of, seen, outcome, row, sems, hist, passed>>

\* _post_probe_admin, and the end of the block.
Admin(q) == pc[q] = "admin" /\ End(q) /\ UNCHANGED line

\* A database error, or the worker is cancelled: both end in the outer except.
Abort(q) ==
    /\ pc[q] # "idle"
    /\ line' = [s \in Sems |-> Without(line[s], q)]
    /\ End(q)

\* A user enables or disables the model.
SetEnabled(m, e) ==
    /\ row' = [row EXCEPT ![m].enabled = e]
    /\ wanted' = [wanted EXCEPT ![m] = e]
    /\ UNCHANGED <<pc, of, seen, outcome, sems, recorded, passed, told>>

\* sync_all_jobs finds the provider deleted and drops its semaphore; the next
\* probe makes another.
DropSemaphore ==
    /\ current < MaxSems
    /\ current' = current + 1
    /\ UNCHANGED <<pc, of, seen, outcome, row, line, holders, hist, passed, told>>

Work(q) == Enter(q) \/ Skip(q) \/ Admit(q) \/ (\E o \in Outcomes : Return(q, o)) \/ Record(q) \/ Tell(q) \/ Admin(q)

Common ==
    \/ \E q \in Probes : Work(q) \/ Abort(q) \/ \E m \in Models : Start(q, m)
    \/ \E m \in Models, e \in BOOLEAN : SetEnabled(m, e)

Spec == Init /\ [][Common]_vars

\* The event loop runs each probe that can go on; the watchdog ends the call.
FairSpec == Spec /\ \A q \in Probes : WF_vars(Work(q))

DroppedSpec == Init /\ [][Common \/ DropSemaphore]_vars

-----------------------------------------------------------------------------
(* Properties.                                                              *)

Inside == {q \in Probes : pc[q] \in {"gate", "call", "record", "tell", "admin"}}

\* The probes of a provider are sequential.
OneAtATime == Cardinality(Inside) <= 1

\* The permit is held exactly by the probe inside, and a probe waits in exactly
\* one place: no skip, error or cancellation leaks it, or leaves a dead waiter
\* at the head of the line.
PermitMatches ==
    /\ UNION {holders[s] : s \in Sems} = Inside
    /\ UNION {{line[s][i] : i \in 1 .. Len(line[s])} : s \in Sems} = {q \in Probes : pc[q] = "waiting"}
    /\ \A s, t \in Sems : \A i \in 1 .. Len(line[s]), j \in 1 .. Len(line[t]) :
           line[s][i] = line[t][j] => s = t /\ i = j

\* The status and the counter of a model tell its last outcome and the failures
\* up to it, although they are computed from a row read before the wait.  Only a
\* probe that records over another one's record, made since it read the row, can
\* leave them wrong, until the next success that no other probe has come before.
StatusFollowsLatest ==
    \A m \in Models \ blurred :
        last[m] # "none" =>
            /\ row[m].failures = trail[m]
            /\ row[m].status = IF last[m] = "ok" THEN "online" ELSE
                   CASE last[m] = "auth" -> "unauthorized" [] last[m] = "limited" -> "rate_limited"
                     [] last[m] = "missing" -> "not_found"
                     [] OTHER -> IF trail[m] < Threshold THEN "suspect" ELSE "offline"

\* What a user has saved survives every probe that read the row before.
EditsSurvive == \A m \in Models : row[m].enabled = wanted[m]

\* Every probe that has started comes to an end: it is skipped, recorded or
\* aborted, and makes room for the next.
EveryProbeEnds == \A q \in Probes : pc[q] # "idle" ~> pc[q] = "idle"

-----------------------------------------------------------------------------
(* What the docs and comments say and the code does not do.                 *)

\* "online: latest probe succeeded", and only then.
OnlineMeansSuccess == \A m \in Models : last[m] # "none" => (row[m].status = "online" <=> last[m] = "ok")

\* "record the outcome in the DB, and broadcast SSE events": whoever reaches the
\* last step has told the subscribers.
RecordedIsTold == \A q \in Probes : pc[q] = "admin" => q \in told

=============================================================================
