------------------------------ MODULE Cadence ------------------------------
(***************************************************************************)
(* When a chat model is probed next (core/scheduler.py): the success       *)
(* streak and its backoff, the idle multiplier, the push of the queued     *)
(* jobs when the last dashboard closes, the random sweep, and the "stale"  *)
(* label of services/results.py that must agree with all of them.  One     *)
(* model that stays enabled, with its job.  Times are relative: `age'      *)
(* since its status was checked, `due' until its job fires; one unit is a  *)
(* fraction of the base interval.  How a probe runs is in ProbeRun, how    *)
(* jobs come and go in JobSync; here every sync pauses the job, as it does *)
(* there, until a probe of the model gives it a next run again.            *)
(***************************************************************************)
EXTENDS Integers, Sequences, FiniteSets

CONSTANTS
    Base,            \* base interval of the model
    IDLE_MULTIPLIER, \* 5 in the code
    Tiers,           \* streaks from which on the backoff grows; <<3, 10, 30>> in the code
    Multipliers,     \* the backoff below, between and behind them; <<1, 2, 4, 8>>
    MinJitter,       \* 5 seconds in the code
    MinAge,          \* RANDOM_SWEEP_MIN_AGE_SECONDS
    Zone,            \* how far the local clock of the host is ahead of UTC
    Slack,           \* bound on the time a trigger waits and its probe runs
    MaxStreak,       \* bound on the streak, for model checking
    MaxFactor,       \* bound on the factor below, for model checking
    MaxPushed,       \* bound on what pushes multiply a schedule by, for model checking
    Horizon          \* bound on ages, for model checking

ASSUME CadenceAssumption ==
    /\ {Base, IDLE_MULTIPLIER} \subseteq Nat \ {0}
    /\ {MinJitter, MinAge, Slack, MaxStreak, Horizon} \subseteq Nat
    /\ {MaxFactor, MaxPushed} \subseteq Nat \ {0}
    /\ Zone \in Int
    /\ Tiers \in Seq(Nat \ {0})
    /\ \A i \in 1 .. Len(Tiers) : Tiers[1] <= Tiers[i]
    /\ Multipliers \in Seq(Nat \ {0})
    /\ Len(Multipliers) = Len(Tiers) + 1
    /\ Multipliers[1] = 1
    /\ \A i \in 1 .. Len(Multipliers) : Multipliers[i] <= Multipliers[Len(Multipliers)]

VARIABLES
    streak,   \* _model_success_streak.get(model, 0)
    due,      \* until the job's next_run_time; 0: it fires now; or Paused
    age,      \* since status_checked_at
    online,   \* the status is "online"
    watched,  \* some dashboard is subscribed
    setting,  \* the idle_throttle_enabled setting
    throttle, \* _idle_throttle_enabled, the copy the scheduler uses
    phase,    \* of the model's trigger: "none", "queued", "running"
    delay,    \* since that trigger was accepted
    idle,     \* history: the idle multiplier of the last reschedule
    pushed,   \* history: what pushes have multiplied the schedule by since then
    missed,   \* history: a trigger since then was skipped
    peak,     \* history: the streak at the last success
    factor    \* history: doubled by each failure since then

vars == <<streak, due, age, online, watched, setting, throttle, phase, delay,
          idle, pushed, missed, peak, factor>>
model == <<streak, age, online, throttle, peak, factor>>
marks == <<idle, pushed, missed>>

\* next_run_time = None: nothing fires.
Paused == -1

AtMost(bound, n) == IF n < bound THEN n ELSE bound
AtLeast(bound, n) == IF n > bound THEN n ELSE bound

-----------------------------------------------------------------------------
(* Intervals.                                                               *)

\* _backoff_multiplier
Backoff(n) == Multipliers[1 + Cardinality({i \in 1 .. Len(Tiers) : n >= Tiers[i]})]
BACKOFF_MAX_MULTIPLIER == Multipliers[Len(Multipliers)]

\* _idle_multiplier, for a value of the toggle.
Idle(on) == IF on /\ ~watched THEN IDLE_MULTIPLIER ELSE 1

\* _effective_interval; adaptive: _adaptive_backoff_enabled.  A user may have changed
\* that setting between any two probes.
Effective(n, on, adaptive) == Base * (IF adaptive THEN Backoff(n) ELSE 1) * Idle(on)

Jitter(interval) == AtLeast(MinJitter, interval \div 10)

\* (mutant) a failure takes one from the streak
Bumped_Decrement(n, ok) == IF ok THEN AtMost(MaxStreak, n + 1) ELSE AtLeast(0, n - 1)
\* _bump_streak; the bound stands for every longer streak.
Bumped(n, ok) == IF ok THEN AtMost(MaxStreak, n + 1) ELSE n \div 2

\* (mutant) the margin leaves out the idle multiplier
StaleAge_NoIdle == Base * BACKOFF_MAX_MULTIPLIER * 2
\* The threshold of _is_model_stale: MAX_EFFECTIVE_MULTIPLIER times
\* STALE_THRESHOLD_MULTIPLIER times the base interval.
StaleAge == Base * (BACKOFF_MAX_MULTIPLIER * IDLE_MULTIPLIER) * 2

Stale == online /\ age > StaleAge

-----------------------------------------------------------------------------

LongestGap == Base * BACKOFF_MAX_MULTIPLIER * IDLE_MULTIPLIER

\* The margin of the stale age: it holds the jitter of the longest gap, or of the
\* longest one set with a dashboard open and stretched with its jitter, and the time
\* until a job that has fired is recorded.
ASSUME MarginAssumption ==
    /\ Jitter(LongestGap) + Slack <= LongestGap
    /\ Jitter(Base * BACKOFF_MAX_MULTIPLIER) * IDLE_MULTIPLIER + Slack <= LongestGap

TypeOK ==
    /\ streak \in 0 .. MaxStreak
    /\ due \in Nat \union {Paused}
    /\ age \in 0 .. Horizon
    /\ online \in BOOLEAN /\ watched \in BOOLEAN
    /\ setting \in BOOLEAN /\ throttle \in BOOLEAN
    /\ phase \in {"none", "queued", "running"}
    /\ delay \in 0 .. Slack
    /\ idle \in {1, IDLE_MULTIPLIER}
    /\ pushed \in 1 .. MaxPushed
    /\ missed \in BOOLEAN
    /\ peak \in 0 .. MaxStreak
    /\ factor \in 1 .. MaxFactor

\* The model has just been added; its job is due at once.
Init ==
    /\ streak = 0 /\ peak = 0 /\ factor = 1
    /\ due = 0 /\ age = 0 /\ online = FALSE
    /\ watched = FALSE
    /\ setting \in BOOLEAN /\ throttle = TRUE
    /\ phase = "none" /\ delay = 0
    /\ idle = 1 /\ pushed = 1 /\ missed = FALSE

\* Time passes; a job that is due fires first, and a trigger waits no longer than Slack.
Tick ==
    /\ due # 0
    /\ phase # "none" => delay < Slack
    /\ due' = IF due = Paused THEN Paused ELSE due - 1
    /\ age' = AtMost(Horizon, age + 1)
    /\ delay' = IF phase = "none" THEN 0 ELSE delay + 1
    /\ UNCHANGED <<streak, peak, factor, online, throttle, watched, setting, phase, marks>>

\* The queue takes one trigger of a model at a time (a second manual one, which it
\* lets pass, is ProbeRun's subject).
Accepted == IF phase = "none" THEN phase' = "queued" /\ delay' = 0 ELSE UNCHANGED <<phase, delay>>

\* _periodic_enqueue_callback; the IntervalTrigger sets the next run.
Fire ==
    /\ due = 0
    /\ \E next \in AtLeast(1, Base - Jitter(Base)) .. Base + Jitter(Base) : due' = next
    /\ Accepted
    /\ UNCHANGED <<model, watched, setting, marks>>

\* A manual trigger.
Trigger ==
    /\ phase = "none"
    /\ Accepted
    /\ UNCHANGED <<model, due, watched, setting, marks>>

\* _random_probe_sweep picks the model; timestamp() takes the naive time stored,
\* which is UTC, for a local one.
Sweep ==
    /\ phase = "none"
    /\ \E adaptive \in BOOLEAN :
           age + Zone >= AtLeast(MinAge, Effective(streak, throttle, adaptive) \div 2)
    /\ Accepted
    /\ UNCHANGED <<model, due, watched, setting, marks>>

\* A worker takes the trigger: _refresh_cached_settings.
Begin ==
    /\ phase = "queued"
    /\ phase' = "running"
    /\ throttle' = setting
    /\ UNCHANGED <<streak, due, age, online, watched, setting, delay, marks, peak, factor>>

Done == phase' = "none" /\ delay' = 0

\* The cooldown or the rate limit: nothing is rescheduled.
Skip ==
    /\ phase = "running"
    /\ Done
    /\ missed' = TRUE
    /\ UNCHANGED <<model, due, watched, setting, idle, pushed>>

\* _post_probe_admin: the streak is bumped first.
NextGap(ok, adaptive) == Effective(Bumped(streak, ok), throttle, adaptive)

\* The outcome is recorded, the streak bumped and the job moved, also a paused one.
Finish(ok) ==
    /\ phase = "running"
    /\ Done
    /\ streak' = Bumped(streak, ok)
    /\ \E adaptive \in BOOLEAN : \E j \in 0 .. Jitter(NextGap(ok, adaptive)) :
           due' = NextGap(ok, adaptive) + j
    /\ age' = 0
    /\ online' = ok
    /\ peak' = IF ok THEN streak' ELSE peak
    /\ factor' = IF ok THEN 1 ELSE AtMost(MaxFactor, factor * 2)
    /\ idle' = Idle(throttle) /\ pushed' = 1 /\ missed' = FALSE
    /\ UNCHANGED <<watched, setting, throttle>>

\* _on_sse_wake and the task it starts, which asks for list_models probes: no chat
\* job or trigger is touched.
Wake ==
    /\ ~watched
    /\ watched' = TRUE
    /\ UNCHANGED <<model, due, setting, phase, delay, marks>>

\* _on_sse_sleep multiplies what is left until the job fires, if anything is.
Sleep ==
    /\ watched
    /\ watched' = FALSE
    /\ IF due \in {0, Paused} THEN UNCHANGED <<due, pushed>>
       ELSE /\ due' = due * IDLE_MULTIPLIER
            /\ pushed' = pushed * IDLE_MULTIPLIER
            /\ pushed' <= MaxPushed
    /\ UNCHANGED <<model, setting, phase, delay, idle, missed>>

\* sync_jobs_for_provider, in a request that edits the provider or one of its models
\* or in a full sync: _upsert_job finds the job and pauses it.
Sync ==
    /\ due' = Paused
    /\ UNCHANGED <<model, watched, setting, phase, delay, marks>>

\* PUT /settings: a user turns the throttling on or off, and a full sync follows.
SetThrottle ==
    /\ setting' = ~setting
    /\ due' = Paused
    /\ UNCHANGED <<model, watched, phase, delay, marks>>

\* The process starts again: what it had in memory is gone, the triggers among it,
\* and its first sync finds the jobs in the job store.
Restart ==
    /\ streak' = 0
    /\ throttle' = TRUE
    /\ watched' = FALSE
    /\ phase' = "none" /\ delay' = 0
    /\ due' = Paused
    /\ UNCHANGED <<age, online, peak, factor, setting, marks>>

Next ==
    \/ Tick \/ Fire \/ Sweep \/ Trigger \/ Begin \/ Skip
    \/ Wake \/ Sleep \/ Sync \/ SetThrottle \/ Restart
    \/ \E ok \in BOOLEAN : Finish(ok)

Spec == Init /\ [][Next]_vars

-----------------------------------------------------------------------------
(* Properties.                                                              *)

\* What the schedule has been multiplied by because no dashboard was open: when it
\* was set, and each time one closed afterwards.
Stretched == idle * pushed

\* A model whose probes succeed is not labelled stale, unless a sync has paused its
\* job and no probe has revived it, or a trigger has been skipped, or its schedule
\* has been stretched more than once; then its age exceeds the threshold by no more
\* than the further stretching, however often dashboards open and close.
NoFalseStale ==
    Stale => \/ due = Paused
             \/ missed
             \/ /\ Stretched > IDLE_MULTIPLIER
                /\ age * IDLE_MULTIPLIER <= StaleAge * Stretched

\* Failures bring the model back to its base interval, however long it succeeded:
\* one failure for each time its best streak can be halved down to the first tier.
\* (A schedule that a closing dashboard pushed stays pushed, a paused job stays
\* paused, until the next probe.)
FailuresShortenTheGap ==
    (Tiers # << >> /\ peak < Tiers[1] * factor /\ pushed = 1 /\ due # Paused)
        => due <= Base * idle + Jitter(Base * idle)

-----------------------------------------------------------------------------
(* What the docs and comments say and the code does not do.                 *)

\* "probes at most every base_interval x 40 seconds", with the jitter granted.
GapBounded ==
    (phase = "none" /\ ~missed /\ due # Paused) => age + due <= LongestGap + Jitter(LongestGap)

\* "the toggle in Settings turns the multiplier off": a schedule set without the
\* throttle is not stretched by it.
ThrottleOff ==
    (~setting /\ ~throttle /\ phase = "none" /\ ~missed /\ idle = 1)
        => due <= Base * BACKOFF_MAX_MULTIPLIER + Jitter(Base * BACKOFF_MAX_MULTIPLIER)

\* "the multiplier snaps to 1 and a one-shot full sweep refreshes everything": when
\* a dashboard opens, a trigger of the model is on its way.
WakeRefreshes == [][Wake => phase' # "none"]_vars

\* "skipped here until the matching fraction of its effective interval has elapsed"
SweptIsOld == [][Sweep => age >= Effective(streak, throttle, FALSE) \div 2]_vars

=============================================================================
