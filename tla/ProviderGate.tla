---------------------------- MODULE ProviderGate ----------------------------
(***************************************************************************)
(* The two gates a probe of one provider passes in _run_probe of           *)
(* core/scheduler.py: the upstream cooldown a 429 starts, and the sliding  *)
(* window on the provider's own outbound rate.  Time passes and settings   *)
(* are saved between the moment a probe reads the limit, the moment it is  *)
(* used, and the moment the answer comes.                                  *)
(*                                                                         *)
(* The provider's semaphore is left out: it normally admits one probe at a *)
(* time, but sync_all_jobs can replace it while it is held, and the gates  *)
(* must hold for any number of probes.  time.monotonic() is a natural      *)
(* number.                                                                 *)
(***************************************************************************)
EXTENDS Naturals, Sequences, FiniteSetsExt

CONSTANTS
    Probes,          \* concurrent probes of the provider
    Window,          \* 60 seconds
    MaxLimit,        \* the largest limit the gate enforces: 100
    MaxSetting,      \* the largest value the settings API accepts: 1000
    MaxRetryAfter,   \* MAX_RETRY_AFTER_SECONDS: 300
    DefaultCooldown, \* DEFAULT_429_COOLDOWN_SECONDS: 30
    Headers,         \* the Retry-After values upstreams send; 0: none, or past
    MaxTime          \* bound on the clock, for model checking

ASSUME GateAssumption ==
    /\ Window \in Nat \ {0}
    /\ MaxLimit \in Nat \ {0}
    /\ MaxSetting \in Nat \ {0}
    /\ MaxRetryAfter \in Nat
    /\ DefaultCooldown \in Nat \ {0}
    /\ Headers \subseteq Nat
    /\ MaxTime \in Nat

VARIABLES
    now,       \* time.monotonic()
    limit,     \* the rate setting as saved, or its default
    read,      \* read[q]: the limit probe q has read
    phase,     \* phase[q]: "idle", "checking" (limit read), "calling" (sent)
    bucket,    \* _provider_rate_buckets[provider]: times of admissions
    until,     \* _provider_cooldown_until[provider]; 0 if absent
    log,       \* history: the times of all admissions
    promised   \* history: the latest time any 429 asked to wait for

vars == <<now, limit, read, phase, bucket, until, log, promised>>

Limits == 1 .. MaxLimit
Settings == 1 .. MaxSetting

TypeOK ==
    /\ now \in Nat
    /\ limit \in Settings
    /\ read \in [Probes -> Limits]
    /\ phase \in [Probes -> {"idle", "checking", "calling"}]
    /\ bucket \in Seq(Nat)
    /\ until \in Nat
    /\ log \in Seq(Nat)
    /\ promised \in Nat

\* The clock starts behind the window, as a monotonic clock may.
Init ==
    /\ now = Window
    /\ limit = 1
    /\ read = [q \in Probes |-> 1]
    /\ phase = [q \in Probes |-> "idle"]
    /\ bucket = << >>
    /\ until = 0
    /\ log = << >>
    /\ promised = 0

-----------------------------------------------------------------------------

\* (mutant) an entry exactly one window old is dropped
Expired_Equal(t) == t + Window <= now
\* while bucket and bucket[0] < cutoff: popleft(); the result is a suffix.
Expired(t) == t + Window < now
Kept == {i \in 1 .. Len(bucket) : ~Expired(bucket[i])}
Pruned == IF Kept = {} THEN << >> ELSE SubSeq(bucket, Min(Kept), Len(bucket))

\* (mutant) one request too many
AtLimit_Above(n, max) == n > max
AtLimit(n, max) == n >= max

\* get_int_setting(minimum=1, maximum=100); no row is saved below 1.
Clamped(n) == Min({n, MaxLimit})

CoolingDown == until > now

\* (mutant) the header is not capped
Cooldown_Uncapped(h) == IF h = 0 THEN DefaultCooldown ELSE h
\* parse_retry_after, and `row.retry_after_seconds or DEFAULT_...' after it.
Cooldown(h) == IF Min({h, MaxRetryAfter}) = 0 THEN DefaultCooldown ELSE Min({h, MaxRetryAfter})

\* (mutant) a fresh 429 overwrites the deadline
Extended_Overwrites(seconds) == now + seconds
\* _set_provider_cooldown: only extends.
Extended(seconds) == IF now + seconds > until THEN now + seconds ELSE until

-----------------------------------------------------------------------------

Tick ==
    /\ now < MaxTime
    /\ now' = now + 1
    /\ UNCHANGED <<limit, read, phase, bucket, until, log, promised>>

SaveLimit(n) ==
    /\ limit' = n
    /\ UNCHANGED <<now, read, phase, bucket, until, log, promised>>

Move(q, from, to) == phase[q] = from /\ phase' = [phase EXCEPT ![q] = to]

\* The semaphores are taken; _refresh_cached_settings reads the limit.
ReadLimit(q) ==
    /\ Move(q, "idle", "checking")
    /\ read' = [read EXCEPT ![q] = Clamped(limit)]
    /\ UNCHANGED <<now, limit, bucket, until, log, promised>>

\* Skipped in cooldown, before the rate bucket is looked at.
SkipCooldown(q) ==
    /\ Move(q, "checking", "idle")
    /\ CoolingDown
    /\ UNCHANGED <<now, limit, read, bucket, until, log, promised>>

\* An expired deadline is dropped on the way.
SkipRate(q) ==
    /\ Move(q, "checking", "idle")
    /\ ~CoolingDown
    /\ until' = 0
    /\ bucket' = Pruned
    /\ AtLimit(Len(Pruned), read[q])
    /\ UNCHANGED <<now, limit, read, log, promised>>

Admit(q) ==
    /\ Move(q, "checking", "calling")
    /\ ~CoolingDown
    /\ until' = 0
    /\ ~AtLimit(Len(Pruned), read[q])
    /\ bucket' = Append(Pruned, now)
    /\ log' = Append(log, now)
    /\ UNCHANGED <<now, limit, read, promised>>

\* Any answer but 429, a timeout, or an exception while it is recorded.
Answer(q) ==
    /\ Move(q, "calling", "idle")
    /\ UNCHANGED <<now, limit, read, bucket, until, log, promised>>

Answer429(q, h) ==
    /\ Move(q, "calling", "idle")
    /\ until' = Extended(Cooldown(h))
    /\ promised' = Max({promised, now + Cooldown(h)})
    /\ UNCHANGED <<now, limit, read, bucket, log>>

Next ==
    \/ Tick
    \/ \E n \in Settings : SaveLimit(n)
    \/ \E q \in Probes :
           \/ ReadLimit(q)
           \/ SkipCooldown(q)
           \/ SkipRate(q)
           \/ Admit(q)
           \/ Answer(q)
           \/ \E h \in Headers : Answer429(q, h)

Spec == Init /\ [][Next]_vars

\* sync_all_jobs drops the bucket of a provider it finds deleted; importing
\* the provider again restores it under the same uuid.
PruneBucket ==
    /\ bucket' = << >>
    /\ UNCHANGED <<now, limit, read, phase, until, log, promised>>

PrunedSpec == Init /\ [][Next \/ PruneBucket]_vars

-----------------------------------------------------------------------------
(* Properties.                                                              *)

\* "No more than N in any 60s", for the largest limit ever configured: the
\* admission N places later comes more than a whole window later.
WindowBound ==
    \A i \in 1 .. Len(log) : i + MaxLimit <= Len(log) => log[i] + Window < log[i + MaxLimit]

\* An admission respects the limit its probe has read, counting everything
\* admitted in the window that ends now, whatever limit held before.
ReadLimitBound ==
    [][\A q \in Probes : phase[q] = "checking" /\ phase'[q] = "calling" =>
           Cardinality({i \in 1 .. Len(log') : ~Expired(log'[i])}) <= read[q]]_vars

\* No request is sent before the time a 429 asked to wait for, even if a later
\* 429 asked for less.
CooldownHonoured == [][log' # log => promised <= now]_vars

\* A misbehaving upstream cannot park a provider: the cooldown never reaches
\* further than the cap, or the default, from now.
CooldownBounded == until <= now + Max({MaxRetryAfter, DefaultCooldown})

\* The bucket holds exactly the admissions that can still matter: it is a
\* suffix of the history, and what it lacks is out of the window.
BucketIsSuffix ==
    LET gone == Len(log) - Len(bucket)
    IN  /\ Len(bucket) <= Len(log)
        /\ \A j \in 1 .. Len(bucket) : bucket[j] = log[gone + j]
        /\ \A i \in 1 .. gone : Expired(log[i])

-----------------------------------------------------------------------------
(* What the docs and comments say and the code does not do.                 *)

\* "The save was ignored" cannot happen: the limit saved is the limit enforced.
SavedIsEnforced ==
    [][\A q \in Probes : phase[q] = "idle" /\ phase'[q] = "checking" => read'[q] = limit]_vars

=============================================================================
