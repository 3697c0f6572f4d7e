------------------------------ MODULE Results ------------------------------
(***************************************************************************)
(* The probe log of one enabled provider (services/results.py) and its     *)
(* readers: the dashboard of the last 24 hours, the cards of the models    *)
(* and the error history, each of which must say the same as the status    *)
(* kept in the model's row, while the log is trimmed under them by two     *)
(* cleanups.  A reader's queries are one step.                             *)
(*                                                                         *)
(* A row has the number of its insertion, which is also the order of       *)
(* checked_at.  Ages are since checked_at, in units of TTL's resolution.   *)
(***************************************************************************)
EXTENDS Naturals, FiniteSets

CONSTANTS
    Models,    \* the provider's models
    List,      \* a list_models probe, which is of no model
    TTL,       \* ERROR_HISTORY_TTL, 15 minutes in the code
    LIMIT,     \* ERROR_HISTORY_LIMIT, 100 in the code
    Window,    \* 24 hours in the code
    Retention, \* retention_days, at least 1
    StaleAge,  \* the threshold of _is_model_stale
    Horizon,   \* bound on ages: as good as forever
    MaxRows    \* bound on the rows ever written, for model checking

ASSUME ResultsAssumption ==
    /\ List \notin Models
    /\ {TTL, LIMIT, Window, Retention, StaleAge, Horizon, MaxRows} \subseteq Nat
    /\ TTL <= Window /\ Window <= Retention
    /\ Retention < Horizon /\ StaleAge < Horizon

VARIABLES
    row,     \* probe_results: number -> row
    last,    \* the last number given
    status,  \* of each model
    checked, \* age of status_checked_at; Horizon: long ago, or NULL
    enabled, \* enabled models
    trimmed  \* history: models whose last probe cleanup_error_history deleted

vars == <<row, last, status, checked, enabled, trimmed>>

Row == [of : Models \union {List}, ok : BOOLEAN, age : 0 .. Horizon, pinned : BOOLEAN]
Statuses == {"unknown", "online", "failing"} \* "failing": all the others

TypeOK ==
    /\ last \in Nat
    /\ DOMAIN row \subseteq 1 .. last
    /\ \A i \in DOMAIN row : row[i] \in Row /\ ~(row[i].ok /\ row[i].pinned)
    /\ \A i, j \in DOMAIN row : i < j => row[i].age >= row[j].age
    /\ status \in [Models -> Statuses]
    /\ checked \in [Models -> 0 .. Horizon]
    /\ enabled \subseteq Models /\ trimmed \subseteq Models

Init ==
    /\ row = << >>
    /\ last = 0
    /\ status = [m \in Models |-> "unknown"]
    /\ checked = [m \in Models |-> Horizon]
    /\ enabled = Models
    /\ trimmed = {}

-----------------------------------------------------------------------------
(* What the readers show.                                                   *)

RowsOf(m) == {i \in DOMAIN row : row[i].of = m}
Newest(i, is) == i \in is /\ \A j \in is : j <= i
Recent == {i \in DOMAIN row : row[i].age <= Window}
Probes(m) == Recent \intersect RowsOf(m)

\* (mutant) the oldest probe of the window decides
Succeeds_Oldest(m) == \E i \in Probes(m) : row[i].ok /\ \A j \in Probes(m) : i <= j
\* recent_per_model[m] is True.
Succeeds(m) == \E i \in Probes(m) : row[i].ok /\ Newest(i, Probes(m))
\* available_models_online, and favorite_models_online among them.
Available == {m \in Models : Succeeds(m)}
Known == {m \in enabled : Probes(m) # {}}
Online == {m \in Known : Succeeds(m)}

\* _provider_health_status; "none" is None.
Health ==
    IF Probes(List) # {} /\ ~Succeeds(List) THEN "fail"
    ELSE IF enabled = {} THEN IF Probes(List) # {} THEN "ok" ELSE "none"
    ELSE IF Known = {} THEN "none"
    ELSE IF Online = Known THEN "ok"
    ELSE IF Online = {} THEN "fail" ELSE "degraded"

\* samples_24h and the successes among them.
Counts(m) == <<Cardinality(Probes(m)), Cardinality({i \in Probes(m) : row[i].ok})>>

\* The card of m says "stale".
Stale(m) == status[m] = "online" /\ ~\E i \in RowsOf(m) : Newest(i, RowsOf(m)) /\ row[i].age <= StaleAge

\* list_recent_errors: pinned rows first, then the newest.
Failures == {i \in DOMAIN row : ~row[i].ok}
Visible == {i \in Failures : row[i].age <= TTL}
Above(i) ==
    {j \in Visible : IF row[i].pinned = row[j].pinned THEN j > i ELSE row[j].pinned}
Listed == {i \in Visible : Cardinality(Above(i)) < LIMIT}

-----------------------------------------------------------------------------
Older(n) == IF n < Horizon THEN n + 1 ELSE Horizon

Aged(r) == [r EXCEPT !.age = Older(r.age)]

Tick ==
    /\ row' = [i \in DOMAIN row |-> Aged(row[i])]
    /\ checked' = [m \in Models |-> Older(checked[m])]
    /\ UNCHANGED <<last, status, enabled, trimmed>>

\* record_outcome
Record(m, ok) ==
    /\ last < MaxRows
    /\ last' = last + 1
    /\ row' = [i \in DOMAIN row \union {last'} |->
                 IF i = last' THEN [of |-> m, ok |-> ok, age |-> 0, pinned |-> FALSE] ELSE row[i]]
    /\ status' = [n \in Models |-> IF n # m THEN status[n] ELSE IF ok THEN "online" ELSE "failing"]
    /\ checked' = [n \in Models |-> IF n # m THEN checked[n] ELSE 0]
    /\ trimmed' = trimmed \ {m}
    /\ UNCHANGED enabled

\* patch of a model
Toggle(m) ==
    /\ enabled' = IF m \in enabled THEN enabled \ {m} ELSE enabled \union {m}
    /\ UNCHANGED <<row, last, status, checked, trimmed>>

\* pin_probe_result takes failures only.
Pinnable == Failures
Flagged(r, p) == [r EXCEPT !.pinned = p]

Pin(i) ==
    /\ i \in Pinnable
    /\ row' = [row EXCEPT ![i] = Flagged(row[i], TRUE)]
    /\ UNCHANGED <<last, status, checked, enabled, trimmed>>

\* unpin_probe_result
Unpin(i) ==
    /\ row' = [row EXCEPT ![i] = Flagged(row[i], FALSE)]
    /\ UNCHANGED <<last, status, checked, enabled, trimmed>>

Keep(is) == row' = [i \in is |-> row[i]]

\* (mutant) the second DELETE forgets to ask for failures
Kept_Failures == {i \in Visible : Cardinality({j \in Visible : j > i}) < LIMIT}
\* (mutant) the newest LIMIT rows of any outcome are kept
Kept_AnyOutcome ==
    {i \in DOMAIN row : row[i].ok \/ (i \in Visible /\ Cardinality({j \in DOMAIN row : j > i}) < LIMIT)}
\* The failures that are young and among the newest LIMIT; pins do not count.
Kept ==
    {i \in DOMAIN row : row[i].ok \/ (i \in Visible /\ Cardinality({j \in Visible : j > i}) < LIMIT)}

CleanupErrors ==
    /\ Keep(Kept)
    /\ trimmed' = trimmed \union {m \in Models : \E i \in RowsOf(m) \ Kept : Newest(i, RowsOf(m))}
    /\ UNCHANGED <<last, status, checked, enabled>>

\* (mutant) the whole last day goes as well
Retained_Less == {i \in DOMAIN row : row[i].pinned \/ row[i].age < Retention}
Retained == {i \in DOMAIN row : row[i].pinned \/ row[i].age <= Retention}

\* cleanup_old
CleanupOld ==
    /\ Keep(Retained)
    /\ UNCHANGED <<last, status, checked, enabled, trimmed>>

Next ==
    \/ \E m \in Models \union {List}, ok \in BOOLEAN : Record(m, ok)
    \/ \E m \in Models : Toggle(m)
    \/ \E i \in DOMAIN row : Pin(i) \/ Unpin(i)
    \/ Tick \/ CleanupErrors \/ CleanupOld

Spec == Init /\ [][Next]_vars

-----------------------------------------------------------------------------
(* Properties.                                                              *)

\* What the dashboard computes from the log agrees with the statuses that each
\* probe writes: of the models probed in the window it counts those as available
\* that are online, and "ok" means that every enabled one is, "fail" that none is,
\* "degraded" that some is not, but for what cleanup_error_history has removed.
RollupAgrees ==
    LET Judged == {m \in enabled : checked[m] <= Window}
    IN  /\ \A m \in Models : checked[m] <= Window /\ status[m] = "online" => m \in Available
        /\ \A m \in Available : status[m] = "online" \/ m \in trimmed
        /\ Health = "ok" /\ enabled # {} => \A m \in Judged : status[m] = "online" \/ m \in trimmed
        /\ Health = "fail" /\ Probes(List) = {} => \A m \in Judged : status[m] # "online"
        /\ Health = "degraded" => \E m \in Judged : status[m] # "online"

\* A card says "stale" of an online model if its last check is too old, and only
\* if it is, or is older than what the retention leaves.
StaleMeansOld ==
    \A m \in Models : status[m] = "online" =>
        /\ checked[m] > StaleAge => Stale(m)
        /\ Stale(m) => checked[m] > StaleAge \/ checked[m] > Retention

\* The retention, however short, changes nothing a page shows of the last day,
\* and removes no pinned error.
RetentionInvisible ==
    [][CleanupOld =>
        /\ Recent' = Recent /\ Health' = Health /\ Listed' = Listed
        /\ \A m \in Models : Counts(m)' = Counts(m)
        /\ \A i \in DOMAIN row : row[i].pinned => i \in DOMAIN row']_vars

\* Trimming the error history changes nothing in the list of errors, as long as
\* nothing is pinned or everything fits.
TrimInvisible ==
    [][CleanupErrors =>
        \/ \E i \in Visible : row[i].pinned /\ Cardinality(Visible) > LIMIT
        \/ Listed' = Listed]_vars

-----------------------------------------------------------------------------
(* What the docs and comments say and the code does not do.                 *)

\* results.py:367: "ok" means that every enabled model that has been probed came
\* back successful on its most recent probe.
OkMeansAllOnline ==
    Health = "ok" => \A m \in enabled : status[m] # "failing"

\* models.py:201: pinned rows survive.
PinnedSurvives == [][\A i \in DOMAIN row : row[i].pinned => i \in DOMAIN row']_vars

\* results.py:285: the error history is not the long-term metrics table.
MetricsAreKept == [][CleanupErrors => \A m \in Models : Counts(m)' = Counts(m)]_vars
=============================================================================
