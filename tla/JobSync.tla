------------------------------- MODULE JobSync -------------------------------
(***************************************************************************)
(* The reconciliation of APScheduler's jobs with the database: what the    *)
(* API handlers commit, and how sync_jobs_for_provider and sync_all_jobs   *)
(* of core/scheduler.py bring the jobs in line, one await at a time.       *)
(*                                                                         *)
(* A provider stands for its list_models job, a model for its              *)
(* chat_completion job; models are those of a type that can be probed.     *)
(* Jobs live in the SQLAlchemy job store and survive a crash, like the     *)
(* rows of the database; handlers do not.                                  *)
(***************************************************************************)
EXTENDS Naturals, FiniteSets

CONSTANTS
    Providers,
    Models,
    Owner,      \* Owner[m]: the provider of a model
    Handlers    \* requests served concurrently

ASSUME SyncAssumption ==
    /\ Providers # {}
    /\ Owner \in [Models -> Providers]
    /\ Providers \intersect Models = {}
    /\ {"sweep", "daily", "errors"} \intersect (Providers \union Models) = {}

Maintenance == {"daily", "errors"}
JobIds == Providers \union Models \union {"sweep"} \union Maintenance

VARIABLES
    mode,      \* "down", "starting" (in the lifespan handler), "running"
    provider,  \* provider[p]: "none", or its enabled column: "on", "off"
    deleted,   \* providers with deleted_at set
    model,     \* model[m]: "none", "on", "off"
    job,       \* job[j]: "absent", "due" (has a next run time), "paused"
    sync,      \* sync[h]: the handler's program counter and what it has read
    unsynced   \* history: models changed with no sync of their jobs since

vars == <<mode, provider, deleted, model, job, sync, unsynced>>

ModelsOf(p) == {m \in Models : Owner[m] = p}
JobsOf(p) == {p} \union ModelsOf(p)
Switch == {"on", "off"}

\* all: sync_all_jobs; todo: its providers still to sync, live: those it has
\* read; at: the provider in hand, on: its enabled column as read, ms: its
\* enabled models as read.
Contexts ==
    [pc : {"idle", "favorites", "disabled", "all", "next", "read", "list", "models", "chats"},
     all : BOOLEAN, todo : SUBSET Providers, live : SUBSET Providers,
     at : Providers, on : BOOLEAN, ms : SUBSET Models]

Idle == [pc |-> "idle", all |-> FALSE, todo |-> {}, live |-> {},
         at |-> CHOOSE p \in Providers : TRUE, on |-> FALSE, ms |-> {}]

TypeOK ==
    /\ mode \in {"down", "starting", "running"}
    /\ provider \in [Providers -> Switch \union {"none"}]
    /\ deleted \subseteq {p \in Providers : provider[p] # "none"}
    /\ model \in [Models -> Switch \union {"none"}]
    /\ job \in [JobIds -> {"absent", "due", "paused"}]
    /\ sync \in [Handlers -> Contexts]
    /\ unsynced \subseteq Models

\* A new installation.
Init ==
    /\ mode = "down"
    /\ provider = [p \in Providers |-> "none"]
    /\ deleted = {}
    /\ model = [m \in Models |-> "none"]
    /\ job = [j \in JobIds |-> "absent"]
    /\ sync = [h \in Handlers |-> Idle]
    /\ unsynced = {}

-----------------------------------------------------------------------------
(* What the handlers commit, before they sync.                              *)

Active(p) == provider[p] # "none" /\ p \notin deleted

SyncOne(h, p) == sync' = [sync EXCEPT ![h] = [Idle EXCEPT !.pc = "read", !.at = p]]
SyncAll(h) == sync' = [sync EXCEPT ![h] = [Idle EXCEPT !.pc = "all", !.all = TRUE]]

Free(h) == mode = "running" /\ sync[h].pc = "idle"

Create(h, p, e) ==
    /\ Free(h)
    /\ provider[p] = "none"
    /\ provider' = [provider EXCEPT ![p] = e]
    /\ SyncOne(h, p)
    /\ UNCHANGED <<mode, deleted, model, job, unsynced>>

Patch(h, p, e) ==
    /\ Free(h)
    /\ Active(p)
    /\ provider' = [provider EXCEPT ![p] = e]
    /\ SyncOne(h, p)
    /\ UNCHANGED <<mode, deleted, model, job, unsynced>>

Delete(h, p) ==
    /\ Free(h)
    /\ Active(p)
    /\ deleted' = deleted \union {p}
    /\ SyncOne(h, p)
    /\ UNCHANGED <<mode, provider, model, job, unsynced>>

\* add_model, and sync-models with what the upstream lists.
AddModels(h, p, S) ==
    /\ Free(h)
    /\ Active(p)
    /\ model' = [m \in Models |-> IF m \in S /\ model[m] = "none" THEN "on" ELSE model[m]]
    /\ SyncOne(h, p)
    /\ UNCHANGED <<mode, provider, deleted, job, unsynced>>

PatchModel(h, m, e) ==
    /\ Free(h)
    /\ model[m] # "none"
    /\ model' = [model EXCEPT ![m] = e]
    /\ SyncOne(h, Owner[m])
    /\ UNCHANGED <<mode, provider, deleted, job, unsynced>>

PutSettings(h) ==
    /\ Free(h)
    /\ SyncAll(h)
    /\ UNCHANGED <<mode, provider, deleted, model, job, unsynced>>

\* An import creates, patches or restores a provider, then its favorites and
\* its disabled models, commit by commit.
Import(h, p, e) ==
    /\ Free(h)
    /\ provider' = [provider EXCEPT ![p] = e]
    /\ deleted' = deleted \ {p}
    /\ sync' = [sync EXCEPT ![h] = [Idle EXCEPT !.pc = "favorites", !.at = p]]
    /\ UNCHANGED <<mode, model, job, unsynced>>

\* set_favorites makes an enabled placeholder row for a favorite it does not
\* find; with S empty, the payload has no such favorite.
ImportFavorites(h, S) ==
    /\ sync[h].pc = "favorites"
    /\ model' = [m \in Models |-> IF m \in S /\ model[m] = "none" THEN "on" ELSE model[m]]
    /\ sync' = [sync EXCEPT ![h].pc = "disabled"]
    /\ UNCHANGED <<mode, provider, deleted, job, unsynced>>

\* set_disabled makes a disabled row for those it does not find and enables
\* every model of the provider it is not given.
ImportDisabled(h, off) ==
    /\ sync[h].pc = "disabled"
    /\ model' = [m \in Models |->
                    IF m \in off THEN "off"
                    ELSE IF Owner[m] = sync[h].at /\ model[m] = "off" THEN "on"
                    ELSE model[m]]
    /\ SyncAll(h)
    /\ UNCHANGED <<mode, provider, deleted, job, unsynced>>

\* The payload says nothing of disabled models: they are left as they are.
ImportNoDisabled(h) ==
    /\ sync[h].pc = "disabled"
    /\ SyncAll(h)
    /\ UNCHANGED <<mode, provider, deleted, model, job, unsynced>>

\* The models a list_models probe finds, with no sync of jobs.
Discover(p, S) ==
    /\ mode # "down"
    /\ provider[p] = "on"
    /\ S \subseteq {m \in ModelsOf(p) : model[m] = "none"}
    /\ S # {}
    /\ model' = [m \in Models |-> IF m \in S THEN "on" ELSE model[m]]
    /\ unsynced' = unsynced \union S
    /\ UNCHANGED <<mode, provider, deleted, job, sync>>

\* disable_stale, from the daily cleanup; no sync either.
DisableStale(S) ==
    /\ mode # "down"
    /\ job["daily"] = "due"
    /\ S \subseteq {m \in Models : model[m] = "on"}
    /\ S # {}
    /\ model' = [m \in Models |-> IF m \in S THEN "off" ELSE model[m]]
    /\ unsynced' = unsynced \union S
    /\ UNCHANGED <<mode, provider, deleted, job, sync>>

-----------------------------------------------------------------------------
(* Scheduler jobs.                                                          *)

\* (mutant) a disabled target keeps its job
Upserted_Ignoring(j, on) == IF job[j] = "absent" THEN "due" ELSE "paused"
\* _upsert_job: a job of a disabled target is removed, a new one is due at
\* once, and one that exists is replaced with next_run_time=None: paused.
Upserted(j, on) ==
    IF ~on THEN "absent" ELSE IF job[j] = "absent" THEN "due" ELSE "paused"

\* (mutant) no job is made for a model without one
Chats_ExistingOnly(c) ==
    [j \in JobIds |-> IF j \in c.ms /\ job[j] # "absent" THEN Upserted(j, c.on)
                      ELSE IF j \in ModelsOf(c.at) THEN "absent" ELSE job[j]]
Chats(c) ==
    [j \in JobIds |-> IF j \in c.ms THEN Upserted(j, c.on)
                      ELSE IF j \in ModelsOf(c.at) THEN "absent" ELSE job[j]]

\* (mutant) only the jobs of providers that exist no more are orphans
Pruned_ByRow(live) ==
    [j \in JobIds |-> IF j = "sweep" THEN "due"
                      ELSE IF j \in UNION {JobsOf(p) : p \in Providers} THEN job[j] ELSE "absent"]
\* Jobs of no live provider are removed; the random sweep is added again.
Pruned(live) ==
    [j \in JobIds |-> IF j = "sweep" THEN "due"
                      ELSE IF j \in UNION {JobsOf(p) : p \in live} THEN job[j] ELSE "absent"]

Resume(h, c) == sync' = [sync EXCEPT ![h] = c]

ReadAll(h) ==
    /\ sync[h].pc = "all"
    /\ LET live == {p \in Providers : Active(p)}
       IN  Resume(h, [sync[h] EXCEPT !.pc = "next", !.todo = live, !.live = live])
    /\ UNCHANGED <<mode, provider, deleted, model, job, unsynced>>

NextProvider(h, p) ==
    /\ sync[h].pc = "next"
    /\ p \in sync[h].todo
    /\ Resume(h, [sync[h] EXCEPT !.pc = "read", !.todo = @ \ {p}, !.at = p])
    /\ UNCHANGED <<mode, provider, deleted, model, job, unsynced>>

\* The row is found whether or not the provider is deleted.
ReadProvider(h) ==
    /\ sync[h].pc = "read"
    /\ Resume(h, [sync[h] EXCEPT !.pc = "list", !.on = provider[sync[h].at] = "on"])
    /\ UNCHANGED <<mode, provider, deleted, model, job, unsynced>>

\* After the settings have been read.
PutListJob(h) ==
    /\ sync[h].pc = "list"
    /\ job' = [job EXCEPT ![sync[h].at] = Upserted(sync[h].at, sync[h].on)]
    /\ Resume(h, [sync[h] EXCEPT !.pc = "models"])
    /\ UNCHANGED <<mode, provider, deleted, model, unsynced>>

ReadModels(h) ==
    /\ sync[h].pc = "models"
    /\ LET ms == {m \in ModelsOf(sync[h].at) : model[m] = "on"}
       IN  Resume(h, [sync[h] EXCEPT !.pc = "chats", !.ms = ms])
    /\ unsynced' = unsynced \ ModelsOf(sync[h].at)
    /\ UNCHANGED <<mode, provider, deleted, model, job>>

PutChatJobs(h) ==
    /\ sync[h].pc = "chats"
    /\ job' = Chats(sync[h])
    /\ Resume(h, IF sync[h].all THEN [sync[h] EXCEPT !.pc = "next", !.ms = {}] ELSE Idle)
    /\ UNCHANGED <<mode, provider, deleted, model, unsynced>>

\* The end of sync_all_jobs, and of the lifespan handler's start.
Prune(h) ==
    /\ sync[h].pc = "next"
    /\ sync[h].todo = {}
    /\ job' = Pruned(sync[h].live)
    /\ mode' = "running"
    /\ Resume(h, Idle)
    /\ UNCHANGED <<provider, deleted, model, unsynced>>

\* A chat probe ends: _post_probe_admin sets the next run time of its job, if
\* the job still exists.  The probe may have resolved its target long before.
Reschedule(m) ==
    /\ mode # "down"
    /\ model[m] # "none"
    /\ job[m] = "paused"
    /\ job' = [job EXCEPT ![m] = "due"]
    /\ UNCHANGED <<mode, provider, deleted, model, sync, unsynced>>

\* lifespan: the maintenance jobs are added, then everything is synced.
Boot(h) ==
    /\ mode = "down"
    /\ mode' = "starting"
    /\ job' = [j \in JobIds |-> IF j \in Maintenance THEN "due" ELSE job[j]]
    /\ SyncAll(h)
    /\ UNCHANGED <<provider, deleted, model, unsynced>>

Crash ==
    /\ mode # "down"
    /\ mode' = "down"
    /\ sync' = [h \in Handlers |-> Idle]
    /\ UNCHANGED <<provider, deleted, model, job, unsynced>>

Request(h) ==
    \/ \E p \in Providers, e \in Switch : Create(h, p, e) \/ Patch(h, p, e) \/ Import(h, p, e)
    \/ \E p \in Providers : Delete(h, p)
    \/ \E p \in Providers : \E S \in SUBSET ModelsOf(p) : AddModels(h, p, S)
    \/ \E m \in Models, e \in Switch : PatchModel(h, m, e)
    \/ PutSettings(h)

SyncStep(h) ==
    \/ \E S \in SUBSET ModelsOf(sync[h].at) : ImportFavorites(h, S) \/ ImportDisabled(h, S)
    \/ ImportNoDisabled(h)
    \/ ReadAll(h)
    \/ \E p \in Providers : NextProvider(h, p)
    \/ ReadProvider(h)
    \/ PutListJob(h)
    \/ ReadModels(h)
    \/ PutChatJobs(h)
    \/ Prune(h)

Next ==
    \/ \E h \in Handlers : Request(h) \/ SyncStep(h) \/ Boot(h)
    \/ \E p \in Providers : \E S \in SUBSET ModelsOf(p) : Discover(p, S)
    \/ \E S \in SUBSET Models : DisableStale(S)
    \/ \E m \in Models : Reschedule(m)
    \/ Crash

Spec == Init /\ [][Next]_vars

-----------------------------------------------------------------------------
(* Properties.                                                              *)

Quiet == mode = "running" /\ \A h \in Handlers : sync[h].pc = "idle"

\* Once a sync is over, no disabled provider and no disabled model has a job,
\* whatever crashed in between: nothing switched off is probed periodically.
NoStrayJob ==
    Quiet => \A p \in Providers :
        /\ job[p] # "absent" => provider[p] = "on"
        /\ \A m \in ModelsOf(p) \ unsynced :
               job[m] # "absent" => provider[p] = "on" /\ model[m] = "on"

\* Once a sync is over, every enabled provider and model has its job, unless
\* the model was changed by a probe or the cleanup since; and the random sweep,
\* which alone reaches models without a job, is scheduled whenever the process
\* runs.
NoMissingJob ==
    /\ Quiet => \A p \in Providers \ deleted :
         provider[p] = "on" =>
             /\ job[p] # "absent"
             /\ \A m \in ModelsOf(p) \ unsynced : model[m] = "on" => job[m] # "absent"
    /\ mode = "running" => job["sweep"] = "due"

\* A start leaves no job of a deleted provider behind.
StartDropsDeleted ==
    [][mode = "starting" /\ mode' = "running" =>
           \A p \in deleted : \A j \in JobsOf(p) : job'[j] = "absent"]_vars

-----------------------------------------------------------------------------
(* What the docs and comments say and the code does not do.                 *)

\* "will remove all jobs for this provider": no job of a deleted provider.
DeletedHasNoJob ==
    Quiet => \A p \in deleted : \A j \in JobsOf(p) : job[j] = "absent"

\* "leave the current schedule alone": what is due is never paused.
ScheduleLeftAlone == [][\A j \in JobIds : job[j] = "due" => job'[j] # "paused"]_vars

\* The cleanup of the error history has "its own periodic job".
CleanupIsScheduled == mode = "running" => job["errors"] = "due"

\* "Reconcile APScheduler jobs for a single provider based on current DB state".
ListJobsReconciled ==
    Quiet => \A p \in Providers \ deleted : provider[p] = "on" <=> job[p] # "absent"

=============================================================================
