----------------------------- MODULE Lifecycle -----------------------------
(***************************************************************************)
(* The process around the pool: lifespan of main.py, with its startup      *)
(* catch-up, the launch of the workers, and the order in which the pool,   *)
(* the scheduler, the shared HTTP client (core/http.py) and the engine are *)
(* taken down.  Requests are served from "serving" until the shutdown      *)
(* begins; that the lifespan's tasks have started by then is taken from    *)
(* the database queries it awaits in between.                              *)
(***************************************************************************)
EXTENDS WorkerPool

VARIABLES
    stage,    \* how far lifespan has come
    sched,    \* sched.running: its jobs fire
    launched, \* start_workers has created the tasks
    todo,     \* keys trigger_all_models_now has still to enqueue
    client    \* the shared httpx client: "none" or "open"

lifeVars == <<stage, sched, launched, todo, client>>

Stages == {"booting", "syncing", "serving", "draining", "drained", "halted", "closed", "ended"}

LifeTypeOK ==
    /\ TypeOK
    /\ stage \in Stages
    /\ {sched, launched} \subseteq BOOLEAN
    /\ todo \subseteq Keys
    /\ client \in {"none", "open"}

LifeInit ==
    /\ Init
    /\ stage = "booting"
    /\ sched = FALSE /\ launched = FALSE
    /\ todo = {}
    /\ client = "none"

-----------------------------------------------------------------------------
(* Startup.                                                                 *)

\* Restarted jobs fire from here on, into a queue that nobody drains yet.
StartScheduler ==
    /\ stage = "booting"
    /\ stage' = "syncing"
    /\ sched' = TRUE
    /\ UNCHANGED <<vars, launched, todo, client>>

\* sync_all_jobs has returned; two tasks are created.
Serve ==
    /\ stage = "syncing"
    /\ stage' = "serving"
    /\ todo' = Keys
    /\ UNCHANGED <<vars, sched, launched, client>>

\* start_workers
Launch ==
    /\ stage = "serving"
    /\ ~launched
    /\ launched' = TRUE
    /\ UNCHANGED <<vars, stage, sched, todo, client>>

\* (mutant) the request is put on the queue without asking whether that is open
CatchUp_Direct(k) ==
    /\ k \in todo
    /\ todo' = todo \ {k}
    /\ \E r \in Unused : Land(k, MANUAL, r, NoCut)
    /\ UNCHANGED <<pc, held, cancelled, stage, sched, launched, client>>
\* One model of trigger_all_models_now, whatever the queue answers.  The task
\* is neither awaited nor cancelled by the shutdown.
CatchUp(k) ==
    /\ k \in todo
    /\ todo' = todo \ {k}
    /\ \/ \E r \in Unused : Enqueue(k, MANUAL, r) \/ EnqueueEvicting(k, r)
       \/ EnqueueRefused(k)
       \/ ~Admissible(k, MANUAL) /\ UNCHANGED queueVars
    /\ UNCHANGED <<pc, held, cancelled, stage, sched, launched, client>>

-----------------------------------------------------------------------------
(* Service.                                                                 *)

\* Jobs of the scheduler: periodic callbacks and the random sweep.
Job ==
    /\ sched
    /\ \E k \in Keys, r \in Unused, p \in {PERIODIC, SWEEP} : Enqueue(k, p, r)
    /\ UNCHANGED <<pc, held, cancelled, lifeVars>>

\* The API, and the sweep when a dashboard opens.
Ask ==
    /\ stage = "serving"
    /\ Trigger \/ TriggerRefused
    /\ UNCHANGED lifeVars

Work(w) ==
    /\ launched
    /\ WorkerStep(w)
    /\ UNCHANGED lifeVars

\* get_client, by a probe that reaches its call.
GetClient ==
    /\ \E w \in Workers : Probing(w)
    /\ client = "none"
    /\ client' = "open"
    /\ UNCHANGED <<vars, stage, sched, launched, todo>>

-----------------------------------------------------------------------------
(* Shutdown.                                                                *)

Shutdown ==
    /\ stage = "serving"
    /\ launched
    /\ StopWorkers
    /\ stage' = "draining"
    /\ UNCHANGED <<sched, launched, todo, client>>

GiveUp ==
    /\ stage = "draining"
    /\ Timeout
    /\ UNCHANGED lifeVars

\* (mutant) the tasks are cancelled and left to themselves
Drained_AtTimeout ==
    /\ stage = "draining"
    /\ cancelled \/ \A w \in Workers : pc[w] = "stopped"
    /\ stage' = "drained"
    /\ UNCHANGED <<vars, sched, launched, todo, client>>
\* wait_for returns when all workers have ended; after its timeout it still
\* waits for the tasks it has cancelled.
Drained ==
    /\ stage = "draining"
    /\ \A w \in Workers : pc[w] = "stopped"
    /\ stage' = "drained"
    /\ UNCHANGED <<vars, sched, launched, todo, client>>

ShutdownScheduler ==
    /\ stage = "drained"
    /\ stage' = "halted"
    /\ sched' = FALSE
    /\ UNCHANGED <<vars, launched, todo, client>>

\* aclose_client
CloseClient ==
    /\ stage = "halted"
    /\ stage' = "closed"
    /\ client' = "none"
    /\ UNCHANGED <<vars, sched, launched, todo>>

\* engine.dispose; the loop ends, and with it the catch-up.
Dispose ==
    /\ stage = "closed"
    /\ stage' = "ended"
    /\ todo' = {}
    /\ UNCHANGED <<vars, sched, launched, client>>

Ended == stage = "ended" /\ UNCHANGED <<vars, lifeVars>>

Startup == StartScheduler \/ Serve \/ Launch \/ \E k \in Keys : CatchUp(k)
Teardown == GiveUp \/ Drained \/ ShutdownScheduler \/ CloseClient \/ Dispose

LifeNext ==
    \/ Startup \/ Job \/ Ask \/ GetClient
    \/ \E w \in Workers : Work(w)
    \/ Shutdown \/ Teardown \/ Ended

LifeSpec == LifeInit /\ [][LifeNext]_<<vars, lifeVars>>

\* The event loop runs every ready task, a probe ends (it has a watchdog), the
\* timer of wait_for fires.  Nothing makes the process stop.
LifeFairness ==
    /\ WF_<<vars, lifeVars>>(Startup)
    /\ WF_<<vars, lifeVars>>(Teardown)
    /\ \A w \in Workers : WF_<<vars, lifeVars>>(Work(w))
LifeFairSpec == LifeSpec /\ LifeFairness

-----------------------------------------------------------------------------
(* Properties.                                                              *)

\* The shared client is closed only after all probes are done, and none is made
\* again behind that: no probe begins or goes on once the pool has drained.
ClientOutlivesProbes ==
    stage \in {"drained", "halted", "closed", "ended"} =>
        /\ inFlight = {} /\ \A w \in Workers : ~Probing(w)
        /\ stage \in {"closed", "ended"} => client = "none"

\* Liveness: a shutdown that has begun ends, whatever the workers were doing.
ShutdownEnds == stage = "draining" ~> stage = "ended"

\* All the process ever does to the pool, from a queue filled before there are
\* workers to a teardown under running probes, WorkerPool allows: what is proved
\* of the pool holds in the whole process.
ImplementsPool == Spec

-----------------------------------------------------------------------------
(* What the docs and comments say and the code does not do.                 *)

\* main.py:142: the scheduler is shut down before the workers finish.
SchedulerStopsFirst ==
    closed /\ (\A w \in Workers : pc[w] = "stopped") => ~sched
=============================================================================
