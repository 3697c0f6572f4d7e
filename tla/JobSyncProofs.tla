--------------------------- MODULE JobSyncProofs ---------------------------
(***************************************************************************)
(* That a sync leaves the jobs of the enabled targets and no others, for   *)
(* any providers, models, owners and handlers: what a start does in every   *)
(* behaviour, what the syncs do in those where no two requests overlap     *)
(* (the code does not keep them apart, and then it is false).              *)
(***************************************************************************)
EXTENDS JobSync, TLAPS

\* No two requests are being served at a time.
NoOverlap == \A h, g \in Handlers : sync[h].pc # "idle" /\ sync[g].pc # "idle" => h = g

ActiveProviders == {p \in Providers : Active(p)}

\* Where a sync of everything comes to after it has read the providers.
InSyncAll(c) == c.all /\ c.pc \in {"next", "read", "list", "models", "chats"}

(* What holds of the contexts however many requests there are.              *)

Contextual ==
    \A h \in Handlers :
        /\ sync[h].pc \in {"all", "next"} => sync[h].all
        /\ sync[h].pc = "chats" => sync[h].ms \subseteq ModelsOf(sync[h].at)

StartReads ==
    /\ mode = "down" => \A h \in Handlers : sync[h].pc = "idle"
    /\ mode = "starting" =>
           \A h \in Handlers :
               /\ sync[h].pc # "idle" => sync[h].all
               /\ InSyncAll(sync[h]) => sync[h].live = ActiveProviders

SweepIsDue == mode = "running" => job["sweep"] = "due"

StartInv == TypeOK /\ Contextual /\ StartReads /\ SweepIsDue

(* What holds as long as requests do not overlap: a provider that is not     *)
(* still to be synced is right, whatever was changed without a sync since.   *)

StrayFree(p) ==
    /\ job[p] # "absent" => provider[p] = "on"
    /\ \A m \in ModelsOf(p) \ unsynced : job[m] # "absent" => provider[p] = "on" /\ model[m] = "on"

Complete(p) ==
    p \notin deleted /\ provider[p] = "on" =>
        /\ job[p] # "absent"
        /\ \A m \in ModelsOf(p) \ unsynced : model[m] = "on" => job[m] # "absent"

Right(p) == StrayFree(p) /\ Complete(p)

\* The providers a sync in context c has nothing more to do for.
Settled(c) ==
    CASE c.pc = "idle" -> Providers
      [] c.pc \in {"favorites", "disabled", "all"} -> {}
      [] c.pc = "next" -> c.live \ c.todo
      [] OTHER -> (IF c.all THEN c.live \ c.todo ELSE Providers) \ {c.at}

SettledByAll(p) == \A h \in Handlers : p \in Settled(sync[h])

SettledIsRight == mode # "down" => \A p \in Providers : SettledByAll(p) => Right(p)

Current(c) ==
    /\ InSyncAll(c) => c.live = ActiveProviders
    /\ c.pc \in {"list", "models", "chats"} => (c.on <=> provider[c.at] = "on")
    /\ c.pc \in {"models", "chats"} => (job[c.at] # "absent" <=> provider[c.at] = "on")
    /\ c.pc = "chats" => \A m \in ModelsOf(c.at) \ unsynced : m \in c.ms <=> model[m] = "on"

ReadIsCurrent == \A h \in Handlers : Current(sync[h])

StartSyncs == mode = "starting" => \E h \in Handlers : sync[h].pc # "idle"

IInv == StartInv /\ SettledIsRight /\ ReadIsCurrent /\ StartSyncs

-----------------------------------------------------------------------------
(* Contexts: what an assignment to some fields makes of the others.         *)

PCs == {"idle", "favorites", "disabled", "all", "next", "read", "list", "models", "chats"}

Has(c, pc, all, todo, live, at, on, ms) ==
    /\ c \in Contexts
    /\ c.pc = pc /\ c.all = all /\ c.todo = todo /\ c.live = live
    /\ c.at = at /\ c.on = on /\ c.ms = ms

\* The fields of a sync context, each in its set.
LEMMA ContextFields ==
    ASSUME NEW c \in Contexts
    PROVE  /\ c.pc \in PCs /\ c.all \in BOOLEAN /\ c.todo \subseteq Providers /\ c.live \subseteq Providers
           /\ c.at \in Providers /\ c.on \in BOOLEAN /\ c.ms \subseteq Models
BY DEF Contexts, PCs

\* The fields of the idle context.
LEMMA IdleHas == Has(Idle, "idle", FALSE, {}, {}, Idle.at, FALSE, {})
BY SyncAssumption DEF SyncAssumption, Idle, Contexts, Has

\* The contexts a request starts with.
LEMMA IdleEdits ==
    /\ \A p \in Providers :
          /\ Has([Idle EXCEPT !.pc = "read", !.at = p], "read", FALSE, {}, {}, p, FALSE, {})
          /\ Has([Idle EXCEPT !.pc = "favorites", !.at = p], "favorites", FALSE, {}, {}, p, FALSE, {})
    /\ Has([Idle EXCEPT !.pc = "all", !.all = TRUE], "all", TRUE, {}, {}, Idle.at, FALSE, {})
BY IdleHas DEF Contexts, Has

\* What each edit of a context makes of its fields.
LEMMA ContextEdits ==
    ASSUME NEW c \in Contexts
    PROVE  /\ \A pc \in PCs : Has([c EXCEPT !.pc = pc], pc, c.all, c.todo, c.live, c.at, c.on, c.ms)
           /\ \A ps \in SUBSET Providers :
                 Has([c EXCEPT !.pc = "next", !.todo = ps, !.live = ps], "next", c.all, ps, ps, c.at, c.on, c.ms)
           /\ \A p \in Providers :
                 Has([c EXCEPT !.pc = "read", !.todo = @ \ {p}, !.at = p],
                     "read", c.all, c.todo \ {p}, c.live, p, c.on, c.ms)
           /\ \A on \in BOOLEAN :
                 Has([c EXCEPT !.pc = "list", !.on = on], "list", c.all, c.todo, c.live, c.at, on, c.ms)
           /\ \A ms \in SUBSET Models :
                 /\ Has([c EXCEPT !.pc = "chats", !.ms = ms], "chats", c.all, c.todo, c.live, c.at, c.on, ms)
                 /\ Has([c EXCEPT !.pc = "next", !.ms = ms], "next", c.all, c.todo, c.live, c.at, c.on, ms)
<1>1. \A pc \in PCs : Has([c EXCEPT !.pc = pc], pc, c.all, c.todo, c.live, c.at, c.on, c.ms)
  BY DEF Contexts, PCs, Has
<1>2. \A ps \in SUBSET Providers :
         Has([c EXCEPT !.pc = "next", !.todo = ps, !.live = ps], "next", c.all, ps, ps, c.at, c.on, c.ms)
  BY DEF Contexts, Has
<1>3. \A p \in Providers :
         Has([c EXCEPT !.pc = "read", !.todo = @ \ {p}, !.at = p],
             "read", c.all, c.todo \ {p}, c.live, p, c.on, c.ms)
  BY DEF Contexts, Has
<1>4. \A on \in BOOLEAN :
         Has([c EXCEPT !.pc = "list", !.on = on], "list", c.all, c.todo, c.live, c.at, on, c.ms)
  BY DEF Contexts, Has
<1>5. \A ms \in SUBSET Models :
         /\ Has([c EXCEPT !.pc = "chats", !.ms = ms], "chats", c.all, c.todo, c.live, c.at, c.on, ms)
         /\ Has([c EXCEPT !.pc = "next", !.ms = ms], "next", c.all, c.todo, c.live, c.at, c.on, ms)
  BY DEF Contexts, Has
<1> QED
  BY <1>1, <1>2, <1>3, <1>4, <1>5

\* What a step of request h makes of its context; the others stay.
Written(h, pc, all, todo, live, at, on, ms) ==
    /\ sync' \in [Handlers -> Contexts]
    /\ Has(sync'[h], pc, all, todo, live, at, on, ms)
    /\ \A g \in Handlers \ {h} : sync'[g] = sync[g]

\* A handler that writes a context with these fields leaves the other handlers alone.
LEMMA Writing ==
    ASSUME TypeOK, NEW h \in Handlers, NEW c, sync' = [sync EXCEPT ![h] = c],
           NEW pc, NEW all, NEW todo, NEW live, NEW at, NEW on, NEW ms,
           Has(c, pc, all, todo, live, at, on, ms)
    PROVE  Written(h, pc, all, todo, live, at, on, ms)
BY DEF TypeOK, Written, Has

\* The context each request leaves behind.
LEMMA RequestWrites ==
    ASSUME TypeOK, NEW h \in Handlers
    PROVE  /\ \A p \in Providers : SyncOne(h, p) => Written(h, "read", FALSE, {}, {}, p, FALSE, {})
           /\ SyncAll(h) => Written(h, "all", TRUE, {}, {}, Idle.at, FALSE, {})
           /\ \A p \in Providers, e \in Switch : Import(h, p, e) => Written(h, "favorites", FALSE, {}, {}, p, FALSE, {})
<1>1. ASSUME NEW p \in Providers, SyncOne(h, p)
      PROVE  Written(h, "read", FALSE, {}, {}, p, FALSE, {})
  BY <1>1, IdleEdits, Writing DEF SyncOne
<1>2. ASSUME SyncAll(h)
      PROVE  Written(h, "all", TRUE, {}, {}, Idle.at, FALSE, {})
  BY <1>2, IdleEdits, Writing DEF SyncAll
<1>3. ASSUME NEW p \in Providers, NEW e \in Switch, Import(h, p, e)
      PROVE  Written(h, "favorites", FALSE, {}, {}, p, FALSE, {})
  BY <1>3, IdleEdits, Writing DEF Import
<1> QED
  BY <1>1, <1>2, <1>3

\* The context each step of a sync leaves behind.
LEMMA SyncWrites ==
    ASSUME TypeOK, NEW h \in Handlers, NEW c, c = sync[h]
    PROVE  /\ \A S \in SUBSET Models : ImportFavorites(h, S) => Written(h, "disabled", c.all, c.todo, c.live, c.at, c.on, c.ms)
           /\ ReadAll(h) => Written(h, "next", c.all, ActiveProviders, ActiveProviders, c.at, c.on, c.ms)
           /\ \A p \in Providers : NextProvider(h, p) => Written(h, "read", c.all, c.todo \ {p}, c.live, p, c.on, c.ms)
           /\ ReadProvider(h) => Written(h, "list", c.all, c.todo, c.live, c.at, provider[c.at] = "on", c.ms)
           /\ PutListJob(h) => Written(h, "models", c.all, c.todo, c.live, c.at, c.on, c.ms)
           /\ ReadModels(h) => Written(h, "chats", c.all, c.todo, c.live, c.at, c.on,
                                       {m \in ModelsOf(c.at) : model[m] = "on"})
           /\ PutChatJobs(h) =>
                 IF c.all THEN Written(h, "next", c.all, c.todo, c.live, c.at, c.on, {})
                 ELSE Written(h, "idle", FALSE, {}, {}, Idle.at, FALSE, {})
           /\ Prune(h) => Written(h, "idle", FALSE, {}, {}, Idle.at, FALSE, {})
<1>1. c \in Contexts
  BY DEF TypeOK
<1>2. ASSUME NEW S \in SUBSET Models, ImportFavorites(h, S)
      PROVE  Written(h, "disabled", c.all, c.todo, c.live, c.at, c.on, c.ms)
  <2>1. Has([c EXCEPT !.pc = "disabled"], "disabled", c.all, c.todo, c.live, c.at, c.on, c.ms)
    BY <1>1, ContextEdits DEF PCs
  <2>2. sync' = [sync EXCEPT ![h] = [c EXCEPT !.pc = "disabled"]]
    BY <1>2 DEF ImportFavorites, TypeOK
  <2> QED
    BY <2>1, <2>2, Writing
<1>3. ASSUME ReadAll(h)
      PROVE  Written(h, "next", c.all, ActiveProviders, ActiveProviders, c.at, c.on, c.ms)
  <2>1. ActiveProviders \in SUBSET Providers
    BY DEF ActiveProviders
  <2>2. sync' = [sync EXCEPT ![h] = [c EXCEPT !.pc = "next", !.todo = ActiveProviders, !.live = ActiveProviders]]
    BY <1>3 DEF ReadAll, Resume, ActiveProviders
  <2> QED
    BY <1>1, <2>1, <2>2, ContextEdits, Writing
<1>4. ASSUME NEW p \in Providers, NextProvider(h, p)
      PROVE  Written(h, "read", c.all, c.todo \ {p}, c.live, p, c.on, c.ms)
  <2>1. sync' = [sync EXCEPT ![h] = [c EXCEPT !.pc = "read", !.todo = @ \ {p}, !.at = p]]
    BY <1>4 DEF NextProvider, Resume
  <2> QED
    BY <1>1, <2>1, ContextEdits, Writing
<1>5. ASSUME ReadProvider(h)
      PROVE  Written(h, "list", c.all, c.todo, c.live, c.at, provider[c.at] = "on", c.ms)
  <2>1. sync' = [sync EXCEPT ![h] = [c EXCEPT !.pc = "list", !.on = (provider[c.at] = "on")]]
    BY <1>5 DEF ReadProvider, Resume
  <2>2. (provider[c.at] = "on") \in BOOLEAN
    OBVIOUS
  <2> QED
    BY <1>1, <2>1, <2>2, ContextEdits, Writing
<1>6. ASSUME PutListJob(h)
      PROVE  Written(h, "models", c.all, c.todo, c.live, c.at, c.on, c.ms)
  <2>1. Has([c EXCEPT !.pc = "models"], "models", c.all, c.todo, c.live, c.at, c.on, c.ms)
    BY <1>1, ContextEdits DEF PCs
  <2>2. sync' = [sync EXCEPT ![h] = [c EXCEPT !.pc = "models"]]
    BY <1>6 DEF PutListJob, Resume
  <2> QED
    BY <2>1, <2>2, Writing
<1>7. ASSUME ReadModels(h)
      PROVE  Written(h, "chats", c.all, c.todo, c.live, c.at, c.on, {m \in ModelsOf(c.at) : model[m] = "on"})
  <2> DEFINE ms == {m \in ModelsOf(c.at) : model[m] = "on"}
  <2>1. ms \in SUBSET Models
    BY DEF ModelsOf
  <2>2. sync' = [sync EXCEPT ![h] = [c EXCEPT !.pc = "chats", !.ms = ms]]
    BY <1>7 DEF ReadModels, Resume
  <2> HIDE DEF ms
  <2>3. Written(h, "chats", c.all, c.todo, c.live, c.at, c.on, ms)
    BY <1>1, <2>1, <2>2, ContextEdits, Writing
  <2> QED
    BY <2>3 DEF ms
<1>8. ASSUME PutChatJobs(h)
      PROVE  IF c.all THEN Written(h, "next", c.all, c.todo, c.live, c.at, c.on, {})
             ELSE Written(h, "idle", FALSE, {}, {}, Idle.at, FALSE, {})
  <2>1. CASE c.all
    <3>1. sync' = [sync EXCEPT ![h] = [c EXCEPT !.pc = "next", !.ms = {}]]
      BY <1>8, <2>1 DEF PutChatJobs, Resume
    <3>2. {} \in SUBSET Models
      OBVIOUS
    <3> QED
      BY <1>1, <2>1, <3>1, <3>2, ContextEdits, Writing
  <2>2. CASE ~c.all
    <3>1. sync' = [sync EXCEPT ![h] = Idle]
      BY <1>8, <2>2 DEF PutChatJobs, Resume
    <3> QED
      BY <2>2, <3>1, IdleHas, Writing
  <2> QED
    BY <2>1, <2>2
<1>9. ASSUME Prune(h)
      PROVE  Written(h, "idle", FALSE, {}, {}, Idle.at, FALSE, {})
  BY <1>9, IdleHas, Writing DEF Prune, Resume
<1> QED
  BY <1>2, <1>3, <1>4, <1>5, <1>6, <1>7, <1>8, <1>9


-----------------------------------------------------------------------------
(* Types.                                                                   *)

\* The jobs of different owners, and those of no owner, are different jobs.
LEMMA JobIdsApart ==
    /\ "sweep" \in JobIds /\ "daily" \in JobIds /\ "errors" \in JobIds
    /\ \A p \in Providers : p \in JobIds /\ p # "sweep" /\ p \notin Maintenance /\ p \notin Models
    /\ \A m \in Models : m \in JobIds /\ m # "sweep" /\ m \notin Maintenance /\ Owner[m] \in Providers
    /\ \A p, q \in Providers : p # q => JobsOf(p) \intersect JobsOf(q) = {}
    /\ \A p \in Providers : JobsOf(p) \subseteq JobIds \ ({"sweep"} \union Maintenance)
<1>1. /\ "sweep" \in JobIds /\ "daily" \in JobIds /\ "errors" \in JobIds
      /\ \A p \in Providers : p \in JobIds /\ p # "sweep" /\ p \notin Maintenance /\ p \notin Models
      /\ \A m \in Models : m \in JobIds /\ m # "sweep" /\ m \notin Maintenance /\ Owner[m] \in Providers
  BY SyncAssumption DEF SyncAssumption, JobIds, Maintenance
<1>2. \A p, q \in Providers : p # q => JobsOf(p) \intersect JobsOf(q) = {}
  BY <1>1 DEF JobsOf, ModelsOf
<1>3. \A p \in Providers : JobsOf(p) \subseteq JobIds \ ({"sweep"} \union Maintenance)
  BY <1>1 DEF JobsOf, ModelsOf
<1> QED
  BY <1>1, <1>2, <1>3

\* An upsert leaves a job exactly if its target is on.
LEMMA UpsertedValues ==
    ASSUME NEW j, NEW on \in BOOLEAN
    PROVE  /\ Upserted(j, on) \in {"absent", "due", "paused"}
           /\ Upserted(j, on) # "absent" <=> on
BY DEF Upserted

\* Every step keeps the types.
LEMMA TypeKept ==
    ASSUME TypeOK, Next
    PROVE  TypeOK'
<1> USE DEF TypeOK
<1>1. ASSUME NEW h \in Handlers, Request(h)
      PROVE  TypeOK'
  <2>1. ASSUME NEW p \in Providers, NEW e \in Switch, Create(h, p, e)
        PROVE  TypeOK'
    BY <2>1, RequestWrites DEF Create, Written, Switch
  <2>2. ASSUME NEW p \in Providers, NEW e \in Switch, Patch(h, p, e)
        PROVE  TypeOK'
    BY <2>2, RequestWrites DEF Patch, Written, Switch
  <2>3. ASSUME NEW p \in Providers, NEW e \in Switch, Import(h, p, e)
        PROVE  TypeOK'
    <3>1. sync' \in [Handlers -> Contexts]
      BY <2>3, RequestWrites DEF Written
    <3> QED
      BY <2>3, <3>1 DEF Import, Switch
  <2>4. ASSUME NEW p \in Providers, Delete(h, p)
        PROVE  TypeOK'
    BY <2>4, RequestWrites DEF Delete, Written, Active
  <2>5. ASSUME NEW p \in Providers, NEW S \in SUBSET ModelsOf(p), AddModels(h, p, S)
        PROVE  TypeOK'
    BY <2>5, RequestWrites DEF AddModels, Written, Switch
  <2>6. ASSUME NEW m \in Models, NEW e \in Switch, PatchModel(h, m, e)
        PROVE  TypeOK'
    BY <2>6, RequestWrites, JobIdsApart DEF PatchModel, Written, Switch
  <2>7. ASSUME PutSettings(h)
        PROVE  TypeOK'
    BY <2>7, RequestWrites DEF PutSettings, Written
  <2> QED
    BY <1>1, <2>1, <2>2, <2>3, <2>4, <2>5, <2>6, <2>7 DEF Request
<1>2. ASSUME NEW h \in Handlers, SyncStep(h)
      PROVE  TypeOK'
  <2> DEFINE c == sync[h]
  <2>0. c \in Contexts /\ c.at \in Providers /\ c.on \in BOOLEAN /\ c.at \in JobIds
    BY ContextFields, JobIdsApart
  <2>1. ASSUME NEW S \in SUBSET ModelsOf(c.at), ImportFavorites(h, S)
        PROVE  TypeOK'
    <3>1. S \in SUBSET Models
      BY DEF ModelsOf
    <3>2. sync' \in [Handlers -> Contexts]
      BY <2>1, <3>1, SyncWrites DEF Written
    <3> QED
      BY <2>1, <3>2 DEF ImportFavorites, Switch
  <2>2. ASSUME NEW S \in SUBSET ModelsOf(c.at), ImportDisabled(h, S)
        PROVE  TypeOK'
    <3>1. sync' \in [Handlers -> Contexts]
      BY <2>2, RequestWrites DEF ImportDisabled, Written
    <3> QED
      BY <2>2, <3>1 DEF ImportDisabled, Switch
  <2>3. ASSUME ImportNoDisabled(h)
        PROVE  TypeOK'
    BY <2>3, RequestWrites DEF ImportNoDisabled, Written
  <2>4. ASSUME ReadAll(h)
        PROVE  TypeOK'
    <3>1. sync' \in [Handlers -> Contexts]
      BY <2>4, SyncWrites DEF Written
    <3> QED
      BY <2>4, <3>1 DEF ReadAll
  <2>5. ASSUME NEW p \in Providers, NextProvider(h, p)
        PROVE  TypeOK'
    <3>1. sync' \in [Handlers -> Contexts]
      BY <2>5, SyncWrites DEF Written
    <3> QED
      BY <2>5, <3>1 DEF NextProvider
  <2>6. ASSUME ReadProvider(h)
        PROVE  TypeOK'
    <3>1. sync' \in [Handlers -> Contexts]
      BY <2>6, SyncWrites DEF Written
    <3> QED
      BY <2>6, <3>1 DEF ReadProvider
  <2>7. ASSUME PutListJob(h)
        PROVE  TypeOK'
    <3>1. sync' \in [Handlers -> Contexts]
      BY <2>7, SyncWrites DEF Written
    <3>2. job' \in [JobIds -> {"absent", "due", "paused"}]
      BY <2>7, <2>0, UpsertedValues DEF PutListJob
    <3> QED
      BY <2>7, <3>1, <3>2 DEF PutListJob
  <2>8. ASSUME ReadModels(h)
        PROVE  TypeOK'
    <3>1. sync' \in [Handlers -> Contexts]
      BY <2>8, SyncWrites DEF Written
    <3> QED
      BY <2>8, <3>1 DEF ReadModels
  <2>9. ASSUME PutChatJobs(h)
        PROVE  TypeOK'
    <3>1. sync' \in [Handlers -> Contexts]
      BY <2>9, SyncWrites DEF Written
    <3>2. job' \in [JobIds -> {"absent", "due", "paused"}]
      BY <2>9, <2>0, UpsertedValues DEF PutChatJobs, Chats
    <3> QED
      BY <2>9, <3>1, <3>2 DEF PutChatJobs
  <2>10. ASSUME Prune(h)
         PROVE  TypeOK'
    <3>1. sync' \in [Handlers -> Contexts]
      BY <2>10, SyncWrites DEF Written
    <3> QED
      BY <2>10, <3>1 DEF Prune, Pruned
  <2> QED
    BY <1>2, <2>1, <2>2, <2>3, <2>4, <2>5, <2>6, <2>7, <2>8, <2>9, <2>10 DEF SyncStep
<1>3. ASSUME NEW h \in Handlers, Boot(h)
      PROVE  TypeOK'
  BY <1>3, RequestWrites DEF Boot, Written
<1>4. ASSUME NEW p \in Providers, NEW S \in SUBSET ModelsOf(p), Discover(p, S)
      PROVE  TypeOK'
  BY <1>4 DEF Discover, Switch, ModelsOf
<1>5. ASSUME NEW S \in SUBSET Models, DisableStale(S)
      PROVE  TypeOK'
  BY <1>5 DEF DisableStale, Switch
<1>6. ASSUME NEW m \in Models, Reschedule(m)
      PROVE  TypeOK'
  BY <1>6 DEF Reschedule
<1>7. ASSUME Crash
      PROVE  TypeOK'
  BY <1>7, IdleHas DEF Crash, Has
<1> QED
  BY <1>1, <1>2, <1>3, <1>4, <1>5, <1>6, <1>7 DEF Next

(* Type correctness: whatever the requests, the syncs, the probes and the   *)
(* crashes do to them, rows, jobs and contexts stay what they are.          *)
THEOREM TypeCorrect == Spec => []TypeOK
<1>1. Init => TypeOK
  BY IdleHas DEF Init, TypeOK, Has
<1>2. TypeOK /\ [Next]_vars => TypeOK'
  <2>1. CASE UNCHANGED vars
    BY <2>1 DEF vars, TypeOK
  <2> QED
    BY <2>1, TypeKept
<1> QED
  BY <1>1, <1>2, PTL DEF Spec

-----------------------------------------------------------------------------
(* The start.                                                               *)

\* A step of request h that leaves the mode as it is.
LEMMA HandlerKeepsStart ==
    ASSUME StartInv, NEW h \in Handlers, NEW c, c = sync'[h],
           \A g \in Handlers \ {h} : sync'[g] = sync[g],
           mode # "down", mode' = mode, job'["sweep"] = job["sweep"],
           c.pc \in {"all", "next"} => c.all,
           c.pc = "chats" => c.ms \subseteq ModelsOf(c.at),
           mode = "starting" =>
               /\ provider' = provider /\ deleted' = deleted
               /\ c.pc # "idle" => c.all
               /\ InSyncAll(c) => c.live = ActiveProviders
    PROVE  Contextual' /\ StartReads' /\ SweepIsDue'
<1> USE DEF StartInv
<1>1. Contextual'
  <2>1. ASSUME NEW g \in Handlers
        PROVE  /\ sync'[g].pc \in {"all", "next"} => sync'[g].all
               /\ sync'[g].pc = "chats" => sync'[g].ms \subseteq ModelsOf(sync'[g].at)
    BY DEF Contextual
  <2> QED
    BY <2>1 DEF Contextual
<1>2. StartReads'
  <2>1. mode' # "down"
    OBVIOUS
  <2>2. ASSUME mode = "starting"
        PROVE  ActiveProviders' = ActiveProviders
    BY <2>2 DEF ActiveProviders, Active
  <2>3. ASSUME mode = "starting", NEW g \in Handlers
        PROVE  /\ sync'[g].pc # "idle" => sync'[g].all
               /\ InSyncAll(sync'[g]) => sync'[g].live = ActiveProviders
    BY <2>3 DEF StartReads
  <2>4. ASSUME mode' = "starting", NEW g \in Handlers
        PROVE  /\ sync[g]'.pc # "idle" => sync[g]'.all
               /\ InSyncAll(sync[g])' => sync[g]'.live = ActiveProviders'
    BY <2>4, <2>2, <2>3 DEF InSyncAll
  <2> QED
    BY <2>1, <2>4 DEF StartReads
<1>3. SweepIsDue'
  BY DEF SweepIsDue
<1> QED
  BY <1>1, <1>2, <1>3

\* A step that is of no request and leaves the providers alone.
LEMMA OthersKeepStart ==
    ASSUME StartInv, sync' = sync, mode' = mode, provider' = provider, deleted' = deleted,
           job'["sweep"] = job["sweep"]
    PROVE  Contextual' /\ StartReads' /\ SweepIsDue'
<1> USE DEF StartInv
<1>1. ActiveProviders' = ActiveProviders
  BY DEF ActiveProviders, Active
<1>2. Contextual'
  BY DEF Contextual
<1>3. StartReads'
  BY <1>1 DEF StartReads, InSyncAll
<1>4. SweepIsDue'
  BY DEF SweepIsDue
<1> QED
  BY <1>2, <1>3, <1>4

\* A request leaves a start in progress, and the sweep, alone.
LEMMA RequestKeepsStart ==
    ASSUME StartInv, NEW h \in Handlers, Request(h)
    PROVE  Contextual' /\ StartReads' /\ SweepIsDue'
<1> DEFINE Kept == Contextual' /\ StartReads' /\ SweepIsDue'
<1>1. mode = "running" /\ mode' = mode /\ job' = job
  BY DEF Request, Create, Patch, Import, Delete, AddModels, PatchModel, PutSettings, Free
<1>2. ASSUME NEW p \in Providers, SyncOne(h, p)
      PROVE  Kept
  <2>1. Written(h, "read", FALSE, {}, {}, p, FALSE, {})
    BY <1>2, RequestWrites DEF StartInv
  <2> QED
    BY <1>1, <2>1, HandlerKeepsStart DEF Written, Has, InSyncAll
<1>3. ASSUME SyncAll(h)
      PROVE  Kept
  <2>1. Written(h, "all", TRUE, {}, {}, Idle.at, FALSE, {})
    BY <1>3, RequestWrites DEF StartInv
  <2> QED
    BY <1>1, <2>1, HandlerKeepsStart DEF Written, Has, InSyncAll
<1>4. ASSUME NEW p \in Providers, NEW e \in Switch, Import(h, p, e)
      PROVE  Kept
  <2>1. Written(h, "favorites", FALSE, {}, {}, p, FALSE, {})
    BY <1>4, RequestWrites DEF StartInv
  <2> QED
    BY <1>1, <2>1, HandlerKeepsStart DEF Written, Has, InSyncAll
<1>5. \/ \E p \in Providers : SyncOne(h, p)
      \/ SyncAll(h)
      \/ \E p \in Providers, e \in Switch : Import(h, p, e)
  BY JobIdsApart DEF Request, Create, Patch, Delete, AddModels, PatchModel, PutSettings
<1> QED
  BY <1>2, <1>3, <1>4, <1>5

\* So does a step of a sync, the one of the start among them.
LEMMA SyncStepKeepsStart ==
    ASSUME StartInv, NEW h \in Handlers, SyncStep(h)
    PROVE  Contextual' /\ StartReads' /\ SweepIsDue'
<1> DEFINE c == sync[h]
           Kept == Contextual' /\ StartReads' /\ SweepIsDue'
<1>0. /\ TypeOK /\ c \in Contexts /\ c.at \in Providers
      /\ c.pc \in {"all", "next"} => c.all
      /\ c.pc = "chats" => c.ms \subseteq ModelsOf(c.at)
      /\ mode = "starting" => /\ c.pc # "idle" => c.all
                              /\ InSyncAll(c) => c.live = ActiveProviders
      /\ mode = "down" => c.pc = "idle"
      /\ "sweep" \in JobIds /\ c.at # "sweep"
  BY JobIdsApart, ContextFields DEF StartInv, TypeOK, Contextual, StartReads
<1> USE <1>0
<1>1. ASSUME NEW S \in SUBSET ModelsOf(c.at), ImportFavorites(h, S)
      PROVE  Kept
  <2>1. Written(h, "disabled", c.all, c.todo, c.live, c.at, c.on, c.ms)
    BY <1>1, SyncWrites DEF ModelsOf
  <2> QED
    BY <1>1, <2>1, HandlerKeepsStart DEF ImportFavorites, Written, Has, InSyncAll
<1>2. ASSUME SyncAll(h), c.pc = "disabled", mode' = mode, job' = job, provider' = provider, deleted' = deleted
      PROVE  Kept
  <2>1. Written(h, "all", TRUE, {}, {}, Idle.at, FALSE, {})
    BY <1>2, RequestWrites
  <2>2. mode # "down"
    BY <1>2
  <2> QED
    BY <1>2, <2>1, <2>2, HandlerKeepsStart DEF Written, Has, InSyncAll
<1>3. ASSUME ReadAll(h)
      PROVE  Kept
  <2>1. Written(h, "next", c.all, ActiveProviders, ActiveProviders, c.at, c.on, c.ms)
    BY <1>3, SyncWrites
  <2> QED
    BY <1>3, <2>1, HandlerKeepsStart DEF ReadAll, Written, Has, InSyncAll
<1>4. ASSUME NEW p \in Providers, NextProvider(h, p)
      PROVE  Kept
  <2>1. Written(h, "read", c.all, c.todo \ {p}, c.live, p, c.on, c.ms)
    BY <1>4, SyncWrites
  <2> QED
    BY <1>4, <2>1, HandlerKeepsStart DEF NextProvider, Written, Has, InSyncAll
<1>5. ASSUME ReadProvider(h)
      PROVE  Kept
  <2>1. Written(h, "list", c.all, c.todo, c.live, c.at, provider[c.at] = "on", c.ms)
    BY <1>5, SyncWrites
  <2> QED
    BY <1>5, <2>1, HandlerKeepsStart DEF ReadProvider, Written, Has, InSyncAll
<1>6. ASSUME PutListJob(h)
      PROVE  Kept
  <2>1. Written(h, "models", c.all, c.todo, c.live, c.at, c.on, c.ms)
    BY <1>6, SyncWrites
  <2>2. job'["sweep"] = job["sweep"]
    BY <1>6 DEF PutListJob, TypeOK
  <2> QED
    BY <1>6, <2>1, <2>2, HandlerKeepsStart DEF PutListJob, Written, Has, InSyncAll
<1>7. ASSUME ReadModels(h)
      PROVE  Kept
  <2>1. Written(h, "chats", c.all, c.todo, c.live, c.at, c.on, {m \in ModelsOf(c.at) : model[m] = "on"})
    BY <1>7, SyncWrites
  <2> QED
    BY <1>7, <2>1, HandlerKeepsStart DEF ReadModels, Written, Has, InSyncAll
<1>8. ASSUME PutChatJobs(h)
      PROVE  Kept
  <2>1. job'["sweep"] = job["sweep"]
    <3>1. "sweep" \notin ModelsOf(c.at) /\ "sweep" \notin c.ms
      BY <1>8, JobIdsApart DEF ModelsOf, PutChatJobs
    <3> QED
      BY <1>8, <3>1 DEF PutChatJobs, Chats
  <2>2. CASE c.all
    <3>1. Written(h, "next", c.all, c.todo, c.live, c.at, c.on, {})
      BY <1>8, <2>2, SyncWrites
    <3>2. mode' = mode /\ provider' = provider /\ deleted' = deleted /\ mode # "down"
      BY <1>8 DEF PutChatJobs
    <3>3. mode = "starting" => c.live = ActiveProviders
      BY <1>8, <2>2 DEF PutChatJobs, InSyncAll
    <3> QED
      BY <2>1, <2>2, <3>1, <3>2, <3>3, HandlerKeepsStart DEF Written, Has, InSyncAll
  <2>3. CASE ~c.all
    <3>1. Written(h, "idle", FALSE, {}, {}, Idle.at, FALSE, {})
      BY <1>8, <2>3, SyncWrites
    <3>2. mode' = mode /\ mode # "down" /\ mode # "starting"
      BY <1>8, <2>3 DEF PutChatJobs
    <3> QED
      BY <2>1, <3>1, <3>2, HandlerKeepsStart DEF Written, Has, InSyncAll
  <2> QED
    BY <2>2, <2>3
<1>9. ASSUME Prune(h)
      PROVE  Kept
  <2>1. Written(h, "idle", FALSE, {}, {}, Idle.at, FALSE, {})
    BY <1>9, SyncWrites
  <2>2. Contextual'
    BY <2>1 DEF Contextual, StartInv, Written, Has
  <2>3. mode' = "running" /\ job'["sweep"] = "due"
    BY <1>9 DEF Prune, Pruned
  <2> QED
    BY <2>2, <2>3 DEF StartReads, SweepIsDue
<1> QED
  BY <1>1, <1>2, <1>3, <1>4, <1>5, <1>6, <1>7, <1>8, <1>9 DEF SyncStep, ImportDisabled, ImportNoDisabled

\* Every step keeps what holds of the contexts however many there are.
LEMMA StartKept ==
    ASSUME StartInv, Next
    PROVE  StartInv'
<1> DEFINE Kept == Contextual' /\ StartReads' /\ SweepIsDue'
<1>1. ASSUME NEW h \in Handlers, Boot(h)
      PROVE  Kept
  <2>1. Written(h, "all", TRUE, {}, {}, Idle.at, FALSE, {})
    BY <1>1, RequestWrites DEF Boot, StartInv
  <2>2. Contextual'
    BY <2>1 DEF Contextual, Written, Has, StartInv
  <2>3. mode' = "starting"
    BY <1>1 DEF Boot
  <2>4. \A g \in Handlers : g # h => sync'[g].pc = "idle"
    BY <1>1, <2>1 DEF Boot, StartInv, StartReads, Written
  <2>5. \A g \in Handlers : (sync[g]'.pc # "idle" => sync[g]'.all) /\ ~InSyncAll(sync[g])'
    BY <2>1, <2>4 DEF Written, Has, InSyncAll
  <2>6. StartReads'
    BY <2>3, <2>5 DEF StartReads, InSyncAll
  <2> QED
    BY <2>2, <2>3, <2>6 DEF SweepIsDue
<1>2. ASSUME NEW p \in Providers, NEW S \in SUBSET ModelsOf(p), Discover(p, S)
      PROVE  Kept
  BY <1>2, OthersKeepStart DEF Discover
<1>3. ASSUME NEW S \in SUBSET Models, DisableStale(S)
      PROVE  Kept
  BY <1>3, OthersKeepStart DEF DisableStale
<1>4. ASSUME NEW m \in Models, Reschedule(m)
      PROVE  Kept
  BY <1>4, JobIdsApart, OthersKeepStart DEF Reschedule, StartInv, TypeOK
<1>5. ASSUME Crash
      PROVE  Kept
  BY <1>5, IdleHas DEF Crash, Has, Contextual, StartReads, SweepIsDue
<1>6. TypeOK'
  BY TypeKept DEF StartInv
<1> QED
  BY <1>1, <1>2, <1>3, <1>4, <1>5, <1>6, RequestKeepsStart, SyncStepKeepsStart DEF Next, StartInv

\* While the process starts, what its sync has read of the providers is current, and the
\* random sweep is due whenever the process runs, however requests overlap.
THEOREM StartIsInvariant == Spec => []StartInv
<1>1. Init => StartInv
  BY IdleHas DEF Init, StartInv, TypeOK, Contextual, StartReads, SweepIsDue, Has
<1>2. StartInv /\ [Next]_vars => StartInv'
  <2>1. ASSUME StartInv, UNCHANGED vars
        PROVE  StartInv'
    BY <2>1, OthersKeepStart DEF vars, StartInv, TypeOK
  <2> QED
    BY <2>1, StartKept
<1> QED
  BY <1>1, <1>2, PTL DEF Spec

(* The end of a start removes the jobs of every deleted provider and of its *)
(* models, whatever probes, cleanups and crashed starts came before: no     *)
(* request is served yet, so the providers pruned by are still the ones     *)
(* that were read.                                                          *)
THEOREM StartDropsDeletedJobs == Spec => StartDropsDeleted
<1> DEFINE Dropped == mode = "starting" /\ mode' = "running" =>
                          \A p \in deleted : \A j \in JobsOf(p) : job'[j] = "absent"
<1>1. ASSUME StartInv, [Next]_vars
      PROVE  Dropped
  <2> SUFFICES ASSUME mode = "starting", mode' = "running",
                      NEW p \in deleted, NEW j \in JobsOf(p)
               PROVE  job'[j] = "absent"
    OBVIOUS
  <2>1. PICK h \in Handlers : Prune(h)
    BY <1>1 DEF Next, vars, Request, Create, Patch, Import, Delete, AddModels, PatchModel, PutSettings, Free,
         SyncStep, ImportFavorites, ImportDisabled, ImportNoDisabled, ReadAll, NextProvider, ReadProvider,
         PutListJob, ReadModels, PutChatJobs, Boot, Discover, DisableStale, Reschedule, Crash
  <2>2. sync[h].live = ActiveProviders
    BY <1>1, <2>1 DEF StartInv, Contextual, StartReads, InSyncAll, Prune
  <2>3. p \in Providers /\ p \notin ActiveProviders
    BY <1>1 DEF StartInv, TypeOK, ActiveProviders, Active
  <2>4. \A q \in ActiveProviders : j \notin JobsOf(q)
    BY <2>3, JobIdsApart DEF ActiveProviders
  <2>5. j \in JobIds /\ j # "sweep"
    BY <2>3, JobIdsApart
  <2> QED
    BY <2>1, <2>2, <2>4, <2>5 DEF Prune, Pruned
<1>2. StartInv /\ [Next]_vars => [Dropped]_vars
  BY <1>1
<1> QED
  BY <1>2, StartIsInvariant, PTL DEF Spec, StartDropsDeleted

-----------------------------------------------------------------------------
(* Requests that do not overlap.                                            *)

\* The providers a sync is done with, by where it is.
LEMMA SettledAt ==
    ASSUME NEW c \in Contexts
    PROVE  /\ c.pc = "idle" => Settled(c) = Providers
           /\ c.pc \in {"favorites", "disabled", "all"} => Settled(c) = {}
           /\ c.pc = "next" => Settled(c) = c.live \ c.todo
           /\ c.pc \in {"read", "list", "models", "chats"} /\ c.all => Settled(c) = (c.live \ c.todo) \ {c.at}
           /\ c.pc \in {"read", "list", "models", "chats"} /\ ~c.all => Settled(c) = Providers \ {c.at}
BY DEF Settled

\* What a provider's being right depends on.
LEMMA RightDependsOn ==
    ASSUME NEW p \in Providers, Right(p),
           provider'[p] = provider[p], p \in deleted' <=> p \in deleted,
           job'[p] = "absent" <=> job[p] = "absent",
           \A m \in ModelsOf(p) \ unsynced' :
               m \notin unsynced /\ model'[m] = model[m] /\ (job'[m] = "absent" <=> job[m] = "absent")
    PROVE  Right(p)'
<1>1. StrayFree(p)'
  BY DEF Right, StrayFree, ModelsOf
<1>2. Complete(p)'
  BY DEF Right, Complete, ModelsOf
<1> QED
  BY <1>1, <1>2 DEF Right

\* A step of the one request that is being served, or of the first.
Alone(h) == \A g \in Handlers \ {h} : sync[g].pc = "idle" /\ sync'[g] = sync[g]

\* Of two states without overlap, the handler that steps is the only one that is not idle.
LEMMA StepsAlone ==
    ASSUME NoOverlap, NoOverlap', NEW h \in Handlers, \A g \in Handlers \ {h} : sync'[g] = sync[g],
           sync[h].pc # "idle" \/ sync'[h].pc # "idle"
    PROVE  Alone(h)
BY DEF NoOverlap, Alone

\* What is to be shown of such a step: that the providers it settles are right,
\* that it leaves the others right, and that what it has read is current.
LEMMA HandlerKeepsRight ==
    ASSUME IInv, StartInv', NEW h \in Handlers, Alone(h),
           mode # "down",
           \A p \in Providers :
               p \in Settled(sync'[h]) => \/ p \in Settled(sync[h]) /\ (Right(p) => Right(p)')
                                          \/ Right(p)',
           Current(sync[h])',
           mode' = "starting" => sync'[h].pc # "idle"
    PROVE  IInv'
<1>1. SettledIsRight'
  <2>1. ASSUME NEW p \in Providers, SettledByAll(p)'
        PROVE  Right(p)'
    <3>1. p \in Settled(sync'[h])
      BY <2>1 DEF SettledByAll, Settled
    <3>2. ASSUME p \in Settled(sync[h])
          PROVE  SettledByAll(p)
      <4>1. ASSUME NEW g \in Handlers, g # h
            PROVE  p \in Settled(sync[g])
        BY <2>1, <4>1 DEF SettledByAll, Settled, Alone
      <4> QED
        BY <3>2, <4>1 DEF SettledByAll
    <3> QED
      BY <3>1, <3>2 DEF IInv, SettledIsRight
  <2> QED
    BY <2>1 DEF SettledIsRight
<1>2. ReadIsCurrent'
  <2>1. ASSUME NEW g \in Handlers, g # h
        PROVE  Current(sync[g])'
    <3>1. sync'[g].pc = "idle"
      BY <2>1 DEF Alone
    <3> QED
      BY <3>1 DEF Current, InSyncAll
  <2> QED
    BY <2>1 DEF ReadIsCurrent
<1>3. StartSyncs'
  BY DEF StartSyncs
<1> QED
  BY <1>1, <1>2, <1>3 DEF IInv

\* A request by a handler that is alone unsettles no more than what it writes.
LEMMA RequestKeepsRight ==
    ASSUME IInv, StartInv', NoOverlap, NoOverlap', NEW h \in Handlers, Request(h)
    PROVE  IInv'
<1>1. mode = "running" /\ mode' = mode /\ job' = job /\ unsynced' = unsynced /\ sync[h].pc = "idle"
  BY DEF Request, Create, Patch, Import, Delete, AddModels, PatchModel, PutSettings, Free
<1>0. TypeOK /\ TypeOK' /\ \A g \in Handlers : sync[g] \in Contexts /\ sync'[g] \in Contexts
  BY DEF IInv, StartInv, TypeOK
\* Before the request, every provider is right.
<1>2. ASSUME Alone(h), NEW p \in Providers
      PROVE  Right(p)
  <2>1. \A g \in Handlers : sync[g].pc = "idle"
    BY <1>1, <1>2 DEF Alone
  <2>2. SettledByAll(p)
    BY <1>0, <2>1, SettledAt DEF SettledByAll
  <2> QED
    BY <1>1, <2>2 DEF IInv, SettledIsRight
<1>3. ASSUME NEW p \in Providers, SyncOne(h, p),
             \A q \in Providers \ {p} :
                 /\ provider'[q] = provider[q]
                 /\ q \in deleted' <=> q \in deleted
                 /\ \A m \in ModelsOf(q) : model'[m] = model[m]
      PROVE  IInv'
  <2>1. Written(h, "read", FALSE, {}, {}, p, FALSE, {})
    BY <1>0, <1>3, RequestWrites
  <2>2. Alone(h)
    BY <2>1, StepsAlone DEF Written, Has
  <2>3. Settled(sync'[h]) = Providers \ {p}
    BY <1>0, <2>1, SettledAt DEF Written, Has
  <2>4. ASSUME NEW q \in Providers \ {p}
        PROVE  Right(q)'
    BY <1>1, <1>2, <1>3, <2>2, RightDependsOn
  <2>5. Current(sync[h])'
    BY <2>1 DEF Current, InSyncAll, Written, Has
  <2> QED
    BY <1>1, <2>2, <2>3, <2>4, <2>5, HandlerKeepsRight
<1>4. ASSUME Alone(h), sync'[h].pc \in {"favorites", "all"}
      PROVE  IInv'
  <2>1. Settled(sync'[h]) = {}
    BY <1>0, <1>4, SettledAt
  <2>2. Current(sync[h])'
    BY <1>4 DEF Current, InSyncAll
  <2> QED
    BY <1>1, <1>4, <2>1, <2>2, HandlerKeepsRight
<1>5. ASSUME SyncAll(h)
      PROVE  IInv'
  <2>1. Written(h, "all", TRUE, {}, {}, Idle.at, FALSE, {})
    BY <1>0, <1>5, RequestWrites
  <2>2. Alone(h) /\ sync'[h].pc = "all"
    BY <2>1, StepsAlone DEF Written, Has
  <2> QED
    BY <1>4, <2>2
<1>6. ASSUME NEW p \in Providers, NEW e \in Switch, Import(h, p, e)
      PROVE  IInv'
  <2>1. Written(h, "favorites", FALSE, {}, {}, p, FALSE, {})
    BY <1>0, <1>6, RequestWrites
  <2>2. Alone(h) /\ sync'[h].pc = "favorites"
    BY <2>1, StepsAlone DEF Written, Has
  <2> QED
    BY <1>4, <2>2
<1>7. ASSUME NEW p \in Providers, NEW e \in Switch, Create(h, p, e) \/ Patch(h, p, e)
      PROVE  IInv'
  BY <1>0, <1>3, <1>7 DEF Create, Patch, TypeOK
<1>8. ASSUME NEW p \in Providers, Delete(h, p)
      PROVE  IInv'
  BY <1>3, <1>8 DEF Delete
<1>9. ASSUME NEW p \in Providers, NEW S \in SUBSET ModelsOf(p), AddModels(h, p, S)
      PROVE  IInv'
  <2>1. \A q \in Providers \ {p} : \A m \in ModelsOf(q) : model'[m] = model[m]
    BY <1>0, <1>9 DEF AddModels, ModelsOf, TypeOK
  <2> QED
    BY <1>3, <1>9, <2>1 DEF AddModels
<1>10. ASSUME NEW m \in Models, NEW e \in Switch, PatchModel(h, m, e)
       PROVE  IInv'
  <2>1. \A q \in Providers \ {Owner[m]} : \A n \in ModelsOf(q) : model'[n] = model[n]
    BY <1>0, <1>10 DEF PatchModel, ModelsOf, TypeOK
  <2>2. Owner[m] \in Providers
    BY JobIdsApart
  <2> QED
    BY <1>3, <1>10, <2>1, <2>2 DEF PatchModel
<1> QED
  BY <1>5, <1>6, <1>7, <1>8, <1>9, <1>10 DEF Request, PutSettings

\* A step of a sync that is alone settles what it leaves behind.
LEMMA SyncStepKeepsRight ==
    ASSUME IInv, StartInv', NoOverlap, NoOverlap', NEW h \in Handlers, SyncStep(h)
    PROVE  IInv'
<1> DEFINE c == sync[h]
           d == sync'[h]
\* Where it starts from.
<1>0. /\ TypeOK /\ TypeOK' /\ c \in Contexts /\ d \in Contexts
      /\ c.pc # "idle" /\ mode # "down"
      /\ c.at \in Providers /\ c.all \in BOOLEAN /\ c.on \in BOOLEAN
      /\ c.todo \subseteq Providers /\ c.live \subseteq Providers
  <2>1. c.pc # "idle"
    BY DEF SyncStep, ImportFavorites, ImportDisabled, ImportNoDisabled, ReadAll, NextProvider, ReadProvider,
           PutListJob, ReadModels, PutChatJobs, Prune
  <2> QED
    BY <2>1, ContextFields DEF IInv, StartInv, StartReads, TypeOK
<1>a. Current(c) /\ (c.pc \in {"all", "next"} => c.all) /\ (c.pc = "chats" => c.ms \subseteq ModelsOf(c.at))
  BY DEF IInv, StartInv, Contextual, ReadIsCurrent
<1>b. ASSUME \A g \in Handlers \ {h} : sync'[g] = sync[g]
      PROVE  Alone(h)
  BY <1>0, <1>b, StepsAlone
\* A step that settles nothing and leaves what has been settled alone.
<1>c. ASSUME Alone(h), Current(sync[h])', d.pc # "idle",
             \A p \in Providers : p \in Settled(d) => p \in Settled(c) /\ (Right(p) => Right(p)')
      PROVE  IInv'
  BY <1>0, <1>c, HandlerKeepsRight
\* One that touches neither rows nor jobs.
<1>d. ASSUME provider' = provider, deleted' = deleted, model' = model, job' = job, unsynced' = unsynced,
             NEW p \in Providers
      PROVE  Right(p) => Right(p)'
  BY <1>d, RightDependsOn
<1>e. ASSUME provider' = provider, deleted' = deleted
      PROVE  ActiveProviders' = ActiveProviders
  BY <1>e DEF ActiveProviders, Active
<1>1. ASSUME NEW S \in SUBSET ModelsOf(c.at), ImportFavorites(h, S)
      PROVE  IInv'
  <2>1. Written(h, "disabled", c.all, c.todo, c.live, c.at, c.on, c.ms)
    BY <1>0, <1>1, SyncWrites DEF ModelsOf
  <2>2. Settled(d) = {} /\ d.pc # "idle"
    BY <1>0, <2>1, SettledAt DEF Written, Has
  <2>3. Current(sync[h])'
    BY <2>1 DEF Written, Has, Current, InSyncAll
  <2>4. Alone(h)
    BY <1>b, <2>1 DEF Written
  <2> QED
    BY <1>c, <2>2, <2>3, <2>4
<1>2. ASSUME SyncAll(h)
      PROVE  IInv'
  <2>1. Written(h, "all", TRUE, {}, {}, Idle.at, FALSE, {})
    BY <1>0, <1>2, RequestWrites
  <2>2. Settled(d) = {} /\ d.pc # "idle"
    BY <1>0, <2>1, SettledAt DEF Written, Has
  <2>3. Current(sync[h])'
    BY <2>1 DEF Written, Has, Current, InSyncAll
  <2>4. Alone(h)
    BY <1>b, <2>1 DEF Written
  <2> QED
    BY <1>c, <2>2, <2>3, <2>4
<1>3. ASSUME ReadAll(h)
      PROVE  IInv'
  <2>1. Written(h, "next", c.all, ActiveProviders, ActiveProviders, c.at, c.on, c.ms)
    BY <1>0, <1>3, SyncWrites
  <2>2. Settled(d) = {} /\ d.pc # "idle"
    BY <1>0, <2>1, SettledAt DEF Written, Has
  <2>3. Current(sync[h])'
    BY <1>3, <1>e, <2>1 DEF ReadAll, Written, Has, Current
  <2>4. Alone(h)
    BY <1>b, <2>1 DEF Written
  <2> QED
    BY <1>c, <2>2, <2>3, <2>4
<1>4. ASSUME NEW p \in Providers, NextProvider(h, p)
      PROVE  IInv'
  <2>1. Written(h, "read", c.all, c.todo \ {p}, c.live, p, c.on, c.ms)
    BY <1>0, <1>4, SyncWrites
  <2>2. Settled(d) \subseteq Settled(c) /\ d.pc # "idle"
    <3>1. Settled(c) = c.live \ c.todo
      BY <1>0, <1>4, SettledAt DEF NextProvider
    <3>2. d.pc = "read" /\ d.all /\ d.at = p /\ d.live = c.live /\ d.todo = c.todo \ {p}
      BY <1>4, <1>a, <2>1 DEF NextProvider, Written, Has
    <3> QED
      BY <1>0, <3>1, <3>2, SettledAt
  <2>3. Current(sync[h])'
    BY <1>4, <1>a, <1>e, <2>1 DEF NextProvider, Written, Has, Current, InSyncAll
  <2>4. Alone(h)
    BY <1>b, <2>1 DEF Written
  <2> QED
    BY <1>4, <1>c, <1>d, <2>2, <2>3, <2>4 DEF NextProvider
\* The steps of sync_jobs_for_provider.
<1>5. ASSUME c.pc \in {"read", "list", "models"}, d.pc \in {"list", "models", "chats"},
             d.all = c.all, d.todo = c.todo, d.live = c.live, d.at = c.at
      PROVE  Settled(d) = Settled(c) /\ c.at \notin Settled(c) /\ d.pc # "idle"
  BY <1>0, <1>5, SettledAt
<1>6. ASSUME ReadProvider(h)
      PROVE  IInv'
  <2>1. Written(h, "list", c.all, c.todo, c.live, c.at, provider[c.at] = "on", c.ms)
    BY <1>0, <1>6, SyncWrites
  <2>2. Settled(d) = Settled(c) /\ d.pc # "idle"
    BY <1>5, <1>6, <2>1 DEF ReadProvider, Written, Has
  <2>3. Current(sync[h])'
    BY <1>6, <1>a, <1>e, <2>1 DEF ReadProvider, Written, Has, Current, InSyncAll
  <2>4. Alone(h)
    BY <1>b, <2>1 DEF Written
  <2> QED
    BY <1>6, <1>c, <1>d, <2>2, <2>3, <2>4 DEF ReadProvider
<1>7. ASSUME PutListJob(h)
      PROVE  IInv'
  <2>1. Written(h, "models", c.all, c.todo, c.live, c.at, c.on, c.ms)
    BY <1>0, <1>7, SyncWrites
  <2>2. Settled(d) = Settled(c) /\ c.at \notin Settled(c) /\ d.pc # "idle"
    BY <1>5, <1>7, <2>1 DEF PutListJob, Written, Has
  <2>3. c.at \in JobIds /\ job'[c.at] = Upserted(c.at, c.on) /\ \A j \in JobIds \ {c.at} : job'[j] = job[j]
    BY <1>0, <1>7, JobIdsApart DEF PutListJob, TypeOK
  <2>4. Current(sync[h])'
    <3>1. c.on <=> provider[c.at] = "on"
      BY <1>7, <1>a DEF PutListJob, Current
    <3>2. job'[c.at] # "absent" <=> provider[c.at] = "on"
      BY <1>0, <2>3, <3>1, UpsertedValues
    <3>3. InSyncAll(d) => d.live = ActiveProviders
      BY <1>7, <1>a, <2>1 DEF PutListJob, Written, Has, Current, InSyncAll
    <3>4. provider' = provider /\ ActiveProviders' = ActiveProviders
      BY <1>7, <1>e DEF PutListJob
    <3> QED
      BY <2>1, <3>1, <3>2, <3>3, <3>4 DEF Written, Has, Current, InSyncAll
  <2>5. Alone(h)
    BY <1>b, <2>1 DEF Written
  <2>6. ASSUME NEW p \in Providers, p # c.at, Right(p)
        PROVE  Right(p)'
    <3>1. \A j \in JobsOf(p) : job'[j] = job[j]
      BY <1>0, <2>3, <2>6, JobIdsApart DEF JobsOf
    <3> QED
      BY <1>7, <2>6, <3>1, RightDependsOn DEF PutListJob, JobsOf
  <2> QED
    BY <1>c, <2>2, <2>4, <2>5, <2>6
<1>8. ASSUME ReadModels(h)
      PROVE  IInv'
  <2>1. Written(h, "chats", c.all, c.todo, c.live, c.at, c.on, {m \in ModelsOf(c.at) : model[m] = "on"})
    BY <1>0, <1>8, SyncWrites
  <2>2. Settled(d) = Settled(c) /\ c.at \notin Settled(c) /\ d.pc # "idle"
    BY <1>5, <1>8, <2>1 DEF ReadModels, Written, Has
  <2>3. Current(sync[h])'
    <3>1. provider' = provider /\ job' = job /\ model' = model /\ ActiveProviders' = ActiveProviders
      BY <1>8, <1>e DEF ReadModels
    <3>2. \A m \in ModelsOf(d.at) : m \in d.ms <=> model[m] = "on"
      BY <2>1 DEF Written, Has
    <3> QED
      BY <1>8, <1>a, <2>1, <3>1, <3>2 DEF ReadModels, Written, Has, Current, InSyncAll
  <2>4. Alone(h)
    BY <1>b, <2>1 DEF Written
  <2>5. ASSUME NEW p \in Providers, p # c.at, Right(p)
        PROVE  Right(p)'
    <3>1. \A m \in ModelsOf(p) \ unsynced' : m \notin unsynced
      BY <1>8, <2>5 DEF ReadModels, ModelsOf
    <3> QED
      BY <1>8, <2>5, <3>1, RightDependsOn DEF ReadModels
  <2> QED
    BY <1>c, <2>2, <2>3, <2>4, <2>5
<1>9. ASSUME PutChatJobs(h)
      PROVE  IInv'
  <2>0. PICK p \in Providers : p = c.at
    BY <1>0
  <2>1. /\ c.pc = "chats" /\ c.ms \subseteq ModelsOf(p)
        /\ c.on <=> provider[p] = "on"
        /\ job[p] # "absent" <=> provider[p] = "on"
        /\ \A m \in ModelsOf(p) \ unsynced : m \in c.ms <=> model[m] = "on"
    BY <1>9, <1>a, <2>0 DEF PutChatJobs, Current
  <2>2. /\ job'[p] = job[p]
        /\ \A m \in c.ms : job'[m] = Upserted(m, c.on)
        /\ \A m \in ModelsOf(p) \ c.ms : job'[m] = "absent"
        /\ \A q \in Providers \ {p} : \A j \in JobsOf(q) : job'[j] = job[j]
    <3>1. p \in JobIds /\ p \notin ModelsOf(p) /\ ModelsOf(p) \subseteq JobIds
      BY <1>0, JobIdsApart DEF ModelsOf
    <3>2. \A q \in Providers \ {p} : \A j \in JobsOf(q) : j \in JobIds /\ j \notin ModelsOf(p)
      BY <1>0, JobIdsApart DEF JobsOf
    <3> QED
      BY <1>9, <2>0, <2>1, <3>1, <3>2 DEF PutChatJobs, Chats
  <2>3. Right(p)'
    <3>1. \A m \in ModelsOf(p) \ unsynced : job'[m] # "absent" <=> provider[p] = "on" /\ model[m] = "on"
      BY <1>0, <2>1, <2>2, UpsertedValues
    <3>2. provider' = provider /\ deleted' = deleted /\ model' = model /\ unsynced' = unsynced
      BY <1>9 DEF PutChatJobs
    <3> QED
      BY <2>1, <2>2, <3>1, <3>2 DEF Right, StrayFree, Complete
  <2>4. ASSUME NEW q \in Providers, q # p, Right(q)
        PROVE  Right(q)'
    <3>1. provider' = provider /\ deleted' = deleted /\ model' = model /\ unsynced' = unsynced
      BY <1>9 DEF PutChatJobs
    <3>2. \A j \in JobsOf(q) : job'[j] = job[j]
      BY <2>2, <2>4
    <3> QED
      BY <2>4, <3>1, <3>2, RightDependsOn DEF JobsOf
  <2>5. CASE c.all
    <3>1. Written(h, "next", c.all, c.todo, c.live, c.at, c.on, {})
      BY <1>0, <1>9, <2>5, SyncWrites
    <3>2. Settled(d) \subseteq Settled(c) \union {p} /\ d.pc # "idle"
      BY <1>0, <2>0, <2>1, <2>5, <3>1, SettledAt DEF Written, Has
    <3>3. Current(sync[h])'
      BY <1>9, <1>a, <1>e, <2>1, <3>1 DEF PutChatJobs, Written, Has, Current, InSyncAll
    <3>4. Alone(h)
      BY <1>b, <3>1 DEF Written
    <3>5. \A q \in Providers : q \in Settled(d) => Right(q)' \/ (q \in Settled(c) /\ (Right(q) => Right(q)'))
      BY <2>3, <2>4, <3>2
    <3> QED
      BY <1>0, <3>2, <3>3, <3>4, <3>5, HandlerKeepsRight
  <2>6. CASE ~c.all
    <3>1. Written(h, "idle", FALSE, {}, {}, Idle.at, FALSE, {})
      BY <1>0, <1>9, <2>6, SyncWrites
    <3>2. Settled(c) = Providers \ {p}
      BY <1>0, <2>0, <2>1, <2>6, SettledAt
    <3>3. Current(sync[h])'
      BY <3>1 DEF Written, Has, Current, InSyncAll
    <3>4. Alone(h)
      BY <1>b, <3>1 DEF Written
    <3>5. mode' # "starting"
      BY <1>0, <1>9, <2>6 DEF PutChatJobs, IInv, StartInv, StartReads
    <3>6. \A q \in Providers : q \in Settled(d) => Right(q)' \/ (q \in Settled(c) /\ (Right(q) => Right(q)'))
      BY <2>3, <2>4, <3>2
    <3> QED
      BY <1>0, <3>3, <3>4, <3>5, <3>6, HandlerKeepsRight
  <2> QED
    BY <2>5, <2>6
<1>10. ASSUME Prune(h)
       PROVE  IInv'
  <2>1. Written(h, "idle", FALSE, {}, {}, Idle.at, FALSE, {})
    BY <1>0, <1>10, SyncWrites
  <2>2. c.live = ActiveProviders /\ Settled(c) = ActiveProviders
    BY <1>0, <1>10, <1>a, SettledAt DEF Prune, Current, InSyncAll
  <2>3. Current(sync[h])'
    BY <2>1 DEF Written, Has, Current, InSyncAll
  <2>4. Alone(h)
    BY <1>b, <2>1 DEF Written
  <2>5. ASSUME NEW p \in ActiveProviders, Right(p)
        PROVE  Right(p)'
    <3>1. \A j \in JobsOf(p) : job'[j] = job[j]
      BY <1>10, <2>2, JobIdsApart DEF Prune, Pruned, ActiveProviders
    <3> QED
      BY <1>10, <2>5, <3>1, RightDependsOn DEF Prune, JobsOf, ActiveProviders
  <2>6. ASSUME NEW p \in Providers \ ActiveProviders
        PROVE  Right(p)'
    <3>1. \A q \in ActiveProviders : JobsOf(p) \intersect JobsOf(q) = {}
      BY JobIdsApart DEF ActiveProviders
    <3>2. \A j \in JobsOf(p) : job'[j] = "absent"
      BY <1>10, <2>2, <3>1, JobIdsApart DEF Prune, Pruned
    <3>3. provider'[p] # "on" \/ p \in deleted'
      BY <1>10 DEF Prune, ActiveProviders, Active
    <3> QED
      BY <3>2, <3>3 DEF Right, StrayFree, Complete, JobsOf
  <2>7. mode' # "starting"
    BY <1>10 DEF Prune
  <2> QED
    BY <1>0, <2>2, <2>3, <2>4, <2>5, <2>6, <2>7, HandlerKeepsRight
<1> QED
  BY <1>1, <1>2, <1>3, <1>4, <1>6, <1>7, <1>8, <1>9, <1>10 DEF SyncStep, ImportDisabled, ImportNoDisabled

\* Every step between two states without overlap keeps the invariant.
LEMMA RightKept ==
    ASSUME IInv, StartInv', NoOverlap, NoOverlap', Next
    PROVE  IInv'
<1>0. TypeOK
  BY DEF IInv, StartInv
<1>1. ASSUME NEW h \in Handlers, Boot(h)
      PROVE  IInv'
  <2>1. Written(h, "all", TRUE, {}, {}, Idle.at, FALSE, {})
    BY <1>0, <1>1, RequestWrites DEF Boot
  <2>2. Alone(h)
    BY <2>1, StepsAlone DEF Written, Has
  <2>3. sync'[h] \in Contexts /\ sync'[h].pc = "all"
    BY <2>1 DEF Written, Has
  <2>4. SettledIsRight'
    <3>1. Settled(sync'[h]) = {}
      BY <2>3, SettledAt
    <3>2. ASSUME NEW p \in Providers
          PROVE  ~SettledByAll(p)'
      BY <3>1 DEF SettledByAll, Settled
    <3> QED
      BY <3>2 DEF SettledIsRight
  <2>5. ReadIsCurrent'
    <3>1. \A g \in Handlers : sync'[g].pc \in {"idle", "all"}
      BY <2>2, <2>3 DEF Alone
    <3> QED
      BY <3>1 DEF ReadIsCurrent, Current, InSyncAll
  <2>6. StartSyncs'
    BY <2>3 DEF StartSyncs
  <2> QED
    BY <2>4, <2>5, <2>6 DEF IInv
\* A step of no request: providers and contexts stay, and a job that is there
\* stays there.
<1>2. ASSUME sync' = sync, mode' = mode, provider' = provider, deleted' = deleted,
             \A j \in JobIds : job'[j] = "absent" <=> job[j] = "absent",
             unsynced \subseteq unsynced',
             \A m \in Models \ unsynced' : model'[m] = model[m]
      PROVE  IInv'
  <2>1. ASSUME NEW p \in Providers, Right(p)
        PROVE  Right(p)'
    BY <1>2, <2>1, RightDependsOn, JobIdsApart DEF ModelsOf
  <2>2. SettledIsRight'
    <3>1. \A p \in Providers : SettledByAll(p)' => SettledByAll(p)
      BY <1>2 DEF SettledByAll, Settled
    <3> QED
      BY <1>2, <2>1, <3>1 DEF IInv, SettledIsRight
  <2>3. ReadIsCurrent'
    <3>1. ActiveProviders' = ActiveProviders
      BY <1>2 DEF ActiveProviders, Active
    <3>2. ASSUME NEW h \in Handlers
          PROVE  Current(sync[h])'
      <4>1. sync[h].at \in JobIds
        BY <1>0, ContextFields, JobIdsApart DEF TypeOK
      <4>2. Current(sync[h])
        BY DEF IInv, ReadIsCurrent
      <4>3. \A m \in ModelsOf(sync[h].at) \ unsynced' : m \notin unsynced /\ model'[m] = model[m]
        BY <1>2 DEF ModelsOf
      <4> QED
        BY <1>2, <3>1, <4>1, <4>2, <4>3 DEF Current, InSyncAll
    <3> QED
      BY <3>2 DEF ReadIsCurrent
  <2>4. StartSyncs'
    BY <1>2 DEF StartSyncs, IInv
  <2> QED
    BY <2>2, <2>3, <2>4 DEF IInv
<1>3. ASSUME NEW p \in Providers, NEW S \in SUBSET ModelsOf(p), Discover(p, S)
      PROVE  IInv'
  BY <1>0, <1>2, <1>3 DEF Discover, TypeOK
<1>4. ASSUME NEW S \in SUBSET Models, DisableStale(S)
      PROVE  IInv'
  BY <1>0, <1>2, <1>4 DEF DisableStale, TypeOK
<1>5. ASSUME NEW m \in Models, Reschedule(m)
      PROVE  IInv'
  <2>1. \A j \in JobIds : job'[j] = "absent" <=> job[j] = "absent"
    BY <1>0, <1>5, JobIdsApart DEF Reschedule, TypeOK
  <2> QED
    BY <1>2, <1>5, <2>1 DEF Reschedule
<1>6. ASSUME Crash
      PROVE  IInv'
  <2>1. \A g \in Handlers : sync'[g].pc = "idle"
    BY <1>6, IdleHas DEF Crash, Has
  <2>2. ReadIsCurrent'
    BY <2>1 DEF ReadIsCurrent, Current, InSyncAll
  <2> QED
    BY <1>6, <2>2 DEF Crash, IInv, SettledIsRight, StartSyncs
<1> QED
  BY <1>1, <1>3, <1>4, <1>5, <1>6, RequestKeepsRight, SyncStepKeepsRight DEF Next

\* Without overlapping requests the invariant holds in every state.
LEMMA RightIsInvariant == Spec /\ []NoOverlap => []IInv
<1>1. Init => IInv
  BY IdleHas DEF Init, IInv, StartInv, TypeOK, Contextual, StartReads, SweepIsDue, SettledIsRight,
                 ReadIsCurrent, Current, InSyncAll, StartSyncs, Has
<1>2. IInv /\ StartInv' /\ NoOverlap /\ NoOverlap' /\ [Next]_vars => IInv'
  <2>1. ASSUME IInv, StartInv', UNCHANGED vars
        PROVE  IInv'
    BY <2>1 DEF vars, IInv, SettledIsRight, SettledByAll, Settled, Right, StrayFree, Complete,
                ReadIsCurrent, Current, InSyncAll, ActiveProviders, Active, StartSyncs
  <2> QED
    BY <2>1, RightKept
<1> QED
  BY <1>1, <1>2, StartIsInvariant, PTL DEF Spec

\* With nobody under way every provider is settled, hence right.
LEMMA QuietIsRight ==
    ASSUME IInv
    PROVE  Quiet => \A p \in Providers : Right(p)
<1> SUFFICES ASSUME Quiet, NEW p \in Providers
             PROVE  Right(p)
  OBVIOUS
<1>1. SettledByAll(p)
  BY SettledAt DEF IInv, StartInv, TypeOK, Quiet, SettledByAll
<1> QED
  BY <1>1 DEF Quiet, IInv, SettledIsRight

(* Where no two requests overlap, nothing that is switched off has a job    *)
(* once its sync is over, whatever crashed, was probed or cleaned up in     *)
(* between.                                                                 *)
THEOREM NoStray == Spec /\ []NoOverlap => []NoStrayJob
<1>1. IInv => NoStrayJob
  BY QuietIsRight DEF NoStrayJob, Right, StrayFree
<1> QED
  BY <1>1, RightIsInvariant, PTL

(* And everything that is switched on has one, the random sweep whenever    *)
(* the process runs.                                                        *)
THEOREM NoMissing == Spec /\ []NoOverlap => []NoMissingJob
<1>1. IInv => NoMissingJob
  BY QuietIsRight DEF NoMissingJob, Right, Complete, IInv, StartInv, SweepIsDue
<1> QED
  BY <1>1, RightIsInvariant, PTL

=============================================================================
