-------------------------- MODULE WorkerPoolProofs --------------------------
(***************************************************************************)
(* Theorems about WorkerPool, for every set of keys, request objects and   *)
(* workers and every capacity; and, at the end, about the process around   *)
(* it: it implements its pool, so that what is proved of WorkerPool holds  *)
(* from boot to exit, and the shared client outlives the probes.           *)
(***************************************************************************)
EXTENDS Lifecycle, SequenceTheorems, FiniteSetTheorems, WellFoundedInduction, TLAPS

(* The inductive invariant: the checked invariants, and what ties the       *)
(* queues to the fields of the objects in them.                             *)

\* An object sits in the tier of its priority; one in MANUAL is live.
Placed ==
    \A t \in Tiers : \A i \in 1 .. Len(queues[t]) :
        /\ req[queues[t][i]].priority = t
        /\ req[queues[t][i]].superseded => t # MANUAL

\* An object sits in one place only.
Distinct ==
    \A t, u \in Tiers : \A i \in 1 .. Len(queues[t]), j \in 1 .. Len(queues[u]) :
        queues[t][i] = queues[u][j] => t = u /\ i = j

\* Which workers hold a request, and which can be waiting.
WorkersShape ==
    /\ \A w \in Workers : held[w] # NoReq <=> pc[w] = "probing"
    /\ \A w \in waiters : pc[w] = "dequeue"

QueueInv == Placed /\ Distinct /\ DedupEntryIsPending
IInv ==
    /\ TypeOK
    /\ QueueInv
    /\ CapacityRespected
    /\ NoLostWakeup
    /\ InFlightIsProbed
    /\ ServedOnce
    /\ WorkersShape

-----------------------------------------------------------------------------

Cuts == {cut \in [Tiers -> Nat] : \A t \in Tiers : cut[t] <= Len(queues[t])}

\* The tiers and their priorities.
LEMMA TiersAre == Tiers = {1, 2, 3} /\ PERIODIC = 1 /\ SWEEP = 2 /\ MANUAL = 3
BY DEF Tiers, PERIODIC, SWEEP, MANUAL

\* Membership of Queued in terms of positions.
LEMMA QueuedAt ==
    ASSUME NEW r
    PROVE  r \in Queued <=> \E t \in Tiers : \E i \in 1 .. Len(queues[t]) : queues[t][i] = r
BY DEF Queued, In, Tiers

\* A freed request object is one.
LEMMA FreedType == Freed \in Request
BY QueueAssumption, TiersAre DEF Freed, Request

\* What is left of a tier when its head is cut off.
LEMMA CutQueues ==
    ASSUME queues \in [Tiers -> Seq(Reqs)], NEW cut \in Cuts, NEW t \in Tiers
    PROVE  /\ QueuesWithout(cut)[t] \in Seq(Reqs)
           /\ Len(QueuesWithout(cut)[t]) = Len(queues[t]) - cut[t]
           /\ \A i \in 1 .. Len(queues[t]) - cut[t] :
                 /\ QueuesWithout(cut)[t][i] = queues[t][cut[t] + i]
                 /\ cut[t] + i \in 1 .. Len(queues[t])
<1> DEFINE s == queues[t]  m == cut[t] + 1  n == Len(queues[t])
<1>1. s \in Seq(Reqs) /\ cut[t] \in Nat /\ cut[t] <= n /\ n \in Nat
  BY DEF Cuts
<1>2. QueuesWithout(cut)[t] = SubSeq(s, m, n)
  BY DEF QueuesWithout
<1>3. m \in 1 .. n + 1 /\ n \in m - 1 .. n
  BY <1>1
<1>4. /\ SubSeq(s, m, n) \in Seq(Reqs)
      /\ Len(SubSeq(s, m, n)) = n - m + 1
      /\ \A i \in 1 .. n - m + 1 : SubSeq(s, m, n)[i] = s[m + i - 1]
  BY <1>1, <1>3, SubSeqProperties
<1>5. n - m + 1 = n - cut[t]
  BY <1>1
<1>6. \A i \in 1 .. n - cut[t] : m + i - 1 = cut[t] + i /\ cut[t] + i \in 1 .. n
  BY <1>1
<1> QED
  BY <1>2, <1>4, <1>5, <1>6

\* Every object of a shortened tier stood in the queue, and was not removed.
LEMMA CutRemaining ==
    ASSUME TypeOK, Distinct, NEW cut \in Cuts,
           NEW t \in Tiers, NEW i \in 1 .. Len(QueuesWithout(cut)[t])
    PROVE  /\ cut[t] + i \in 1 .. Len(queues[t])
           /\ QueuesWithout(cut)[t][i] = queues[t][cut[t] + i]
           /\ QueuesWithout(cut)[t][i] \in Queued \ Removed(cut)
<1>1. queues \in [Tiers -> Seq(Reqs)]
  BY DEF TypeOK, QueueTypeOK
<1>2. /\ cut[t] + i \in 1 .. Len(queues[t])
      /\ QueuesWithout(cut)[t][i] = queues[t][cut[t] + i]
  BY <1>1, CutQueues
<1>3. cut[t] \in Nat /\ i \in Nat /\ i > 0
  BY <1>1, CutQueues DEF Cuts
<1>4. \A u \in Tiers : cut[u] \in Nat /\ cut[u] <= Len(queues[u])
  BY DEF Cuts
<1>5. ASSUME NEW u \in Tiers, NEW j \in 1 .. cut[u], queues[u][j] = queues[t][cut[t] + i]
      PROVE  FALSE
  <2>1. j \in 1 .. Len(queues[u])
    BY <1>4, <1>1
  <2>2. u = t /\ j = cut[t] + i
    BY <1>2, <1>5, <2>1 DEF Distinct
  <2> QED
    BY <2>2, <1>3
<1> QED
  BY <1>2, <1>5, QueuedAt DEF Removed

\* Conversely, what is not removed is still in its tier.
LEMMA CutKeeps ==
    ASSUME TypeOK, NEW cut \in Cuts, NEW t \in Tiers, NEW r \in In(t) \ Removed(cut)
    PROVE  \E j \in 1 .. Len(QueuesWithout(cut)[t]) : QueuesWithout(cut)[t][j] = r
<1>1. PICK i \in 1 .. Len(queues[t]) : queues[t][i] = r
  BY DEF In
<1>2. queues \in [Tiers -> Seq(Reqs)] /\ Len(queues[t]) \in Nat
  BY DEF TypeOK, QueueTypeOK
<1>3. cut[t] \in Nat /\ i \notin 1 .. cut[t]
  BY <1>1, QueuedAt DEF Cuts, Removed
<1>4. i - cut[t] \in 1 .. Len(queues[t]) - cut[t] /\ cut[t] + (i - cut[t]) = i
  BY <1>1, <1>2, <1>3
<1> QED
  BY <1>1, <1>2, <1>4, CutQueues

\* Removing heads: the step every dequeue attempt makes.
LEMMA RemoveStep ==
    ASSUME TypeOK, QueueInv, NEW cut \in Cuts, NEW kept, NEW released,
           released \cap Queued = {}, Remove(cut, kept, released)
    PROVE  /\ queues' \in [Tiers -> Seq(Reqs)]
           /\ req' \in [Reqs -> Request]
           /\ dedup' \in [Keys -> Reqs \cup {NoReq}]
           /\ QueueInv'
           /\ Queued' \subseteq Queued \ Removed(cut)
           /\ TotalPending' <= TotalPending
<1> USE DEF QueueInv
<1>1. /\ queues \in [Tiers -> Seq(Reqs)]
      /\ req \in [Reqs -> Request]
      /\ dedup \in [Keys -> Reqs \cup {NoReq}]
  BY DEF TypeOK, QueueTypeOK
<1>2. queues' = QueuesWithout(cut) /\ dedup' = DedupWithout(cut)
  BY DEF Remove
<1>3. queues' \in [Tiers -> Seq(Reqs)]
  BY <1>1, <1>2, CutQueues DEF QueuesWithout
<1>4. req' \in [Reqs -> Request]
  BY <1>1, FreedType DEF Remove
<1>5. dedup' \in [Keys -> Reqs \cup {NoReq}]
  BY <1>1, <1>2 DEF DedupWithout
<1>6. ASSUME NEW t \in Tiers, NEW i \in 1 .. Len(queues'[t])
      PROVE  /\ cut[t] + i \in 1 .. Len(queues[t])
             /\ queues'[t][i] = queues[t][cut[t] + i]
             /\ queues'[t][i] \in Queued \ Removed(cut)
  BY <1>2, <1>6, CutRemaining
<1>7. \A r \in Queued \ Removed(cut) : r \in Reqs => req'[r] = req[r]
  BY DEF Remove
<1>8. \A t \in Tiers : \A i \in 1 .. Len(queues'[t]) : queues'[t][i] \in Reqs
  BY <1>3, ElementOfSeq
<1>9. Placed'
  <2> SUFFICES ASSUME NEW t \in Tiers, NEW i \in 1 .. Len(queues'[t])
               PROVE  /\ req'[queues'[t][i]].priority = t
                      /\ req'[queues'[t][i]].superseded => t # MANUAL
    BY DEF Placed
  <2> DEFINE r == queues'[t][i]
  <2>1. r = queues[t][cut[t] + i] /\ cut[t] + i \in 1 .. Len(queues[t]) /\ req'[r] = req[r]
    BY <1>6, <1>7, <1>8
  <2>2. req[r].priority = t /\ (req[r].superseded => t # MANUAL)
    BY <2>1 DEF Placed
  <2> QED
    BY <2>1, <2>2
<1>10. Distinct'
  <2> SUFFICES ASSUME NEW t \in Tiers, NEW u \in Tiers,
                      NEW i \in 1 .. Len(queues'[t]), NEW j \in 1 .. Len(queues'[u]),
                      queues'[t][i] = queues'[u][j]
               PROVE  t = u /\ i = j
    BY DEF Distinct
  <2>1. t = u /\ cut[t] + i = cut[u] + j
    <3>1. cut[t] + i \in 1 .. Len(queues[t]) /\ cut[u] + j \in 1 .. Len(queues[u])
      BY <1>6
    <3>2. queues[t][cut[t] + i] = queues[u][cut[u] + j]
      BY <1>6
    <3> QED
      BY <3>1, <3>2 DEF Distinct
  <2>2. cut[t] \in Nat /\ i \in Nat /\ j \in Nat
    BY <1>3 DEF Cuts
  <2> QED
    BY <2>1, <2>2
<1>11. DedupEntryIsPending'
  <2> SUFFICES ASSUME NEW k \in Keys, dedup'[k] # NoReq
               PROVE  /\ \E j \in 1 .. Len(queues'[req'[dedup'[k]].priority]) :
                             queues'[req'[dedup'[k]].priority][j] = dedup'[k]
                      /\ req'[dedup'[k]].key = k
                      /\ ~req'[dedup'[k]].superseded
    BY DEF DedupEntryIsPending, In
  <2> DEFINE r == dedup[k]
  <2>1. dedup'[k] = r /\ \A x \in Removed(cut) : req[x].key # k
    BY <1>2 DEF DedupWithout
  <2>2. r \in In(req[r].priority) /\ req[r].key = k /\ ~req[r].superseded /\ r \in Reqs
    BY <1>1, <2>1 DEF DedupEntryIsPending
  <2>3. req[r].priority \in Tiers
    BY <1>1, <2>2 DEF Request
  <2>4. r \notin Removed(cut) /\ r \in Queued
    BY <2>1, <2>2, <2>3 DEF Queued, Tiers
  <2>5. req'[r] = req[r]
    BY <1>7, <2>2, <2>4
  <2>6. \E j \in 1 .. Len(queues'[req[r].priority]) : queues'[req[r].priority][j] = r
    BY <1>2, <2>2, <2>3, <2>4, CutKeeps
  <2> QED
    BY <2>1, <2>2, <2>5, <2>6
<1>12. Queued' \subseteq Queued \ Removed(cut)
  <2>1. ASSUME NEW t \in Tiers
        PROVE  In(t)' \subseteq Queued \ Removed(cut)
    BY <1>6, <2>1 DEF In
  <2> QED
    BY <2>1 DEF Queued, Tiers
<1>13. TotalPending' <= TotalPending
  <2>1. ASSUME NEW t \in Tiers
        PROVE  Len(queues[t]) \in Nat /\ Len(queues'[t]) \in Nat /\ Len(queues'[t]) <= Len(queues[t])
    <3>1. queues[t] \in Seq(Reqs) /\ queues'[t] \in Seq(Reqs)
      BY <1>1, <1>3
    <3>2. Len(queues'[t]) = Len(queues[t]) - cut[t]
      BY <1>1, <1>2, CutQueues
    <3>3. cut[t] \in Nat
      BY DEF Cuts
    <3> QED
      BY <3>1, <3>2, <3>3
  <2>2. PERIODIC \in Tiers /\ SWEEP \in Tiers /\ MANUAL \in Tiers
    BY DEF Tiers
  <2>3. \A a, b, c, x, y, z \in Nat : a <= x /\ b <= y /\ c <= z => a + b + c <= x + y + z
    OBVIOUS
  <2> QED
    BY <2>1, <2>2, <2>3 DEF TotalPending
<1> QED
  BY <1>3, <1>4, <1>5, <1>9, <1>10, <1>11, <1>12, <1>13

\* A bump marks one object, of a tier below MANUAL, and changes nothing else.
LEMMA BumpEffect ==
    ASSUME TypeOK, NEW k \in Keys, NEW p \in Tiers, Admissible(k, p), NEW x \in Reqs
    PROVE  /\ Bump(k) \in [Reqs -> Request]
           /\ Bump(k)[x].key = req[x].key
           /\ Bump(k)[x].priority = req[x].priority
           /\ Bump(k)[x].superseded /\ ~req[x].superseded =>
                 x = dedup[k] /\ dedup[k] # NoReq /\ req[x].priority # MANUAL
<1>1. req \in [Reqs -> Request] /\ dedup \in [Keys -> Reqs \cup {NoReq}]
  BY DEF TypeOK, QueueTypeOK
<1>2. \A y \in Reqs : [req[y] EXCEPT !.superseded = TRUE] \in Request
  BY <1>1 DEF Request
<1>3. Bump(k) \in [Reqs -> Request]
  BY <1>1, <1>2 DEF Bump
<1>4. Bump(k)[x].key = req[x].key /\ Bump(k)[x].priority = req[x].priority
  BY <1>1 DEF Bump, Request
<1>5. ASSUME Bump(k)[x].superseded, ~req[x].superseded
      PROVE  x = dedup[k] /\ dedup[k] # NoReq /\ req[x].priority # MANUAL
  <2>1. HasPending(k) /\ x = dedup[k]
    BY <1>5 DEF Bump
  <2>2. ~(req[dedup[k]].priority >= MANUAL)
    BY <2>1 DEF Admissible, PendingDup
  <2> QED
    BY <2>1, <2>2, TiersAre DEF HasPending
<1> QED
  BY <1>3, <1>4, <1>5

\* Landing a fresh request behind what `cut' leaves.
LEMMA LandStep ==
    ASSUME TypeOK, QueueInv, NEW cut \in Cuts, NEW k \in Keys, NEW p \in Tiers,
           NEW r \in Reqs \ Queued, Admissible(k, p), Land(k, p, r, cut)
    PROVE  /\ queues' \in [Tiers -> Seq(Reqs)]
           /\ req' \in [Reqs -> Request]
           /\ dedup' \in [Keys -> Reqs \cup {NoReq}]
           /\ QueueInv'
           /\ Queued' \subseteq Queued \cup {r}
           /\ \A x \in Reqs \ (Queued \cup {r}) : req'[x] = req[x]
<1> USE DEF QueueInv
<1>1. /\ queues \in [Tiers -> Seq(Reqs)]
      /\ req \in [Reqs -> Request]
      /\ dedup \in [Keys -> Reqs \cup {NoReq}]
  BY DEF TypeOK, QueueTypeOK
<1> DEFINE Q(t) == QueuesWithout(cut)[t]
<1>2. /\ queues' = [QueuesWithout(cut) EXCEPT ![p] = Append(@, r)]
      /\ dedup' = [DedupWithout(cut) EXCEPT ![k] = r]
  BY DEF Land
<1>3. \A t \in Tiers : Q(t) \in Seq(Reqs)
  BY <1>1, CutQueues
<1>4. queues' \in [Tiers -> Seq(Reqs)]
  <2>1. Append(Q(p), r) \in Seq(Reqs)
    BY <1>3, AppendProperties
  <2>2. QueuesWithout(cut) \in [Tiers -> Seq(Reqs)]
    BY <1>3 DEF QueuesWithout
  <2> QED
    BY <1>2, <2>1, <2>2
<1>5. req' \in [Reqs -> Request]
  <2>1. Bump(k) \in [Reqs -> Request]
    BY BumpEffect
  <2>2. [key |-> k, priority |-> p, superseded |-> FALSE] \in Request
    BY DEF Request
  <2> QED
    BY <2>1, <2>2, FreedType DEF Land
<1>6. dedup' \in [Keys -> Reqs \cup {NoReq}]
  BY <1>1, <1>2 DEF DedupWithout
<1>7. ASSUME NEW t \in Tiers, NEW i \in 1 .. Len(queues'[t])
      PROVE  \/ t = p /\ i = Len(Q(p)) + 1 /\ queues'[t][i] = r
             \/ /\ i \in 1 .. Len(Q(t))
                /\ queues'[t][i] = Q(t)[i]
                /\ cut[t] + i \in 1 .. Len(queues[t])
                /\ queues'[t][i] = queues[t][cut[t] + i]
                /\ queues'[t][i] \in Queued \ Removed(cut)
  <2>1. CASE t = p
    <3>1. queues'[t] = Append(Q(p), r) /\ Q(p) \in Seq(Reqs)
      BY <1>2, <1>3, <2>1 DEF QueuesWithout
    <3>2. CASE i = Len(Q(p)) + 1
      BY <2>1, <3>1, <3>2
    <3>3. CASE i # Len(Q(p)) + 1
      <4>1. i \in 1 .. Len(Q(t)) /\ queues'[t][i] = Q(t)[i]
        BY <2>1, <3>1, <3>3
      <4> QED
        BY <4>1, CutRemaining
    <3> QED
      BY <3>2, <3>3
  <2>2. CASE t # p
    <3>1. queues'[t] = Q(t)
      BY <1>2, <2>2 DEF QueuesWithout
    <3> QED
      BY <1>7, <3>1, CutRemaining
  <2> QED
    BY <2>1, <2>2
<1>8. req'[r] = [key |-> k, priority |-> p, superseded |-> FALSE]
  BY DEF Land
<1>9. \A x \in Reqs \cap (Queued \ Removed(cut)) : req'[x] = Bump(k)[x]
  BY DEF Land
<1>10. \A t \in Tiers : \A i \in 1 .. Len(queues'[t]) : queues'[t][i] \in Reqs
  BY <1>4, ElementOfSeq
<1>11. Placed'
  <2> SUFFICES ASSUME NEW t \in Tiers, NEW i \in 1 .. Len(queues'[t])
               PROVE  /\ req'[queues'[t][i]].priority = t
                      /\ req'[queues'[t][i]].superseded => t # MANUAL
    BY DEF Placed
  <2> DEFINE x == queues'[t][i]
  <2>1. CASE x = r /\ t = p
    BY <1>8, <2>1
  <2>2. CASE x = queues[t][cut[t] + i] /\ cut[t] + i \in 1 .. Len(queues[t])
             /\ x \in Queued \ Removed(cut)
    <3>1. x \in Reqs /\ req'[x] = Bump(k)[x]
      BY <1>9, <1>10, <2>2
    <3>2. req[x].priority = t /\ (req[x].superseded => t # MANUAL)
      BY <2>2 DEF Placed
    <3> QED
      BY <3>1, <3>2, BumpEffect
  <2> QED
    BY <1>7, <2>1, <2>2
<1>12. Distinct'
  <2> SUFFICES ASSUME NEW t \in Tiers, NEW u \in Tiers,
                      NEW i \in 1 .. Len(queues'[t]), NEW j \in 1 .. Len(queues'[u]),
                      queues'[t][i] = queues'[u][j]
               PROVE  t = u /\ i = j
    BY DEF Distinct
  <2>1. CASE queues'[t][i] = r
    <3>1. t = p /\ i = Len(Q(p)) + 1
      BY <1>7, <2>1
    <3>2. u = p /\ j = Len(Q(p)) + 1
      BY <1>7, <2>1
    <3> QED
      BY <3>1, <3>2
  <2>2. CASE queues'[t][i] # r
    <3>1. /\ cut[t] + i \in 1 .. Len(queues[t]) /\ cut[u] + j \in 1 .. Len(queues[u])
          /\ queues[t][cut[t] + i] = queues[u][cut[u] + j]
      BY <1>7, <2>2
    <3>2. t = u /\ cut[t] + i = cut[u] + j
      BY <3>1 DEF Distinct
    <3>3. cut[t] \in Nat /\ i \in Nat /\ j \in Nat
      BY <1>4 DEF Cuts
    <3> QED
      BY <3>2, <3>3
  <2> QED
    BY <2>1, <2>2
<1>13. DedupEntryIsPending'
  <2> SUFFICES ASSUME NEW l \in Keys, dedup'[l] # NoReq
               PROVE  /\ \E j \in 1 .. Len(queues'[req'[dedup'[l]].priority]) :
                             queues'[req'[dedup'[l]].priority][j] = dedup'[l]
                      /\ req'[dedup'[l]].key = l
                      /\ ~req'[dedup'[l]].superseded
    BY DEF DedupEntryIsPending, In
  <2>1. CASE l = k
    <3>1. dedup'[l] = r
      BY <1>2, <2>1 DEF DedupWithout
    <3>2. queues'[p] = Append(Q(p), r) /\ Q(p) \in Seq(Reqs)
      BY <1>2, <1>3 DEF QueuesWithout
    <3>3. Len(Q(p)) + 1 \in 1 .. Len(queues'[p]) /\ queues'[p][Len(Q(p)) + 1] = r
      BY <3>2
    <3> QED
      BY <1>8, <2>1, <3>1, <3>3
  <2>2. CASE l # k
    <3> DEFINE x == dedup[l]
    <3>1. dedup'[l] = x /\ \A y \in Removed(cut) : req[y].key # l
      BY <1>2, <2>2 DEF DedupWithout
    <3>2. x \in In(req[x].priority) /\ req[x].key = l /\ ~req[x].superseded /\ x \in Reqs
      BY <1>1, <3>1 DEF DedupEntryIsPending
    <3>3. req[x].priority \in Tiers
      BY <1>1, <3>2 DEF Request
    <3>4. x \notin Removed(cut) /\ x \in Queued
      BY <3>1, <3>2, <3>3 DEF Queued, Tiers
    <3>5. dedup[k] # x
      BY <2>2, <1>1, <3>2, QueueAssumption DEF DedupEntryIsPending
    <3>6. req'[x] = Bump(k)[x]
      BY <1>9, <3>2, <3>4
    <3>7. req'[x].key = l /\ req'[x].priority = req[x].priority /\ ~req'[x].superseded
      BY <3>2, <3>5, <3>6, BumpEffect
    <3>8. PICK j \in 1 .. Len(Q(req[x].priority)) : Q(req[x].priority)[j] = x
      BY <3>2, <3>3, <3>4, CutKeeps
    <3>9. j \in 1 .. Len(queues'[req[x].priority]) /\ queues'[req[x].priority][j] = x
      <4>1. CASE req[x].priority = p
        BY <1>2, <1>3, <3>8, <4>1 DEF QueuesWithout
      <4>2. CASE req[x].priority # p
        BY <1>2, <3>3, <3>8, <4>2 DEF QueuesWithout
      <4> QED
        BY <4>1, <4>2
    <3> QED
      BY <3>1, <3>7, <3>9
  <2> QED
    BY <2>1, <2>2
<1>14. Queued' \subseteq Queued \cup {r}
  <2>1. ASSUME NEW t \in Tiers
        PROVE  In(t)' \subseteq Queued \cup {r}
    BY <1>7, <2>1 DEF In
  <2> QED
    BY <2>1 DEF Queued, Tiers
<1>15. \A x \in Reqs \ (Queued \cup {r}) : req'[x] = req[x]
  <2> SUFFICES ASSUME NEW x \in Reqs \ (Queued \cup {r})
               PROVE  req'[x] = req[x]
    OBVIOUS
  <2>1. req'[x] = Bump(k)[x]
    BY DEF Land, Removed
  <2>2. ~(HasPending(k) /\ x = dedup[k])
    <3>1. dedup[k] # NoReq => dedup[k] \in Queued
      BY <1>1 DEF DedupEntryIsPending, Request, Queued, Tiers
    <3> QED
      BY <3>1 DEF HasPending
  <2> QED
    BY <1>1, <2>1, <2>2 DEF Bump
<1> QED
  BY <1>4, <1>5, <1>6, <1>11, <1>12, <1>13, <1>14, <1>15

-----------------------------------------------------------------------------
(* The cuts the actions make.                                               *)

\* The least of some natural numbers.
LEMMA MinOfNats ==
    ASSUME NEW T \in SUBSET Nat, T # {}
    PROVE  Min(T) \in T /\ \A y \in T : Min(T) <= y
<1> DEFINE R == OpToRel(<, Nat)
<1>1. IsWellFoundedOn(R, Nat)
  BY Zenon, NatLessThanWellFounded
<1>2. R = {ss \in Nat \X Nat : ss[1] < ss[2]}
  BY Zenon DEF OpToRel
<1> HIDE DEF R
<1>3. PICK x \in T : \A y \in T : <<y, x>> \notin R
  BY Zenon, <1>1, WFMin
<1>4. ASSUME NEW y \in T
      PROVE  x <= y
  <2>1. <<y, x>> \in Nat \X Nat /\ <<y, x>>[1] = y /\ <<y, x>>[2] = x
    OBVIOUS
  <2>2. ~(y < x)
    BY <1>2, <1>3, <2>1
  <2> QED
    BY <2>2
<1> QED
  BY <1>4 DEF Min

\* Cutting nothing is a cut.
LEMMA NoCutIsCut ==
    ASSUME TypeOK
    PROVE  NoCut \in Cuts /\ \A t \in Tiers : NoCut[t] = 0
<1>1. \A t \in Tiers : Len(queues[t]) \in Nat
  BY DEF TypeOK, QueueTypeOK
<1> QED
  BY <1>1 DEF NoCut, Cuts

\* Cutting everything is one, and nothing live remains queued.
LEMMA DrainCutIsCut ==
    ASSUME TypeOK
    PROVE  DrainCut \in Cuts /\ Queued \ Removed(DrainCut) = {}
<1>1. \A t \in Tiers : Len(queues[t]) \in Nat
  BY DEF TypeOK, QueueTypeOK
<1>2. DrainCut \in Cuts
  BY <1>1 DEF DrainCut, Cuts
<1>3. \A r \in Queued : r \in Removed(DrainCut)
  BY QueuedAt DEF Removed, DrainCut
<1> QED
  BY <1>2, <1>3

\* An eviction takes one object, of a tier below MANUAL.
LEMMA EvictCutIsCut ==
    ASSUME TypeOK, VictimTiers # {}
    PROVE  /\ EvictCut \in Cuts
           /\ \E v \in Tiers \ {MANUAL} : EvictCut = [NoCut EXCEPT ![v] = 1]
<1> DEFINE v == Min(VictimTiers)
<1>1. VictimTiers \in SUBSET Nat
  BY TiersAre DEF VictimTiers
<1>2. v \in VictimTiers
  BY <1>1, MinOfNats
<1>3. v \in Tiers /\ v # MANUAL /\ queues[v] # << >>
  BY <1>2, TiersAre DEF VictimTiers
<1>4. Len(queues[v]) \in Nat /\ Len(queues[v]) >= 1
  <2>1. queues[v] \in Seq(Reqs)
    BY <1>3 DEF TypeOK, QueueTypeOK
  <2> QED
    BY <1>3, <2>1, EmptySeq
<1>5. EvictCut = [NoCut EXCEPT ![v] = 1]
  BY DEF EvictCut
<1>6. EvictCut \in Cuts
  BY <1>3, <1>4, <1>5, NoCutIsCut DEF Cuts
<1> QED
  BY <1>3, <1>5, <1>6

\* The request a worker takes is the last one the cut removes, and it is live.
LEMMA TakeCutIsCut ==
    ASSUME TypeOK, LiveTiers # {}
    PROVE  /\ TakeCut \in Cuts
           /\ NextReq \in Removed(TakeCut)
           /\ NextReq \in Reqs
           /\ ~req[NextReq].superseded
           /\ TopTier \in Tiers
           /\ \A u \in Tiers : u > TopTier => Live(u) = {}
<1>1. queues \in [Tiers -> Seq(Reqs)] /\ \A t \in Tiers : Len(queues[t]) \in Nat
  BY DEF TypeOK, QueueTypeOK
<1>2. TopTier \in LiveTiers /\ \A u \in LiveTiers : u <= TopTier
  <2>1. \E t \in LiveTiers : \A u \in LiveTiers : t >= u
    BY TiersAre DEF LiveTiers
  <2>2. \E t \in LiveTiers : \A u \in LiveTiers : u <= t
    BY <2>1, TiersAre DEF LiveTiers
  <2> QED
    BY <2>1, <2>2, TiersAre DEF TopTier, Max, LiveTiers
<1> DEFINE t == TopTier  i == FirstLive(t)
<1>3. t \in Tiers /\ Live(t) # {} /\ Live(t) \subseteq 1 .. Len(queues[t])
  BY <1>2 DEF LiveTiers, Live
<1>4. i \in Live(t)
  BY <1>1, <1>3, MinOfNats DEF FirstLive
<1>5. i \in 1 .. Len(queues[t]) /\ ~req[queues[t][i]].superseded
  BY <1>4 DEF Live
<1>6. TakeCut[t] = i /\ TakeCut \in Cuts
  <2>1. TakeCut = [u \in Tiers |-> IF u > t THEN Len(queues[u]) ELSE IF u = t THEN i ELSE 0]
    BY DEF TakeCut
  <2> HIDE DEF t, i
  <2>2. TakeCut[t] = i
    BY <1>3, <2>1, TiersAre
  <2>3. \A u \in Tiers : TakeCut[u] \in Nat /\ TakeCut[u] <= Len(queues[u])
    BY <1>1, <1>3, <1>5, <2>1
  <2> QED
    BY <2>1, <2>2, <2>3 DEF Cuts
<1>7. NextReq = queues[t][i]
  BY DEF NextReq
<1>8. NextReq \in Reqs
  BY <1>1, <1>3, <1>5, <1>7, ElementOfSeq
<1>9. NextReq \in Removed(TakeCut)
  <2>1. i \in 1 .. TakeCut[t]
    BY <1>5, <1>6
  <2> QED
    BY <1>3, <1>5, <1>7, <2>1, QueuedAt DEF Removed
<1>10. \A u \in Tiers : u > t => Live(u) = {}
  BY <1>2, <1>3, TiersAre DEF LiveTiers
<1> QED
  BY <1>3, <1>5, <1>6, <1>7, <1>8, <1>9, <1>10

-----------------------------------------------------------------------------
(* Steps.                                                                   *)

\* A dequeue attempt of a worker that has put away what it held before.
LEMMA DequeueStep ==
    ASSUME IInv, NEW w \in Workers, NEW flying, NEW done,
           w \notin waiters,
           done \subseteq {held[w]} \ {NoReq},
           flying \in SUBSET Keys,
           \A k \in flying : \E v \in Workers \ {w} : Probing(v) /\ req[held[v]].key = k,
           Dequeue(w, flying, done),
           UNCHANGED <<closed, cancelled>>
    PROVE  IInv'
<1>1. TypeOK /\ QueueInv /\ CapacityRespected /\ NoLostWakeup /\ ServedOnce /\ WorkersShape
  BY DEF IInv
<1>2. /\ pc \in [Workers -> {"ready", "dequeue", "probing", "stopped"}]
      /\ held \in [Workers -> Reqs \cup {NoReq}]
      /\ req \in [Reqs -> Request]
      /\ MaxPending \in Nat
  BY <1>1, QueueAssumption DEF TypeOK, QueueTypeOK
<1>3. \A v \in Workers : held[v] # NoReq => held[v] \in Reqs \ Queued
  BY <1>1, <1>2 DEF ServedOnce, Held
<1>4. done \cap Queued = {}
  BY <1>3
<1>5. CASE TakeNext(w, flying, done)
  <2>1. /\ TakeCut \in Cuts /\ NextReq \in Removed(TakeCut) /\ NextReq \in Reqs
        /\ ~req[NextReq].superseded
    BY <1>1, <1>5, TakeCutIsCut DEF TakeNext
  <2>2. NextReq \in Queued
    BY <2>1 DEF Removed
  <2>3. waiters = {} /\ waiters' = {} /\ wake' = wake
    BY <1>1, <1>5, <2>2 DEF NoLostWakeup, TakeNext
  <2>4. PICK kept : /\ Remove(TakeCut, kept, done)
                    /\ closed => kept = {}
                    /\ ~closed => kept = {NextReq}
    BY <1>5 DEF TakeNext
  <2>5. /\ queues' \in [Tiers -> Seq(Reqs)]
        /\ req' \in [Reqs -> Request]
        /\ dedup' \in [Keys -> Reqs \cup {NoReq}]
        /\ QueueInv'
        /\ Queued' \subseteq Queued \ Removed(TakeCut)
        /\ TotalPending' <= TotalPending
    BY <1>1, <1>4, <2>1, <2>4, RemoveStep
  <2>6. \A v \in Workers \ {w} : held'[v] = held[v] /\ pc'[v] = pc[v]
    BY <1>2, <1>5 DEF TakeNext
  <2>7. \A v \in Workers \ {w} : held[v] # NoReq => req'[held[v]] = req[held[v]]
    <3> SUFFICES ASSUME NEW v \in Workers \ {w}, held[v] # NoReq
                 PROVE  req'[held[v]] = req[held[v]]
      OBVIOUS
    <3>1. held[v] \notin Removed(TakeCut) /\ held[v] \notin done /\ held[v] \in Reqs
      BY <1>1, <1>3 DEF Removed, ServedOnce
    <3> QED
      BY <2>4, <3>1 DEF Remove
  <2>8. CASE closed
    <3>1. /\ inFlight' = flying /\ pc' = [pc EXCEPT ![w] = "stopped"]
          /\ held' = [held EXCEPT ![w] = NoReq]
      BY <1>5, <2>8 DEF TakeNext
    <3>2. TypeOK'
      BY <1>1, <1>2, <2>3, <2>5, <3>1 DEF TypeOK, QueueTypeOK
    <3>3. CapacityRespected'
      BY <1>1, <1>2, <2>5 DEF CapacityRespected, TotalPending, TypeOK, QueueTypeOK, Tiers
    <3>4. NoLostWakeup'
      BY <2>3 DEF NoLostWakeup
    <3>5. InFlightIsProbed'
      BY <1>1, <2>6, <2>7, <3>1 DEF InFlightIsProbed, Probing, WorkersShape
    <3>6. ServedOnce'
      BY <1>1, <1>2, <2>5, <2>6, <2>7, <3>1 DEF ServedOnce, Held
    <3>7. WorkersShape'
      BY <1>1, <1>2, <2>3, <3>1 DEF WorkersShape
    <3> QED
      BY <2>5, <3>2, <3>3, <3>4, <3>5, <3>6, <3>7 DEF IInv
  <2>9. CASE ~closed
    <3>1. /\ inFlight' = flying \cup {req[NextReq].key}
          /\ pc' = [pc EXCEPT ![w] = "probing"]
          /\ held' = [held EXCEPT ![w] = NextReq]
      BY <1>5, <2>9 DEF TakeNext
    <3>2. req'[NextReq] = req[NextReq] /\ req[NextReq].key \in Keys
      BY <1>2, <2>1, <2>4, <2>9 DEF Remove, Request
    <3>3. TypeOK'
      BY <1>1, <1>2, <2>1, <2>3, <2>5, <3>1, <3>2 DEF TypeOK, QueueTypeOK
    <3>4. CapacityRespected'
      BY <1>1, <1>2, <2>5 DEF CapacityRespected, TotalPending, TypeOK, QueueTypeOK, Tiers
    <3>5. NoLostWakeup'
      BY <2>3 DEF NoLostWakeup
    <3>6. InFlightIsProbed'
      BY <1>1, <1>2, <2>6, <2>7, <3>1, <3>2 DEF InFlightIsProbed, Probing, WorkersShape
    <3>7. ServedOnce'
      <4>1. NextReq # NoReq /\ held'[w] = NextReq /\ NextReq \notin Queued'
        BY <1>2, <2>1, <2>5, <3>1, QueueAssumption
      <4>2. Held' \cap Queued' = {}
        BY <1>3, <2>5, <2>6, <4>1 DEF Held
      <4>3. \A v \in Workers : held'[v] # NoReq => ~req'[held'[v]].superseded
        BY <1>1, <2>1, <2>6, <2>7, <3>2, <4>1 DEF ServedOnce
      <4>4. \A v \in Workers \ {w} : held'[v] # NextReq
        BY <1>3, <2>2, <2>6, <4>1
      <4> QED
        BY <1>1, <2>6, <4>1, <4>2, <4>3, <4>4 DEF ServedOnce
    <3>8. WorkersShape'
      BY <1>1, <1>2, <2>1, <2>3, <3>1, QueueAssumption DEF WorkersShape
    <3> QED
      BY <2>5, <3>3, <3>4, <3>5, <3>6, <3>7, <3>8 DEF IInv
  <2> QED
    BY <2>8, <2>9
<1>6. CASE Wait(w, flying, done)
  <2>1. Remove(DrainCut, {}, done)
    BY <1>6 DEF Wait
  <2>2. DrainCut \in Cuts /\ Queued \ Removed(DrainCut) = {}
    BY <1>1, DrainCutIsCut
  <2>3. /\ queues' \in [Tiers -> Seq(Reqs)]
        /\ req' \in [Reqs -> Request]
        /\ dedup' \in [Keys -> Reqs \cup {NoReq}]
        /\ QueueInv'
        /\ Queued' = {}
        /\ TotalPending' <= TotalPending
    BY <1>1, <1>4, <2>1, <2>2, RemoveStep
  <2>4. /\ inFlight' = flying /\ wake' = FALSE /\ waiters' = waiters \cup {w}
        /\ pc' = [pc EXCEPT ![w] = "dequeue"]
        /\ held' = [held EXCEPT ![w] = NoReq]
    BY <1>6 DEF Wait
  <2>5. \A v \in Workers \ {w} : held[v] # NoReq => req'[held[v]] = req[held[v]]
    <3> SUFFICES ASSUME NEW v \in Workers \ {w}, held[v] # NoReq
                 PROVE  req'[held[v]] = req[held[v]]
      OBVIOUS
    <3>1. held[v] \notin Removed(DrainCut) /\ held[v] \notin done /\ held[v] \in Reqs
      BY <1>1, <1>3 DEF Removed, ServedOnce
    <3> QED
      BY <2>1, <3>1 DEF Remove
  <2>6. TypeOK'
    BY <1>1, <1>2, <2>3, <2>4 DEF TypeOK, QueueTypeOK
  <2>7. CapacityRespected'
    BY <1>1, <1>2, <2>3 DEF CapacityRespected, TotalPending, TypeOK, QueueTypeOK, Tiers
  <2>8. NoLostWakeup'
    BY <2>3, <2>4 DEF NoLostWakeup
  <2>9. InFlightIsProbed'
    BY <1>1, <1>2, <2>4, <2>5 DEF InFlightIsProbed, Probing, WorkersShape
  <2>10. ServedOnce'
    BY <1>1, <1>2, <2>3, <2>4, <2>5 DEF ServedOnce, Held
  <2>11. WorkersShape'
    BY <1>1, <1>2, <2>4 DEF WorkersShape
  <2> QED
    BY <2>3, <2>6, <2>7, <2>8, <2>9, <2>10, <2>11 DEF IInv
<1> QED
  BY <1>5, <1>6 DEF Dequeue

\* An enqueue that lands a request, with or without an eviction.
LEMMA LandKeepsIInv ==
    ASSUME IInv, NEW cut \in Cuts, NEW k \in Keys, NEW p \in Tiers, NEW r \in Unused,
           Admissible(k, p), Land(k, p, r, cut), TotalPending' <= MaxPending,
           UNCHANGED <<pc, held, cancelled>>
    PROVE  IInv'
<1>1. TypeOK /\ QueueInv /\ NoLostWakeup /\ InFlightIsProbed /\ ServedOnce /\ WorkersShape
  BY DEF IInv
<1>2. held \in [Workers -> Reqs \cup {NoReq}]
  BY <1>1 DEF TypeOK
<1>3. r \in Reqs \ Queued /\ r \notin Held
  BY DEF Unused
<1>4. /\ queues' \in [Tiers -> Seq(Reqs)]
      /\ req' \in [Reqs -> Request]
      /\ dedup' \in [Keys -> Reqs \cup {NoReq}]
      /\ QueueInv'
      /\ Queued' \subseteq Queued \cup {r}
      /\ \A x \in Reqs \ (Queued \cup {r}) : req'[x] = req[x]
  BY <1>1, <1>3, LandStep
<1>5. \A w \in Workers : held[w] # NoReq =>
         held[w] \in Reqs \ (Queued \cup {r}) /\ req'[held[w]] = req[held[w]]
  BY <1>1, <1>2, <1>3, <1>4 DEF ServedOnce, Held
<1>6. waiters' = {}
  BY <1>1 DEF Land, SetWake, NoLostWakeup
<1>7. TypeOK'
  BY <1>1, <1>4, <1>6 DEF TypeOK, QueueTypeOK, Land, SetWake
<1>8. CapacityRespected'
  BY DEF CapacityRespected
<1>9. NoLostWakeup'
  BY <1>6 DEF NoLostWakeup
<1>10. InFlightIsProbed'
  BY <1>1, <1>5 DEF InFlightIsProbed, Probing, WorkersShape, Land
<1>11. ServedOnce'
  BY <1>1, <1>4, <1>5 DEF ServedOnce, Held
<1>12. WorkersShape'
  BY <1>1, <1>6 DEF WorkersShape
<1> QED
  BY <1>4, <1>7, <1>8, <1>9, <1>10, <1>11, <1>12 DEF IInv

\* Landing behind a cut adds one to what the cut leaves.
LEMMA LandTotal ==
    ASSUME TypeOK, NEW cut \in Cuts, NEW k \in Keys, NEW p \in Tiers, NEW r \in Reqs,
           Land(k, p, r, cut)
    PROVE  TotalPending' = TotalPending + 1 - cut[PERIODIC] - cut[SWEEP] - cut[MANUAL]
<1>1. queues \in [Tiers -> Seq(Reqs)]
  BY DEF TypeOK, QueueTypeOK
<1>2. queues' = [QueuesWithout(cut) EXCEPT ![p] = Append(@, r)]
  BY DEF Land
<1>3. ASSUME NEW t \in Tiers
      PROVE  /\ Len(queues[t]) \in Nat /\ cut[t] \in Nat
             /\ Len(queues'[t]) = Len(queues[t]) - cut[t] + (IF t = p THEN 1 ELSE 0)
  <2> DEFINE q == QueuesWithout(cut)[t]
  <2>1. Len(queues[t]) \in Nat /\ cut[t] \in Nat
    BY <1>1 DEF Cuts
  <2>2. q \in Seq(Reqs) /\ Len(q) = Len(queues[t]) - cut[t]
    BY <1>1, CutQueues
  <2>3. queues'[t] = IF t = p THEN Append(q, r) ELSE q
    BY <1>2 DEF QueuesWithout
  <2>4. Len(Append(q, r)) = Len(q) + 1
    BY <2>2, AppendProperties
  <2> QED
    BY <2>1, <2>2, <2>3, <2>4
<1> DEFINE L(t) == Len(queues[t])  L1(t) == Len(queues'[t])
<1>4. /\ L(1) \in Nat /\ L(2) \in Nat /\ L(3) \in Nat
      /\ cut[1] \in Nat /\ cut[2] \in Nat /\ cut[3] \in Nat
      /\ L1(1) = L(1) - cut[1] + (IF 1 = p THEN 1 ELSE 0)
      /\ L1(2) = L(2) - cut[2] + (IF 2 = p THEN 1 ELSE 0)
      /\ L1(3) = L(3) - cut[3] + (IF 3 = p THEN 1 ELSE 0)
      /\ p \in {1, 2, 3}
  BY <1>3, TiersAre
<1>5. TotalPending = L(1) + L(2) + L(3) /\ TotalPending' = L1(1) + L1(2) + L1(3)
  BY DEF TotalPending, PERIODIC, SWEEP, MANUAL
<1>6. L1(1) + L1(2) + L1(3) = L(1) + L(2) + L(3) + 1 - cut[1] - cut[2] - cut[3]
  <2> HIDE DEF L, L1
  <2>1. CASE p = 1
    BY <1>4, <2>1
  <2>2. CASE p = 2
    BY <1>4, <2>2
  <2>3. CASE p = 3
    BY <1>4, <2>3
  <2> QED
    BY <1>4, <2>1, <2>2, <2>3
<1> HIDE DEF L, L1
<1> QED
  BY <1>5, <1>6 DEF PERIODIC, SWEEP, MANUAL

\* An accepted trigger keeps the invariant.
LEMMA TriggerKeepsIInv == IInv /\ Trigger => IInv'
<1> SUFFICES ASSUME IInv, NEW k \in Keys, NEW r \in Unused,
                    (\E p \in Tiers : Enqueue(k, p, r)) \/ EnqueueEvicting(k, r),
                    UNCHANGED <<pc, held, cancelled>>
             PROVE  IInv'
  BY DEF Trigger
<1>1. TypeOK /\ r \in Reqs /\ CapacityRespected /\ MaxPending \in Nat
  BY QueueAssumption DEF IInv, Unused
<1>2. TotalPending \in Nat
  BY <1>1, TiersAre DEF TypeOK, QueueTypeOK, TotalPending, Tiers
<1>3. ASSUME NEW p \in Tiers, Enqueue(k, p, r)
      PROVE  IInv'
  <2>1. Admissible(k, p) /\ ~Full /\ Land(k, p, r, NoCut) /\ NoCut \in Cuts
    BY <1>1, <1>3, NoCutIsCut DEF Enqueue
  <2>2. TotalPending' = TotalPending + 1
    BY <1>1, <1>2, <2>1, LandTotal, NoCutIsCut, TiersAre DEF Tiers
  <2>3. TotalPending' <= MaxPending
    BY <1>1, <1>2, <2>1, <2>2 DEF Full
  <2> QED
    BY <2>1, <2>3, LandKeepsIInv
<1>4. CASE EnqueueEvicting(k, r)
  <2>1. Admissible(k, MANUAL) /\ Land(k, MANUAL, r, EvictCut) /\ VictimTiers # {}
    BY <1>4 DEF EnqueueEvicting
  <2>2. EvictCut \in Cuts /\ \E v \in Tiers \ {MANUAL} : EvictCut = [NoCut EXCEPT ![v] = 1]
    BY <1>1, <2>1, EvictCutIsCut
  <2>3. EvictCut[PERIODIC] + EvictCut[SWEEP] + EvictCut[MANUAL] = 1
        /\ EvictCut \in [Tiers -> Nat]
    BY <1>1, <2>2, NoCutIsCut, TiersAre DEF Cuts, NoCut
  <2>4. TotalPending' = TotalPending
    <3>1. TotalPending' = TotalPending + 1
                          - EvictCut[PERIODIC] - EvictCut[SWEEP] - EvictCut[MANUAL]
      BY <1>1, <2>1, <2>2, TiersAre, LandTotal
    <3>2. EvictCut[PERIODIC] \in Nat /\ EvictCut[SWEEP] \in Nat /\ EvictCut[MANUAL] \in Nat
      BY <2>3, TiersAre
    <3> QED
      BY <1>2, <2>3, <3>1, <3>2
  <2>5. TotalPending' <= MaxPending
    BY <1>1, <2>4 DEF CapacityRespected
  <2> QED
    BY <2>1, <2>2, <2>5, TiersAre, LandKeepsIInv
<1> QED
  BY <1>3, <1>4

\* A refused MANUAL call bumps nothing: a live request of the key in a lower
\* tier could itself have been evicted.
LEMMA RefusalBumpsNothing ==
    ASSUME IInv, NEW k \in Keys, Admissible(k, MANUAL), VictimTiers = {}
    PROVE  Bump(k) = req
<1>1. TypeOK /\ Placed /\ DedupEntryIsPending
  BY DEF IInv, QueueInv
<1>2. req \in [Reqs -> Request] /\ dedup \in [Keys -> Reqs \cup {NoReq}]
      /\ queues \in [Tiers -> Seq(Reqs)]
  BY <1>1 DEF TypeOK, QueueTypeOK
<1>3. ~HasPending(k)
  <2> SUFFICES ASSUME HasPending(k)
               PROVE  FALSE
    OBVIOUS
  <2> DEFINE t == req[dedup[k]].priority
  <2>1. dedup[k] \in Reqs /\ t \in Tiers /\ dedup[k] \in In(t)
    BY <1>1, <1>2 DEF HasPending, DedupEntryIsPending, Request
  <2>2. t < MANUAL
    BY <2>1, TiersAre DEF Admissible, PendingDup
  <2>3. queues[t] # << >>
    BY <2>1 DEF In
  <2> QED
    BY <2>1, <2>2, <2>3 DEF VictimTiers
<1> QED
  BY <1>2, <1>3 DEF Bump

\* A refused one changes nothing.
LEMMA RefusalKeepsIInv == IInv /\ TriggerRefused => UNCHANGED vars
BY RefusalBumpsNothing DEF TriggerRefused, EnqueueRefused, vars

\* Steps that leave the objects where they are keep what is said of them.
LEMMA QueueUnchanged ==
    ASSUME QueueInv, CapacityRespected, UNCHANGED <<queues, req, dedup>>
    PROVE  QueueInv' /\ CapacityRespected' /\ Queued' = Queued
<1>1. QueueInv'
  BY DEF QueueInv, Placed, Distinct, DedupEntryIsPending, In
<1>2. CapacityRespected'
  BY DEF CapacityRespected, TotalPending
<1>3. Queued' = Queued
  BY DEF Queued, In
<1> QED
  BY <1>1, <1>2, <1>3

\* Nor do steps that leave the workers alone take what they hold.
LEMMA WorkersUnchanged ==
    ASSUME ServedOnce, InFlightIsProbed, UNCHANGED <<queues, req, inFlight, pc, held>>
    PROVE  ServedOnce' /\ InFlightIsProbed'
<1>1. Queued' = Queued
  BY DEF Queued, In
<1>2. ServedOnce'
  BY <1>1 DEF ServedOnce, Held
<1>3. InFlightIsProbed'
  BY DEF InFlightIsProbed, Probing
<1> QED
  BY <1>2, <1>3

\* A stuttering step keeps the invariant.
LEMMA UnchangedKeepsIInv == IInv /\ UNCHANGED vars => IInv'
<1> SUFFICES ASSUME IInv, UNCHANGED vars
             PROVE  IInv'
  OBVIOUS
<1> USE DEF vars
<1>1. TypeOK' /\ WorkersShape'
  BY DEF IInv, TypeOK, QueueTypeOK, WorkersShape
<1>2. QueueInv' /\ CapacityRespected' /\ Queued' = Queued
  BY QueueUnchanged DEF IInv
<1>3. NoLostWakeup'
  BY <1>2 DEF IInv, NoLostWakeup
<1>4. InFlightIsProbed' /\ ServedOnce'
  BY WorkersUnchanged DEF IInv
<1> QED
  BY <1>1, <1>2, <1>3, <1>4 DEF IInv

\* What a worker's key being unmarked leaves marked is probed by the others.
LEMMA UnmarkLeavesOthers ==
    ASSUME IInv, NEW w \in Workers, pc[w] = "probing"
    PROVE  /\ Unmark(held[w]) \in SUBSET Keys
           /\ \A k \in Unmark(held[w]) :
                 \E v \in Workers \ {w} : Probing(v) /\ req[held[v]].key = k
BY DEF IInv, TypeOK, QueueTypeOK, InFlightIsProbed, Unmark

\* A worker's step keeps it.
LEMMA WorkerStepKeepsIInv == ASSUME IInv, NEW w \in Workers, WorkerStep(w) PROVE IInv'
<1>1. TypeOK /\ QueueInv /\ CapacityRespected /\ NoLostWakeup /\ InFlightIsProbed
      /\ ServedOnce /\ WorkersShape
  BY DEF IInv
<1>2. ASSUME pc[w] # "probing"
      PROVE  /\ inFlight \in SUBSET Keys
             /\ \A k \in inFlight : \E v \in Workers \ {w} : Probing(v) /\ req[held[v]].key = k
  BY <1>1, <1>2 DEF TypeOK, QueueTypeOK, InFlightIsProbed, Probing
<1>3. CASE Start(w)
  <2>1. w \notin waiters /\ pc[w] # "probing"
    BY <1>1, <1>3 DEF Start, WorkersShape
  <2> QED
    BY <1>2, <1>3, <2>1, DequeueStep DEF Start
<1>4. CASE Resume(w)
  <2>1. w \notin waiters /\ pc[w] # "probing"
    BY <1>4 DEF Resume
  <2> QED
    BY <1>2, <1>4, <2>1, DequeueStep DEF Resume
<1>5. CASE Finish(w)
  <2>1. w \notin waiters /\ pc[w] = "probing" /\ held[w] # NoReq
    BY <1>1, <1>5 DEF Finish, WorkersShape
  <2> QED
    BY <1>5, <2>1, UnmarkLeavesOthers, DequeueStep DEF Finish
<1>6. CASE Stop(w)
  <2>1. /\ pc' = [pc EXCEPT ![w] = "stopped"]
        /\ held' = [held EXCEPT ![w] = NoReq]
        /\ UNCHANGED <<queues, dedup, wake, waiters, closed, cancelled>>
        /\ inFlight' \subseteq inFlight
        /\ w \notin waiters
    BY <1>1, <1>6 DEF Stop, Unmark, WorkersShape
  <2>2. req' \in [Reqs -> Request] /\ \A r \in Reqs : r # held[w] => req'[r] = req[r]
    BY <1>1, <1>6, FreedType DEF Stop, TypeOK, QueueTypeOK
  <2>3. held[w] # NoReq => held[w] \notin Queued
    BY <1>1 DEF ServedOnce, Held
  <2>4. \A r \in Reqs \cap Queued : req'[r] = req[r]
    BY <2>2, <2>3, QueueAssumption
  <2>5. TypeOK'
    BY <1>1, <2>1, <2>2 DEF TypeOK, QueueTypeOK
  <2>6. Placed' /\ Distinct'
    <3>1. \A t \in Tiers : \A i \in 1 .. Len(queues[t]) :
             queues[t][i] \in Reqs \cap Queued
      BY <1>1, QueuedAt, ElementOfSeq DEF TypeOK, QueueTypeOK
    <3> QED
      BY <1>1, <2>1, <2>4, <3>1 DEF QueueInv, Placed, Distinct
  <2>7. DedupEntryIsPending'
    <3>1. \A k \in Keys : dedup[k] # NoReq => dedup[k] \in Reqs \cap Queued
      BY <1>1 DEF QueueInv, DedupEntryIsPending, TypeOK, QueueTypeOK, Request, Queued, Tiers
    <3> QED
      BY <1>1, <2>1, <2>4, <3>1 DEF QueueInv, DedupEntryIsPending, In
  <2>8. CapacityRespected' /\ NoLostWakeup'
    BY <1>1, <2>1 DEF CapacityRespected, TotalPending, NoLostWakeup, Queued, In
  <2>9. \A v \in Workers \ {w} : held[v] # NoReq =>
           held'[v] = held[v] /\ pc'[v] = pc[v] /\ req'[held[v]] = req[held[v]]
    BY <1>1, <2>1, <2>2 DEF ServedOnce, TypeOK
  <2>10. InFlightIsProbed'
    <3> SUFFICES ASSUME NEW k \in inFlight'
                 PROVE  \E v \in Workers : pc'[v] = "probing" /\ req'[held'[v]].key = k
      BY DEF InFlightIsProbed, Probing
    <3>1. PICK v \in Workers \ {w} : Probing(v) /\ req[held[v]].key = k
      BY <1>2, <1>6, <2>1, UnmarkLeavesOthers DEF Stop
    <3> QED
      BY <1>1, <2>9, <3>1 DEF Probing, WorkersShape
  <2>11. ServedOnce'
    BY <1>1, <2>1, <2>9 DEF ServedOnce, Held, Queued, In, TypeOK
  <2>12. WorkersShape'
    BY <1>1, <2>1 DEF WorkersShape, TypeOK
  <2> QED
    BY <2>5, <2>6, <2>7, <2>8, <2>10, <2>11, <2>12 DEF IInv, QueueInv
<1>7. CASE Cancel(w)
  <2>1. /\ pc' = [pc EXCEPT ![w] = "stopped"]
        /\ waiters' = waiters \ {w}
        /\ UNCHANGED <<queues, req, dedup, inFlight, wake, closed, held, cancelled>>
        /\ pc[w] = "dequeue"
    BY <1>7 DEF Cancel
  <2>2. TypeOK'
    BY <1>1, <2>1 DEF TypeOK, QueueTypeOK
  <2>3. QueueInv' /\ CapacityRespected' /\ Queued' = Queued
    BY <1>1, <2>1, QueueUnchanged
  <2>4. NoLostWakeup'
    BY <1>1, <2>1, <2>3 DEF NoLostWakeup
  <2>5. InFlightIsProbed'
    BY <1>1, <2>1 DEF InFlightIsProbed, Probing, TypeOK
  <2>6. ServedOnce'
    BY <1>1, <2>1, <2>3 DEF ServedOnce, Held
  <2>7. WorkersShape'
    BY <1>1, <2>1 DEF WorkersShape, TypeOK
  <2> QED
    BY <2>2, <2>3, <2>4, <2>5, <2>6, <2>7 DEF IInv
<1> QED
  BY <1>3, <1>4, <1>5, <1>6, <1>7 DEF WorkerStep

\* The closing of the queue keeps it.
LEMMA StopWorkersKeepsIInv == IInv /\ StopWorkers => IInv'
<1> SUFFICES ASSUME IInv, StopWorkers
             PROVE  IInv'
  OBVIOUS
<1>1. /\ UNCHANGED <<queues, req, dedup, inFlight, pc, held, cancelled>>
      /\ closed' = TRUE /\ wake' = TRUE /\ waiters' \subseteq waiters
      /\ waiters' = IF wake THEN waiters ELSE {}
  BY DEF StopWorkers, Close, SetWake
<1>2. waiters' = {}
  BY <1>1 DEF IInv, NoLostWakeup
<1>3. TypeOK'
  BY <1>1, <1>2 DEF IInv, TypeOK, QueueTypeOK
<1>4. QueueInv' /\ CapacityRespected'
  BY <1>1, QueueUnchanged DEF IInv
<1>5. NoLostWakeup' /\ WorkersShape'
  BY <1>1, <1>2 DEF IInv, NoLostWakeup, WorkersShape
<1>6. InFlightIsProbed' /\ ServedOnce'
  BY <1>1, WorkersUnchanged DEF IInv
<1> QED
  BY <1>3, <1>4, <1>5, <1>6 DEF IInv

\* The timeout keeps it.
LEMMA TimeoutKeepsIInv == IInv /\ Timeout => IInv'
<1> SUFFICES ASSUME IInv, Timeout
             PROVE  IInv'
  OBVIOUS
<1> USE DEF Timeout
<1>1. TypeOK' /\ WorkersShape'
  BY DEF IInv, TypeOK, QueueTypeOK, WorkersShape
<1>2. QueueInv' /\ CapacityRespected' /\ Queued' = Queued
  BY QueueUnchanged DEF IInv
<1>3. NoLostWakeup'
  BY <1>2 DEF IInv, NoLostWakeup
<1>4. InFlightIsProbed' /\ ServedOnce'
  BY WorkersUnchanged DEF IInv
<1> QED
  BY <1>1, <1>2, <1>3, <1>4 DEF IInv

\* It holds at the start.
LEMMA InitIInv == Init => IInv
<1> SUFFICES ASSUME Init
             PROVE  IInv
  OBVIOUS
<1>1. \A t \in Tiers : queues[t] = << >> /\ Len(queues[t]) = 0
  BY DEF Init, QueueInit
<1>2. Queued = {} /\ TotalPending = 0
  <2>1. \A t \in Tiers : In(t) = {}
    BY <1>1 DEF In
  <2>2. Queued = {}
    BY <2>1 DEF Queued, Tiers
  <2>3. Len(queues[PERIODIC]) = 0 /\ Len(queues[SWEEP]) = 0 /\ Len(queues[MANUAL]) = 0
    BY <1>1 DEF Tiers
  <2> QED
    BY <2>2, <2>3 DEF TotalPending
<1>3. TypeOK
  BY FreedType, EmptySeq DEF Init, QueueInit, TypeOK, QueueTypeOK
<1>4. QueueInv
  BY <1>1 DEF Init, QueueInit, QueueInv, Placed, Distinct, DedupEntryIsPending
<1>5. CapacityRespected /\ NoLostWakeup /\ InFlightIsProbed
  BY <1>2, QueueAssumption DEF Init, QueueInit, CapacityRespected, NoLostWakeup, InFlightIsProbed
<1>6. ServedOnce /\ WorkersShape
  BY <1>2 DEF Init, QueueInit, ServedOnce, Held, WorkersShape
<1> QED
  BY <1>3, <1>4, <1>5, <1>6 DEF IInv

\* Every step keeps it.
LEMMA NextKeepsIInv == IInv /\ [Next]_vars => IInv'
<1> SUFFICES ASSUME IInv, [Next]_vars
             PROVE  IInv'
  OBVIOUS
<1>1. CASE Trigger
  BY <1>1, TriggerKeepsIInv
<1>2. CASE TriggerRefused
  BY <1>2, RefusalKeepsIInv, UnchangedKeepsIInv
<1>3. CASE \E w \in Workers : WorkerStep(w)
  BY <1>3, WorkerStepKeepsIInv
<1>4. CASE StopWorkers
  BY <1>4, StopWorkersKeepsIInv
<1>5. CASE Timeout
  BY <1>5, TimeoutKeepsIInv
<1>6. CASE Terminated \/ UNCHANGED vars
  BY <1>6, UnchangedKeepsIInv DEF Terminated
<1> QED
  BY <1>1, <1>2, <1>3, <1>4, <1>5, <1>6 DEF Next

-----------------------------------------------------------------------------
(* Theorems.                                                                *)

\* The inductive invariant holds in every reachable state.
THEOREM Inductive == Spec => []IInv
<1>1. Init => IInv
  BY InitIInv
<1>2. IInv /\ [Next]_vars => IInv'
  BY NextKeepsIInv
<1> QED
  BY <1>1, <1>2, PTL DEF Spec

\* The queue, the workers and the requests always have their types.
THEOREM TypeCorrect == Spec => []TypeOK
<1>1. IInv => TypeOK
  BY DEF IInv
<1> QED
  BY <1>1, Inductive, PTL

\* The dedup map of trigger_queue.py never keeps an entry whose request has
\* been taken, evicted or superseded, so it never silences a key for good.
THEOREM DedupIsSound == Spec => []DedupEntryIsPending
<1>1. IInv => DedupEntryIsPending
  BY DEF IInv, QueueInv
<1> QED
  BY <1>1, Inductive, PTL

\* The event of trigger_queue.py cannot lose a wakeup: a worker waits only
\* while nothing at all is queued.
THEOREM WakeupsAreKept == Spec => []NoLostWakeup
<1>1. IInv => NoLostWakeup
  BY DEF IInv
<1> QED
  BY <1>1, Inductive, PTL

\* mark_in_flight and mark_done never leave a key marked that nobody probes.
THEOREM InFlightIsReleased == Spec => []InFlightIsProbed
<1>1. IInv => InFlightIsProbed
  BY DEF IInv
<1> QED
  BY <1>1, Inductive, PTL

\* The three tiers together never exceed max_pending.
THEOREM CapacityHolds == Spec => []CapacityRespected
<1>1. IInv => CapacityRespected
  BY DEF IInv
<1> QED
  BY <1>1, Inductive, PTL

\* A request taken by one worker is neither queued, nor superseded, nor taken
\* by another.
THEOREM ServedAtMostOnce == Spec => []ServedOnce
<1>1. IInv => ServedOnce
  BY DEF IInv
<1> QED
  BY <1>1, Inductive, PTL

\* A MANUAL call answered DROPPED_FULL meets a queue of MANUAL requests only,
\* and the bump that precedes the refusal has marked nothing.
THEOREM RefusalIsHarmless == Spec => []RefusalLosesNothing
<1>1. IInv => RefusalLosesNothing
  <2> SUFFICES ASSUME IInv, NEW k \in Keys, Admissible(k, MANUAL), VictimTiers = {}
               PROVE  Queued = In(MANUAL) /\ Bump(k) = req
    BY DEF RefusalLosesNothing
  <2>1. queues[PERIODIC] = << >> /\ queues[SWEEP] = << >>
    BY TiersAre DEF VictimTiers
  <2>2. In(PERIODIC) = {} /\ In(SWEEP) = {}
    BY <2>1 DEF In
  <2> QED
    BY <2>2, RefusalBumpsNothing DEF Queued
<1> QED
  BY <1>1, Inductive, PTL

-----------------------------------------------------------------------------
(* The refinement of TriggerService, and what no step may do to a key.      *)

\* The requests that are pending for TriggerService, and what it sees of them.
LiveReqs == {x \in Queued : ~req[x].superseded}
Seen(r) == [key |-> req[r].key, priority |-> req[r].priority]
SeenPending == [r \in LiveReqs |-> Seen(r)]

\* Without live requests the service sees none.
LEMMA NoneSeen == ASSUME LiveReqs = {} PROVE SeenPending = << >>
<1>1. DOMAIN << >> = {}
  OBVIOUS
<1> QED
  BY DEF SeenPending

\* What is queued is typed and live or not by its own mark.
LEMMA QueuedIsReqs ==
    ASSUME TypeOK, Placed, NEW x \in Queued
    PROVE  /\ x \in Reqs /\ req[x] \in Request /\ req[x].priority \in Tiers
           /\ \E i \in 1 .. Len(queues[req[x].priority]) : queues[req[x].priority][i] = x
<1>1. PICK t \in Tiers : \E i \in 1 .. Len(queues[t]) : queues[t][i] = x
  BY QueuedAt
<1>2. queues[t] \in Seq(Reqs) /\ req \in [Reqs -> Request]
  BY DEF TypeOK, QueueTypeOK
<1>3. x \in Reqs
  BY <1>1, <1>2, ElementOfSeq
<1>4. req[x].priority = t
  BY <1>1 DEF Placed
<1> QED
  BY <1>1, <1>2, <1>3, <1>4

\* Exactly the removed heads leave the queue.
LEMMA RemoveLeaves ==
    ASSUME TypeOK, QueueInv, NEW cut \in Cuts, NEW kept, NEW released,
           released \cap Queued = {}, Remove(cut, kept, released)
    PROVE  /\ Queued' = Queued \ Removed(cut)
           /\ \A x \in Queued \ Removed(cut) : req'[x] = req[x]
           /\ LiveReqs' = LiveReqs \ Removed(cut)
<1>1. Queued' \subseteq Queued \ Removed(cut)
  BY RemoveStep
<1>2. ASSUME NEW x \in Queued \ Removed(cut)
      PROVE  x \in Queued' /\ req'[x] = req[x]
  <2>1. PICK t \in Tiers : x \in In(t)
    BY DEF Queued, Tiers
  <2>2. \E j \in 1 .. Len(queues'[t]) : queues'[t][j] = x
    BY <2>1, CutKeeps DEF Remove
  <2>3. x \in In(t)'
    BY <2>2 DEF In
  <2>4. x \in Reqs
    BY QueuedIsReqs DEF QueueInv
  <2> QED
    BY <2>1, <2>3, <2>4 DEF Queued, Tiers, Remove
<1> QED
  BY <1>1, <1>2 DEF LiveReqs

\* Landing a request adds it to what is not removed.
LEMMA LandLeaves ==
    ASSUME TypeOK, QueueInv, NEW cut \in Cuts, NEW k \in Keys, NEW p \in Tiers,
           NEW r \in Reqs \ Queued, Admissible(k, p), Land(k, p, r, cut)
    PROVE  /\ Queued' = (Queued \ Removed(cut)) \cup {r}
           /\ r \in In(p)'
           /\ req'[r] = [key |-> k, priority |-> p, superseded |-> FALSE]
           /\ \A x \in Queued \ Removed(cut) :
                 /\ req'[x].key = req[x].key /\ req'[x].priority = req[x].priority
                 /\ req'[x].superseded <=> req[x].superseded \/ (HasPending(k) /\ x = dedup[k])
<1>1. /\ queues \in [Tiers -> Seq(Reqs)]
      /\ req \in [Reqs -> Request]
  BY DEF TypeOK, QueueTypeOK
<1> DEFINE Q(t) == QueuesWithout(cut)[t]
<1>2. queues' = [QueuesWithout(cut) EXCEPT ![p] = Append(@, r)]
  BY DEF Land
<1>3. \A t \in Tiers : Q(t) \in Seq(Reqs)
  BY <1>1, CutQueues
<1>4. \A t \in Tiers : queues'[t] = IF t = p THEN Append(Q(t), r) ELSE Q(t)
  BY <1>2 DEF QueuesWithout
<1>5. r \in In(p)'
  <2>1. Q(p) \in Seq(Reqs) /\ queues'[p] = Append(Q(p), r)
    BY <1>3, <1>4
  <2>2. Len(queues'[p]) = Len(Q(p)) + 1 /\ queues'[p][Len(Q(p)) + 1] = r /\ Len(Q(p)) \in Nat
    BY <2>1
  <2> QED
    BY <2>2 DEF In
<1>6. ASSUME NEW x \in Queued \ Removed(cut)
      PROVE  x \in Queued'
  <2>1. PICK t \in Tiers : x \in In(t)
    BY DEF Queued, Tiers
  <2>2. PICK j \in 1 .. Len(Q(t)) : Q(t)[j] = x
    BY <2>1, CutKeeps
  <2>3. j \in 1 .. Len(queues'[t]) /\ queues'[t][j] = x
    <3>1. CASE t = p
      <4>1. Q(t) \in Seq(Reqs) /\ queues'[t] = Append(Q(t), r)
        BY <1>3, <1>4, <3>1
      <4> QED
        BY <2>2, <4>1
    <3>2. CASE t # p
      BY <1>4, <2>2, <3>2
    <3> QED
      BY <3>1, <3>2
  <2> QED
    BY <2>1, <2>3 DEF In, Queued, Tiers
<1>7. ASSUME NEW x \in Queued', x # r
      PROVE  x \in Queued \ Removed(cut)
  <2>1. PICK t \in Tiers : x \in In(t)'
    BY DEF Queued, Tiers
  <2>2. PICK i \in 1 .. Len(queues'[t]) : queues'[t][i] = x
    BY <2>1 DEF In
  <2>3. i \in 1 .. Len(Q(t)) /\ Q(t)[i] = x
    <3>1. CASE t = p
      <4>1. Q(t) \in Seq(Reqs) /\ queues'[t] = Append(Q(t), r)
        BY <1>3, <1>4, <3>1
      <4> QED
        BY <1>7, <2>2, <4>1
    <3>2. CASE t # p
      BY <1>4, <2>2, <3>2
    <3> QED
      BY <3>1, <3>2
  <2> QED
    BY <2>3, CutRemaining DEF QueueInv
<1>8. Queued' = (Queued \ Removed(cut)) \cup {r}
  <2>1. r \in Queued'
    BY <1>5 DEF Queued, Tiers
  <2> QED
    BY <1>6, <1>7, <2>1
<1>9. req'[r] = [key |-> k, priority |-> p, superseded |-> FALSE]
  BY DEF Land
<1>10. ASSUME NEW x \in Queued \ Removed(cut)
       PROVE  /\ req'[x].key = req[x].key /\ req'[x].priority = req[x].priority
              /\ req'[x].superseded <=> req[x].superseded \/ (HasPending(k) /\ x = dedup[k])
  <2>1. x \in Reqs /\ x # r /\ req[x] \in Request
    BY QueuedIsReqs DEF QueueInv
  <2>2. req'[x] = IF HasPending(k) /\ x = dedup[k] THEN [req[x] EXCEPT !.superseded = TRUE] ELSE req[x]
    BY <2>1 DEF Land, Bump
  <2>3. CASE HasPending(k) /\ x = dedup[k]
    BY <2>1, <2>2, <2>3 DEF Request
  <2>4. CASE ~(HasPending(k) /\ x = dedup[k])
    BY <2>2, <2>4
  <2> QED
    BY <2>3, <2>4
<1> QED
  BY <1>5, <1>8, <1>9, <1>10

\* A call with a live request of its key pending is MANUAL, and bumps that one.
LEMMA BumpsBelow ==
    ASSUME TypeOK, QueueInv, NEW k \in Keys, NEW p \in Tiers, Admissible(k, p), HasPending(k)
    PROVE  p = MANUAL /\ req[dedup[k]].key = k /\ req[dedup[k]].priority < MANUAL
<1>1. dedup[k] # NoReq
  BY DEF HasPending
<1>2. p = MANUAL /\ ~(req[dedup[k]].priority >= MANUAL)
  BY DEF Admissible, PendingDup
<1>3. req[dedup[k]].key = k /\ dedup[k] \in Queued
  <2>1. dedup[k] \in Reqs /\ req[dedup[k]].priority \in Tiers
    BY <1>1 DEF TypeOK, QueueTypeOK, Request
  <2> QED
    BY <1>1, <2>1 DEF QueueInv, DedupEntryIsPending, Queued, Tiers
<1>4. req[dedup[k]].priority \in {1, 2, 3}
  BY <1>3, QueuedIsReqs, TiersAre DEF QueueInv
<1> QED
  BY <1>2, <1>3, <1>4, TiersAre

\* An eviction removes one request, of a tier below MANUAL.
LEMMA EvictionTakesOne ==
    ASSUME TypeOK, QueueInv, VictimTiers # {}
    PROVE  \E v \in Queued : Removed(EvictCut) = {v} /\ req[v].priority < MANUAL
<1>1. PICK t \in Tiers \ {MANUAL} : EvictCut = [NoCut EXCEPT ![t] = 1]
  BY EvictCutIsCut
<1>2. \A u \in Tiers : EvictCut[u] = IF u = t THEN 1 ELSE 0
  BY <1>1 DEF NoCut
<1>3. 1 \in 1 .. Len(queues[t])
  <2>1. EvictCut \in Cuts /\ EvictCut[t] = 1 /\ Len(queues[t]) \in Nat
    BY <1>2, EvictCutIsCut DEF TypeOK, QueueTypeOK
  <2> QED
    BY <2>1 DEF Cuts
<1>4. Removed(EvictCut) = {queues[t][1]} /\ queues[t][1] \in Queued
  <2>1. queues[t][1] \in Queued
    BY <1>3, QueuedAt
  <2>2. \A u \in Tiers : \A i \in 1 .. EvictCut[u] : u = t /\ i = 1
    BY <1>2
  <2>3. 1 \in 1 .. EvictCut[t]
    BY <1>2
  <2> QED
    BY <2>1, <2>2, <2>3 DEF Removed
<1>5. req[queues[t][1]].priority = t
  BY <1>3 DEF QueueInv, Placed
<1> QED
  BY <1>4, <1>5, TiersAre

\* A landed request and what it displaced.
LEMMA LandIsAccept ==
    ASSUME IInv, NEW cut \in Cuts, NEW k \in Keys, NEW p \in Tiers, NEW r \in Unused,
           Admissible(k, p), Land(k, p, r, cut), UNCHANGED <<pc, held, cancelled>>,
           NEW S, Removed(cut) = S,
           S = {} \/ (p = MANUAL /\ \E v \in Queued : S = {v} /\ req[v].priority < MANUAL)
    PROVE  /\ Service!Accept(k, p, r)
           /\ \A x \in LiveReqs \ S : \/ x \in LiveReqs' /\ req'[x].key = req[x].key
                                      \/ req[x].key = k /\ r \in LiveReqs' /\ req'[r].key = k
<1>1. TypeOK /\ QueueInv /\ ServedOnce
  BY DEF IInv
<1>2. r \in Reqs \ Queued /\ r \notin Held
  BY DEF Unused
<1>3. /\ Queued' = (Queued \ S) \cup {r}
      /\ req'[r] = [key |-> k, priority |-> p, superseded |-> FALSE]
      /\ \A x \in Queued \ S :
            /\ req'[x].key = req[x].key /\ req'[x].priority = req[x].priority
            /\ req'[x].superseded <=> req[x].superseded \/ (HasPending(k) /\ x = dedup[k])
  BY <1>1, <1>2, LandLeaves
<1> DEFINE lost == {x \in LiveReqs : x \in S \/ (HasPending(k) /\ x = dedup[k])}
<1>4. LiveReqs' = (LiveReqs \ lost) \cup {r}
  BY <1>2, <1>3 DEF LiveReqs
<1>5. \A x \in LiveReqs \ lost : Seen(x)' = Seen(x)
  BY <1>3 DEF LiveReqs, Seen
<1>6. Seen(r)' = [key |-> k, priority |-> p]
  BY <1>3 DEF Seen
<1>7. lost \in SUBSET {x \in LiveReqs : p = MANUAL /\ req[x].priority < MANUAL}
  BY <1>1, BumpsBelow
<1>8. Cardinality({x \in lost : req[x].key # k}) <= 1
  <2> DEFINE others == {x \in lost : req[x].key # k}
  <2>1. others \subseteq S
    BY <1>1, BumpsBelow
  <2>2. others = {} \/ \E v : others = {v}
    BY <2>1
  <2> HIDE DEF others
  <2>3. Cardinality(others) = 0 \/ Cardinality(others) = 1
    BY <2>2, FS_EmptySet, FS_Singleton
  <2>4. Cardinality(others) <= 1
    BY <2>3
  <2> QED
    BY <2>4 DEF others
<1>9. Service!Accept(k, p, r)
  <2>1. ~closed /\ held' = held /\ closed' = closed
    BY DEF Admissible, Land
  <2>2. r \notin LiveReqs /\ \A w \in Workers : held[w] # r
    BY <1>2, QueueAssumption DEF Held, LiveReqs
  <2>3. SeenPending' = [x \in (LiveReqs \ lost) \cup {r} |-> IF x = r THEN [key |-> k, priority |-> p] ELSE Seen(x)]
    BY <1>4, <1>5, <1>6, <2>2 DEF SeenPending
  <2> HIDE DEF lost
  <2> DEFINE kept == [x \in LiveReqs \ lost |-> Seen(x)]
  <2>4. Service!Without(lost) = kept
    BY DEF Service!Without, Service!Restrict, SeenPending, LiveReqs, Seen
  <2>5. SeenPending' = [x \in DOMAIN Service!Without(lost) \cup {r} |->
                           IF x = r THEN [key |-> k, priority |-> p] ELSE Service!Without(lost)[x]]
    BY <2>2, <2>3, <2>4
  <2>6. /\ DOMAIN SeenPending = LiveReqs
        /\ \A x \in LiveReqs : SeenPending[x].key = req[x].key /\ SeenPending[x].priority = req[x].priority
    BY DEF SeenPending, Seen
  <2>7. lost \in SUBSET {x \in DOMAIN SeenPending : p = MANUAL /\ SeenPending[x].priority < MANUAL}
    BY <1>7, <2>6
  <2>8. {x \in lost : SeenPending[x].key # k} = {x \in lost : req[x].key # k}
    BY <1>7, <2>6
  <2>9. Cardinality({x \in lost : SeenPending[x].key # k}) <= 1
    BY <1>8, <2>8
  <2>10. MANUAL = Service!MANUAL
    BY DEF MANUAL, Service!MANUAL
  <2>11. ASSUME NEW T
         PROVE  Service!Cardinality(T) = Cardinality(T)
    BY DEF Service!Cardinality, Cardinality
  <2> QED
    BY <2>1, <2>2, <2>5, <2>6, <2>7, <2>9, <2>10, <2>11 DEF Service!Accept, SeenPending, LiveReqs, Seen
<1>10. \A x \in LiveReqs \ S : \/ x \in LiveReqs' /\ req'[x].key = req[x].key
                               \/ req[x].key = k /\ r \in LiveReqs' /\ req'[r].key = k
  <2>1. ASSUME NEW x \in LiveReqs \ S, x \in lost
        PROVE  req[x].key = k
    BY <1>1, <2>1, BumpsBelow
  <2> QED
    BY <1>3, <1>4, <2>1 DEF LiveReqs
<1> QED
  BY <1>9, <1>10

\* What an attempt to dequeue takes off the queue: one live request, of a key
\* no other request of which goes, or nothing that is live.
LEMMA TakeIsTop ==
    ASSUME TypeOK, QueueInv, LiveTiers # {}
    PROVE  /\ NextReq \in LiveReqs
           /\ \A x \in LiveReqs : req[x].priority <= req[NextReq].priority
           /\ LiveReqs \cap Removed(TakeCut) = {NextReq}
<1>1. /\ TakeCut \in Cuts /\ NextReq \in Removed(TakeCut) /\ NextReq \in Reqs
      /\ ~req[NextReq].superseded /\ TopTier \in Tiers
      /\ \A u \in Tiers : u > TopTier => Live(u) = {}
  BY TakeCutIsCut
<1>2. NextReq \in LiveReqs
  BY <1>1 DEF LiveReqs, Removed
<1> DEFINE t == TopTier  n == FirstLive(TopTier)
<1>3. /\ n \in Live(t) /\ \A i \in Live(t) : n <= i
      /\ Live(t) \subseteq 1 .. Len(queues[t]) /\ Len(queues[t]) \in Nat
  <2>1. Len(queues[t]) \in Nat
    BY <1>1 DEF TypeOK, QueueTypeOK
  <2>2. t \in LiveTiers
    <3>1. \E u \in LiveTiers : \A v \in LiveTiers : u >= v
      BY TiersAre DEF LiveTiers
    <3> QED
      BY <3>1 DEF TopTier, Max
  <2>3. Live(t) # {} /\ Live(t) \subseteq 1 .. Len(queues[t])
    BY <2>2 DEF LiveTiers, Live
  <2>4. Live(t) \in SUBSET Nat
    BY <2>1, <2>3
  <2> QED
    BY <2>1, <2>3, <2>4, MinOfNats DEF FirstLive
<1>4. NextReq = queues[t][n] /\ req[NextReq].priority = t
  BY <1>1, <1>3 DEF NextReq, QueueInv, Placed
<1>5. ASSUME NEW x \in LiveReqs
      PROVE  /\ req[x].priority \in Tiers /\ req[x].priority <= t
             /\ \E i \in Live(req[x].priority) : queues[req[x].priority][i] = x
  <2>1. /\ req[x].priority \in Tiers
        /\ \E i \in 1 .. Len(queues[req[x].priority]) : queues[req[x].priority][i] = x
    BY QueuedIsReqs DEF LiveReqs, QueueInv
  <2>2. \E i \in Live(req[x].priority) : queues[req[x].priority][i] = x
    BY <2>1 DEF Live, LiveReqs
  <2> DEFINE u == req[x].priority
  <2>3. u \in Tiers /\ Live(u) # {}
    BY <2>1, <2>2
  <2> HIDE DEF u, t
  <2>4. u <= t
    BY <1>1, <2>3, TiersAre DEF t
  <2> QED
    BY <2>2, <2>3, <2>4 DEF u
<1>6. ASSUME NEW x \in LiveReqs, x \in Removed(TakeCut)
      PROVE  x = NextReq
  <2>1. PICK u \in Tiers : \E i \in 1 .. TakeCut[u] : queues[u][i] = x
    BY <1>6 DEF Removed
  <2>2. PICK i \in 1 .. TakeCut[u] : queues[u][i] = x
    BY <2>1
  <2>3. i \in 1 .. Len(queues[u])
    BY <1>1, <2>2 DEF Cuts, TypeOK, QueueTypeOK
  <2>4. i \in Live(u)
    BY <1>6, <2>2, <2>3 DEF Live, LiveReqs
  <2>5. u \in {1, 2, 3} /\ t \in {1, 2, 3} /\ ~(u > t)
    BY <1>1, <2>4, TiersAre
  <2>6. u = t
    <3>1. u # t => TakeCut[u] = 0
      BY <2>5 DEF TakeCut
    <3> QED
      BY <2>2, <3>1
  <2>7. TakeCut[t] = n
    BY <1>1, <2>5 DEF TakeCut
  <2>8. n <= i /\ i \in 1 .. n
    BY <1>3, <2>2, <2>4, <2>6, <2>7
  <2>9. i = n
    BY <1>3, <2>3, <2>6, <2>8
  <2> QED
    BY <1>4, <2>2, <2>6, <2>9
<1> QED
  BY <1>1, <1>2, <1>4, <1>5, <1>6

\* With no live head in any tier there is no live request.
LEMMA NoneLive ==
    ASSUME TypeOK, QueueInv, LiveTiers = {}
    PROVE  LiveReqs = {}
<1> SUFFICES ASSUME NEW x \in LiveReqs
             PROVE  FALSE
  OBVIOUS
<1>1. /\ req[x].priority \in Tiers
      /\ \E i \in 1 .. Len(queues[req[x].priority]) : queues[req[x].priority][i] = x
  BY QueuedIsReqs DEF LiveReqs, QueueInv
<1>2. Live(req[x].priority) # {}
  BY <1>1 DEF Live, LiveReqs
<1> QED
  BY <1>1, <1>2 DEF LiveTiers

\* Requests taken away, none of those that stay being touched.
LEMMA PendingWithout ==
    ASSUME NEW S, LiveReqs' = LiveReqs \ S, \A x \in LiveReqs \ S : req'[x] = req[x]
    PROVE  SeenPending' = Service!Without(LiveReqs \cap S)
<1>1. \A x \in LiveReqs \ S : Seen(x)' = Seen(x)
  BY DEF Seen
<1>2. SeenPending' = [x \in LiveReqs \ S |-> Seen(x)]
  BY <1>1 DEF SeenPending
<1>3. DOMAIN SeenPending \ (LiveReqs \cap S) = LiveReqs \ S
  BY DEF SeenPending
<1>4. [x \in LiveReqs \ S |-> SeenPending[x]] = [x \in LiveReqs \ S |-> Seen(x)]
  BY DEF SeenPending
<1> QED
  BY <1>2, <1>3, <1>4 DEF Service!Without, Service!Restrict, SeenPending, LiveReqs, Seen

\* A dequeue serves a request of top priority, or finds none and rests, or retires; no other
\* request is lost.
LEMMA DequeueIsService ==
    ASSUME IInv, NEW w \in Workers, NEW flying, NEW done,
           done \subseteq {held[w]} \ {NoReq}, Dequeue(w, flying, done), closed' = closed
    PROVE  /\ (\E r \in Reqs : Service!Serve(w, r)) \/ Service!Rest(w) \/ Service!Retire(w)
           /\ \A x \in LiveReqs : \/ x \in LiveReqs' /\ req'[x] = req[x]
                                  \/ held'[w] = x /\ held[w] # x /\ req'[x] = req[x]
                                  \/ closed
<1>1. TypeOK /\ QueueInv /\ done \cap Queued = {}
  BY DEF IInv, ServedOnce, Held
<1>2. CASE TakeNext(w, flying, done)
  <2>1. /\ NextReq \in LiveReqs /\ NextReq \in Reqs
        /\ \A x \in LiveReqs : req[x].priority <= req[NextReq].priority
        /\ LiveReqs \cap Removed(TakeCut) = {NextReq}
        /\ TakeCut \in Cuts
    BY <1>1, <1>2, TakeIsTop, TakeCutIsCut DEF TakeNext
  <2>2. PICK kept : Remove(TakeCut, kept, done)
    BY <1>2 DEF TakeNext
  <2>3. /\ LiveReqs' = LiveReqs \ Removed(TakeCut)
        /\ \A x \in Queued \ Removed(TakeCut) : req'[x] = req[x]
    BY <1>1, <2>1, <2>2, RemoveLeaves
  <2>4. SeenPending' = Service!Without({NextReq})
    <3>1. \A x \in LiveReqs \ Removed(TakeCut) : req'[x] = req[x]
      BY <2>3 DEF LiveReqs
    <3> QED
      BY <2>1, <2>3, <3>1, PendingWithout
  <2>5. /\ DOMAIN SeenPending = LiveReqs
        /\ \A x \in LiveReqs : SeenPending[x].priority = req[x].priority
    BY DEF SeenPending, Seen
  <2>6. CASE closed
    <3>1. held' = [held EXCEPT ![w] = NoReq]
      BY <1>2, <2>6 DEF TakeNext
    <3>2. Service!Retire(w)
      BY <2>1, <2>4, <2>5, <2>6, <3>1 DEF Service!Retire, SeenPending, LiveReqs, Seen
    <3> QED
      BY <2>6, <3>2
  <2>7. CASE ~closed
    <3>1. held' = [held EXCEPT ![w] = NextReq] /\ Remove(TakeCut, {NextReq}, done)
      BY <1>2, <2>7 DEF TakeNext
    <3>r. PICK r \in Reqs : r = NextReq
      BY <2>1
    <3>2. Service!Serve(w, r)
      BY <2>1, <2>4, <2>5, <2>7, <3>r, <3>1 DEF Service!Serve, SeenPending, LiveReqs, Seen
    <3>3. req'[NextReq] = req[NextReq]
      BY <2>1, <3>1 DEF Remove
    <3>4. held'[w] = NextReq /\ held[w] # NextReq
      BY <2>1, <3>1, QueueAssumption DEF LiveReqs, IInv, ServedOnce, Held, TypeOK
    <3>5. \A x \in LiveReqs : x = NextReq \/ (x \in LiveReqs' /\ req'[x] = req[x])
      BY <2>1, <2>3 DEF LiveReqs
    <3>6. \A x \in LiveReqs : \/ x \in LiveReqs' /\ req'[x] = req[x]
                              \/ held'[w] = x /\ held[w] # x /\ req'[x] = req[x]
      BY <3>3, <3>4, <3>5
    <3> QED
      BY <3>2, <3>6
  <2> QED
    BY <2>6, <2>7
<1>3. CASE Wait(w, flying, done)
  <2>1. LiveReqs = {} /\ Remove(DrainCut, {}, done) /\ held' = [held EXCEPT ![w] = NoReq]
    BY <1>1, <1>3, NoneLive DEF Wait
  <2>2. DrainCut \in Cuts
    BY <1>1, DrainCutIsCut
  <2>3. LiveReqs' = {}
    BY <1>1, <2>1, <2>2, RemoveLeaves
  <2>4. SeenPending = << >> /\ SeenPending' = << >>
    BY <2>1, <2>3, NoneSeen DEF SeenPending, LiveReqs, Seen
  <2>5. CASE ~closed
    <3>1. Service!Rest(w)
      BY <2>1, <2>4, <2>5 DEF Service!Rest, SeenPending, LiveReqs, Seen
    <3> QED
      BY <2>1, <3>1
  <2>6. CASE closed
    <3>1. SeenPending' = Service!Without({})
      BY <2>1, <2>3, PendingWithout
    <3>2. Service!Retire(w)
      BY <2>1, <2>6, <3>1 DEF Service!Retire, SeenPending, LiveReqs, Seen
    <3> QED
      BY <2>1, <3>2
  <2> QED
    BY <2>5, <2>6
<1> QED
  BY <1>2, <1>3 DEF Dequeue

\* The two ways a trigger lands.
LEMMA EnqueueIsAccept ==
    ASSUME IInv, NEW k \in Keys, NEW p \in Tiers, NEW r \in Unused, Enqueue(k, p, r),
           UNCHANGED <<pc, held, cancelled>>
    PROVE  /\ Service!Accept(k, p, r)
           /\ \A x \in LiveReqs : \/ x \in LiveReqs' /\ req'[x].key = req[x].key
                                  \/ req[x].key = k /\ r \in LiveReqs' /\ req'[r].key = k
<1>1. TypeOK /\ Admissible(k, p) /\ Land(k, p, r, NoCut)
  BY DEF Enqueue, IInv
<1>2. NoCut \in Cuts /\ Removed(NoCut) = {}
  BY <1>1, NoCutIsCut DEF Removed
<1> QED
  BY <1>1, <1>2, LandIsAccept

\* A MANUAL request that evicts one is accepted, and displaces no other key but the victim's.
LEMMA EvictingIsAccept ==
    ASSUME IInv, NEW k \in Keys, NEW r \in Unused, EnqueueEvicting(k, r),
           UNCHANGED <<pc, held, cancelled>>
    PROVE  Service!Accept(k, MANUAL, r) /\ r \in In(MANUAL)'
<1>1. /\ TypeOK /\ QueueInv /\ Admissible(k, MANUAL) /\ Land(k, MANUAL, r, EvictCut)
      /\ VictimTiers # {} /\ MANUAL \in Tiers /\ r \in Reqs \ Queued
  BY TiersAre DEF EnqueueEvicting, IInv, Unused
<1>2. EvictCut \in Cuts
  BY <1>1, EvictCutIsCut
<1>3. PICK v \in Queued : Removed(EvictCut) = {v} /\ req[v].priority < MANUAL
  BY <1>1, EvictionTakesOne
<1>4. Service!Accept(k, MANUAL, r)
  BY <1>1, <1>2, <1>3, LandIsAccept
<1>5. r \in In(MANUAL)'
  BY <1>1, <1>2, LandLeaves
<1> QED
  BY <1>4, <1>5

\* A worker that stops takes nothing with it from the queue.
LEMMA StopKeepsQueue ==
    ASSUME IInv, NEW w \in Workers, Stop(w)
    PROVE  LiveReqs' = LiveReqs /\ \A x \in LiveReqs : req'[x] = req[x]
<1>1. Queued' = Queued
  BY DEF Stop, Queued, In
<1>2. ASSUME NEW x \in Queued
      PROVE  req'[x] = req[x]
  <2>1. x \in Reqs
    BY QueuedIsReqs DEF IInv, QueueInv
  <2>2. x # held[w]
    BY <2>1, QueueAssumption DEF IInv, ServedOnce, Held
  <2> QED
    BY <2>1, <2>2 DEF Stop
<1> QED
  BY <1>1, <1>2 DEF LiveReqs

\* Every step is one of the service, or is not seen by it.
LEMMA StepIsService ==
    ASSUME IInv, Next
    PROVE  Service!Next \/ UNCHANGED Service!vars
<1>1. TypeOK /\ QueueInv /\ ServedOnce /\ WorkersShape
  BY DEF IInv
<1>2. ASSUME NEW k \in Keys, NEW r \in Unused, NEW p \in Tiers, Service!Accept(k, p, r)
      PROVE  Service!Next
  <2>1. r \in Reqs /\ p \in 1 .. Service!MANUAL
    BY TiersAre DEF Unused, Service!MANUAL
  <2> QED
    BY <1>2, <2>1, Zenon DEF Service!Next
<1>3. ASSUME Trigger
      PROVE  Service!Next
  <2>1. PICK k \in Keys : \E r \in Unused : (\E p \in Tiers : Enqueue(k, p, r)) \/ EnqueueEvicting(k, r)
    BY <1>3 DEF Trigger
  <2>2. PICK r \in Unused : (\E p \in Tiers : Enqueue(k, p, r)) \/ EnqueueEvicting(k, r)
    BY <2>1
  <2>3. UNCHANGED <<pc, held, cancelled>>
    BY <1>3 DEF Trigger
  <2>4. ASSUME NEW p \in Tiers, Enqueue(k, p, r)
        PROVE  Service!Next
    BY <1>1, <1>2, <2>3, <2>4, EnqueueIsAccept
  <2>5. ASSUME EnqueueEvicting(k, r)
        PROVE  Service!Next
    BY <1>1, <1>2, <2>3, <2>5, EvictingIsAccept, TiersAre
  <2> QED
    BY <2>2, <2>4, <2>5
<1>4. ASSUME UNCHANGED <<queues, req, held, closed>>
      PROVE  UNCHANGED Service!vars
  <2>1. LiveReqs' = LiveReqs /\ SeenPending' = SeenPending
    BY <1>4 DEF LiveReqs, Queued, In, SeenPending, Seen
  <2> QED
    BY <1>4, <2>1 DEF Service!vars, SeenPending, LiveReqs, Seen
<1>5. ASSUME NEW w \in Workers, WorkerStep(w)
      PROVE  Service!Next \/ UNCHANGED Service!vars
  <2>1. ASSUME NEW flying, NEW done, done \subseteq {held[w]} \ {NoReq}, Dequeue(w, flying, done), closed' = closed
        PROVE  Service!Next
    <3>1. (\E r \in Reqs : Service!Serve(w, r)) \/ Service!Rest(w) \/ Service!Retire(w)
      BY <2>1, DequeueIsService
    <3> QED
      BY <3>1, Zenon DEF Service!Next
  <2>2. CASE Start(w)
    BY <2>1, <2>2 DEF Start
  <2>3. CASE Resume(w)
    BY <2>1, <2>3 DEF Resume
  <2>4. CASE Finish(w)
    BY <1>1, <2>1, <2>4 DEF Finish, WorkersShape
  <2>5. CASE Stop(w)
    <3>1. /\ LiveReqs' = LiveReqs
          /\ \A x \in LiveReqs : req'[x] = req[x]
      BY <2>5, StopKeepsQueue
    <3>2. SeenPending' = Service!Without({})
      BY <3>1, PendingWithout
    <3>3. Service!Retire(w)
      BY <2>5, <3>2 DEF Stop, Service!Retire, SeenPending, LiveReqs, Seen
    <3> QED
      BY <3>3, Zenon DEF Service!Next
  <2>6. CASE Cancel(w)
    BY <1>4, <2>6 DEF Cancel
  <2> QED
    BY <1>5, <2>2, <2>3, <2>4, <2>5, <2>6 DEF WorkerStep
<1>6. ASSUME StopWorkers
      PROVE  Service!Next
  <2>1. SeenPending' = SeenPending
    BY <1>6 DEF StopWorkers, Close, LiveReqs, Queued, In, SeenPending, Seen
  <2>2. Service!Close
    BY <1>6, <2>1 DEF StopWorkers, Close, Service!Close, SeenPending, LiveReqs, Seen
  <2> QED
    BY <2>2 DEF Service!Next
<1>7. ASSUME TriggerRefused
      PROVE  UNCHANGED Service!vars
  BY <1>4, <1>7, RefusalKeepsIInv DEF vars
<1>8. ASSUME Timeout \/ Terminated
      PROVE  UNCHANGED Service!vars
  BY <1>4, <1>8 DEF Timeout, Terminated, vars
<1> QED
  BY <1>3, <1>5, <1>6, <1>7, <1>8 DEF Next

(* The refinement: the tiers, the marks, the dedup map and the event, with  *)
(* their bumps, evictions and lost races, do what TriggerService promises.  *)
(* A request once accepted goes to one worker, highest priority first, or   *)
(* makes room for a MANUAL one; until the stop nothing else takes it away.  *)
THEOREM QueueImplementsService == Spec => ImplementsService
<1>1. Init => Service!Init
  <2> SUFFICES ASSUME Init
               PROVE  Service!Init
    OBVIOUS
  <2>1. Queued = {}
    <3>1. \A t \in Tiers : In(t) = {}
      BY DEF Init, QueueInit, In
    <3> QED
      BY <3>1 DEF Queued, Tiers
  <2>2. SeenPending = << >>
    BY <2>1, NoneSeen DEF LiveReqs
  <2> QED
    BY <2>2 DEF Init, QueueInit, Service!Init, SeenPending, LiveReqs, Seen
<1>2. IInv /\ [Next]_vars => [Service!Next]_(Service!vars)
  <2>1. ASSUME UNCHANGED vars
        PROVE  UNCHANGED Service!vars
    <3>1. LiveReqs' = LiveReqs /\ SeenPending' = SeenPending
      BY <2>1 DEF vars, LiveReqs, Queued, In, SeenPending, Seen
    <3> QED
      BY <2>1, <3>1 DEF vars, Service!vars, SeenPending, LiveReqs, Seen
  <2> QED
    BY <2>1, StepIsService
<1> QED
  BY <1>1, <1>2, Inductive, PTL DEF Spec, ImplementsService, Service!Spec

\* What a step may do to a key with a live request pending.
Remembered(k) ==
    \/ Pending(k)' # {}
    \/ \E w \in Workers : held'[w] # held[w] /\ req'[held'[w]].key = k
    \/ Full /\ ~(In(MANUAL)' \subseteq In(MANUAL))
    \/ closed

\* Every step remembers a key with a live request, as KeyNotForgotten says.
LEMMA StepRemembers ==
    ASSUME IInv, Next, NEW k \in Keys, Pending(k) # {}
    PROVE  Remembered(k)
<1>1. TypeOK /\ QueueInv /\ WorkersShape
  BY DEF IInv
<1>2. PICK x \in LiveReqs : req[x].key = k
  BY DEF Pending, LiveReqs
<1>3. ASSUME NEW y \in LiveReqs', req'[y].key = k
      PROVE  Remembered(k)
  <2>1. y \in Pending(k)'
    BY <1>3 DEF Pending, LiveReqs
  <2> QED
    BY <2>1 DEF Remembered
<1>4. ASSUME UNCHANGED <<queues, req>>
      PROVE  Remembered(k)
  <2>1. x \in LiveReqs' /\ req'[x].key = k
    BY <1>2, <1>4 DEF LiveReqs, Queued, In
  <2> QED
    BY <1>3, <2>1
<1>5. ASSUME NEW l \in Keys, NEW r \in Unused, NEW p \in Tiers, Enqueue(l, p, r), UNCHANGED <<pc, held, cancelled>>
      PROVE  Remembered(k)
  <2>1. \/ x \in LiveReqs' /\ req'[x].key = req[x].key
        \/ req[x].key = l /\ r \in LiveReqs' /\ req'[r].key = l
    BY <1>2, <1>5, EnqueueIsAccept
  <2> QED
    BY <1>2, <1>3, <2>1
<1>6. ASSUME NEW l \in Keys, NEW r \in Unused, EnqueueEvicting(l, r), UNCHANGED <<pc, held, cancelled>>
      PROVE  Remembered(k)
  <2>1. r \in In(MANUAL)' /\ r \notin In(MANUAL)
    BY <1>6, EvictingIsAccept DEF Unused, Queued
  <2>2. Full
    BY <1>6 DEF EnqueueEvicting
  <2> QED
    BY <2>1, <2>2 DEF Remembered
<1>7. CASE Trigger
  BY <1>5, <1>6, <1>7 DEF Trigger
<1>8. ASSUME NEW w \in Workers, WorkerStep(w)
      PROVE  Remembered(k)
  <2>1. ASSUME NEW flying, NEW done, done \subseteq {held[w]} \ {NoReq}, Dequeue(w, flying, done), closed' = closed
        PROVE  Remembered(k)
    <3>1. \/ x \in LiveReqs' /\ req'[x] = req[x]
          \/ held'[w] = x /\ held[w] # x /\ req'[x] = req[x]
          \/ closed
      BY <1>2, <2>1, DequeueIsService
    <3> QED
      BY <1>2, <1>3, <3>1 DEF Remembered
  <2>2. CASE Start(w)
    BY <2>1, <2>2 DEF Start
  <2>3. CASE Resume(w)
    BY <2>1, <2>3 DEF Resume
  <2>4. CASE Finish(w)
    BY <1>1, <2>1, <2>4 DEF Finish, WorkersShape
  <2>5. CASE Stop(w)
    BY <2>5 DEF Stop, Remembered
  <2>6. CASE Cancel(w)
    BY <1>4, <2>6 DEF Cancel
  <2> QED
    BY <1>8, <2>2, <2>3, <2>4, <2>5, <2>6 DEF WorkerStep
<1>9. CASE TriggerRefused
  BY <1>4, <1>9, RefusalKeepsIInv DEF vars
<1>10. CASE StopWorkers \/ Timeout \/ Terminated
  BY <1>4, <1>10 DEF StopWorkers, Close, Timeout, Terminated, vars
<1> QED
  BY <1>7, <1>8, <1>9, <1>10 DEF Next

\* A key with a live request pending keeps one until a worker takes it or a
\* MANUAL call that lands on a full queue evicts it, until the stop: a bump
\* never leaves a key with neither its old request nor the new one.
THEOREM KeysAreKept == Spec => KeyNotForgotten
<1>1. IInv /\ [Next]_vars => [\A k \in Keys : Pending(k) # {} => Remembered(k)]_vars
  BY StepRemembers
<1> QED
  BY <1>1, Inductive, PTL DEF Spec, KeyNotForgotten, Remembered

-----------------------------------------------------------------------------
(* The process (Lifecycle).                                                 *)

\* What a trigger of any source does to the pool.
LEMMA TriggerIsNext ==
    ASSUME NEW k \in Keys, NEW r \in Unused, NEW p \in Tiers,
           UNCHANGED <<pc, held, cancelled>>,
           Enqueue(k, p, r) \/ EnqueueEvicting(k, r) \/ EnqueueRefused(k)
    PROVE  Next
BY DEF Next, Trigger, TriggerRefused

\* Every step of the process is one of the pool, or leaves it alone: the
\* catch-up behind the start of the shutdown, jobs that fire before there are
\* workers and a timeout among them.
LEMMA StepImplementsPool ==
    ASSUME [LifeNext]_<<vars, lifeVars>>
    PROVE  [Next]_vars
<1>1. CASE Startup
  <2>1. CASE StartScheduler \/ Serve \/ Launch
    BY <2>1 DEF StartScheduler, Serve, Launch
  <2>2. CASE \E k \in Keys : CatchUp(k)
    <3>1. PICK k \in Keys : CatchUp(k)
      BY <2>2
    <3>2. UNCHANGED <<pc, held, cancelled>>
      BY <3>1 DEF CatchUp
    <3>3. CASE \E r \in Unused : Enqueue(k, MANUAL, r) \/ EnqueueEvicting(k, r)
      BY <3>2, <3>3, TriggerIsNext DEF Tiers
    <3>4. CASE EnqueueRefused(k)
      BY <3>2, <3>4 DEF Next, TriggerRefused
    <3>5. CASE UNCHANGED queueVars
      BY <3>2, <3>5 DEF vars, queueVars
    <3> QED
      BY <3>1, <3>3, <3>4, <3>5 DEF CatchUp
  <2> QED
    BY <1>1, <2>1, <2>2 DEF Startup
<1>2. CASE Job
  <2>1. PICK k \in Keys, r \in Unused, p \in {PERIODIC, SWEEP} : Enqueue(k, p, r)
    BY <1>2 DEF Job
  <2> QED
    BY <1>2, <2>1, TriggerIsNext DEF Job, Tiers
<1>3. CASE Ask
  BY <1>3 DEF Ask, Next
<1>4. CASE \E w \in Workers : Work(w)
  BY <1>4 DEF Work, Next
<1>5. CASE Shutdown
  BY <1>5 DEF Shutdown, Next
<1>6. CASE Teardown
  BY <1>6 DEF Teardown, GiveUp, Drained, ShutdownScheduler, CloseClient, Dispose, Next
<1>7. CASE GetClient \/ Ended \/ UNCHANGED <<vars, lifeVars>>
  BY <1>7 DEF GetClient, Ended
<1> QED
  BY <1>1, <1>2, <1>3, <1>4, <1>5, <1>6, <1>7 DEF LifeNext

\* The process drives the queue and its workers only as the specification of
\* the pool has it.
THEOREM ProcessImplementsPool == LifeSpec => ImplementsPool
<1>1. LifeInit => Init
  BY DEF LifeInit
<1>2. [LifeNext]_<<vars, lifeVars>> => [Next]_vars
  BY StepImplementsPool
<1> QED
  BY <1>1, <1>2, PTL DEF LifeSpec, ImplementsPool, Spec

-----------------------------------------------------------------------------
(* The teardown.  The stage alone does not keep the client: it takes that   *)
(* all workers are at their end by then, and that nothing starts one again. *)

Down == {"drained", "halted", "closed", "ended"}

TeardownInv ==
    /\ stage \in Down \cup {"draining"} => closed
    /\ stage \in Down => \A w \in Workers : pc[w] = "stopped"
    /\ stage \in {"closed", "ended"} => client = "none"

\* A queue that is closed stays closed.
LEMMA ClosedStays == closed /\ [Next]_vars => closed'
<1> SUFFICES ASSUME closed, [Next]_vars
             PROVE  closed'
  OBVIOUS
<1>1. CASE Trigger \/ TriggerRefused
  BY <1>1 DEF Trigger, TriggerRefused, Enqueue, EnqueueEvicting, EnqueueRefused, Land
<1>2. CASE \E w \in Workers : WorkerStep(w)
  BY <1>2 DEF WorkerStep, Start, Resume, Finish, Stop, Cancel
<1>3. CASE StopWorkers \/ Timeout
  BY <1>3 DEF StopWorkers, Close, Timeout
<1>4. CASE Terminated \/ UNCHANGED vars
  BY <1>4 DEF Terminated, vars
<1> QED
  BY <1>1, <1>2, <1>3, <1>4 DEF Next

\* A worker that has stopped takes no step.
LEMMA StoppedIsOver == ASSUME NEW w \in Workers, pc[w] = "stopped" PROVE ~WorkerStep(w)
BY DEF WorkerStep, Start, Resume, Finish, Stop, Cancel

\* Every step keeps it.
LEMMA StepKeepsTeardown == TeardownInv /\ [LifeNext]_<<vars, lifeVars>> => TeardownInv'
<1> SUFFICES ASSUME TeardownInv, [LifeNext]_<<vars, lifeVars>>
             PROVE  TeardownInv'
  OBVIOUS
<1> USE DEF Down
<1>1. closed => closed'
  BY StepImplementsPool, ClosedStays
<1>2. ASSUME UNCHANGED <<pc, stage, client>>
      PROVE  TeardownInv'
  BY <1>1, <1>2 DEF TeardownInv
<1>3. CASE StartScheduler \/ Serve
  BY <1>3 DEF StartScheduler, Serve, TeardownInv
<1>4. CASE Launch \/ \E k \in Keys : CatchUp(k)
  BY <1>2, <1>4 DEF Launch, CatchUp, vars
<1>5. CASE Job
  BY <1>2, <1>5 DEF Job, lifeVars
<1>6. CASE Ask
  BY <1>2, <1>6 DEF Ask, Trigger, TriggerRefused, lifeVars
<1>7. CASE \E w \in Workers : Work(w)
  <2>1. PICK w \in Workers : Work(w)
    BY <1>7
  <2>2. UNCHANGED <<stage, client>>
    BY <2>1 DEF Work, lifeVars
  <2>3. stage \notin Down
    BY <2>1, StoppedIsOver DEF Work, TeardownInv
  <2> QED
    BY <1>1, <2>2, <2>3 DEF TeardownInv
<1>8. CASE GetClient
  <2>1. stage \notin Down
    BY <1>8 DEF GetClient, Probing, TeardownInv
  <2> QED
    BY <1>8, <2>1, <1>1 DEF GetClient, TeardownInv
<1>9. CASE Shutdown
  BY <1>9 DEF Shutdown, StopWorkers, Close, TeardownInv
<1>10. CASE GiveUp
  BY <1>2, <1>10 DEF GiveUp, Timeout, lifeVars
<1>11. CASE Drained
  BY <1>11 DEF Drained, TeardownInv, vars
<1>12. CASE ShutdownScheduler \/ CloseClient \/ Dispose
  BY <1>12 DEF ShutdownScheduler, CloseClient, Dispose, TeardownInv, vars
<1>13. CASE Ended \/ UNCHANGED <<vars, lifeVars>>
  BY <1>2, <1>13 DEF Ended, vars, lifeVars
<1> QED
  BY <1>3, <1>4, <1>5, <1>6, <1>7, <1>8, <1>9, <1>10, <1>11, <1>12, <1>13
     DEF LifeNext, Startup, Teardown

\* From the end of the drain on no probe runs, no key is marked in flight, and
\* once the shared client is closed nobody makes another.
THEOREM ClientIsLast == LifeSpec => []ClientOutlivesProbes
<1>1. LifeInit => TeardownInv
  BY DEF LifeInit, TeardownInv, Down
<1>2. InFlightIsProbed /\ TeardownInv => ClientOutlivesProbes
  BY DEF InFlightIsProbed, TeardownInv, ClientOutlivesProbes, Probing, Down
<1>3. LifeSpec => []InFlightIsProbed
  BY ProcessImplementsPool, InFlightIsReleased, PTL DEF ImplementsPool
<1> QED
  BY <1>1, <1>2, <1>3, StepKeepsTeardown, PTL DEF LifeSpec

\* What holds of the pool holds in the whole process.
COROLLARY PoolIsSoundThroughout ==
    LifeSpec => [](DedupEntryIsPending /\ NoLostWakeup /\ CapacityRespected /\ ServedOnce)
BY ProcessImplementsPool, DedupIsSound, WakeupsAreKept, CapacityHolds, ServedAtMostOnce,
   PTL DEF ImplementsPool
=============================================================================
