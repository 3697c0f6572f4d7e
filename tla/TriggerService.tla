--------------------------- MODULE TriggerService ---------------------------
(***************************************************************************)
(* What the trigger queue and its workers promise, without tiers, marks,   *)
(* dedup map or event: a bag of accepted requests of which workers take    *)
(* one of the highest priority, and from which nothing disappears except   *)
(* to a worker, or to make room for a MANUAL request.                      *)
(*                                                                         *)
(* Module WorkerPool implements it (WorkerPool!ImplementsService).         *)
(***************************************************************************)
EXTENDS Naturals, FiniteSets, Functions

CONSTANTS Keys, Reqs, Workers, NoReq

VARIABLES
    pending,   \* the accepted requests: a function from some of Reqs
    serving,   \* the request each worker is probing, or NoReq
    open       \* the service has not been stopped

vars == <<pending, serving, open>>

MANUAL == 3

Init ==
    /\ pending = << >>
    /\ serving = [w \in Workers |-> NoReq]
    /\ open = TRUE

Without(S) == Restrict(pending, DOMAIN pending \ S)

\* A request is accepted.  Only a MANUAL one may displace others: those of its
\* own key, and at most one more, none of them MANUAL.
Accept(k, p, r) ==
    /\ open
    /\ r \notin DOMAIN pending
    /\ \A w \in Workers : serving[w] # r
    /\ \E lost \in SUBSET {x \in DOMAIN pending : p = MANUAL /\ pending[x].priority < MANUAL} :
          /\ Cardinality({x \in lost : pending[x].key # k}) <= 1
          /\ LET kept == Without(lost)
             IN  pending' = [x \in DOMAIN kept \cup {r} |->
                               IF x = r THEN [key |-> k, priority |-> p] ELSE kept[x]]
    /\ UNCHANGED <<serving, open>>

\* A worker that has finished its request takes another of top priority.
Serve(w, r) ==
    /\ open
    /\ r \in DOMAIN pending
    /\ \A x \in DOMAIN pending : pending[x].priority <= pending[r].priority
    /\ serving' = [serving EXCEPT ![w] = r]
    /\ pending' = Without({r})
    /\ UNCHANGED open

\* A worker rests only if there is nothing to do.
Rest(w) ==
    /\ open
    /\ pending = << >>
    /\ serving' = [serving EXCEPT ![w] = NoReq]
    /\ UNCHANGED <<pending, open>>

Close ==
    /\ open
    /\ open' = FALSE
    /\ UNCHANGED <<pending, serving>>

\* After the stop a worker ends, and may drop one request in doing so.
Retire(w) ==
    /\ ~open
    /\ serving' = [serving EXCEPT ![w] = NoReq]
    /\ \E S \in {{}} \cup {{r} : r \in DOMAIN pending} : pending' = Without(S)
    /\ UNCHANGED open

Next ==
    \/ \E k \in Keys, p \in 1 .. MANUAL, r \in Reqs : Accept(k, p, r)
    \/ \E w \in Workers : Rest(w) \/ Retire(w) \/ \E r \in Reqs : Serve(w, r)
    \/ Close

Spec == Init /\ [][Next]_vars

=============================================================================
