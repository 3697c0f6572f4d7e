------------------------------ MODULE SseBroker ------------------------------
(***************************************************************************)
(* SseManager of core/sse.py and the /events endpoint that uses it: who is *)
(* subscribed, what each subscriber has queued and has been sent, and when *)
(* the wake and sleep hooks of the scheduler fire.                         *)
(*                                                                         *)
(* No body of the broker's lock awaits, and the hooks run before the next  *)
(* await, so subscribe, unsubscribe and broadcast are one step each.  The  *)
(* endpoint is not: it subscribes before its response starts, and its      *)
(* generator yields the first ping outside the try that unsubscribes.      *)
(***************************************************************************)
EXTENDS Naturals, Sequences, FiniteSets

CONSTANTS
    Clients,    \* connections; each is opened once
    QMax,       \* size of a subscriber's queue: 256
    MaxEvents   \* bound on broadcasts, for model checking

ASSUME BrokerAssumption == QMax \in Nat \ {0} /\ MaxEvents \in Nat

VARIABLES
    phase,   \* phase[c]: "new", "opened" (subscribed), "pinging" (at the first
             \* yield), "streaming" (in the try), "left", "abandoned"
    gone,    \* connections the browser has closed
    subs,    \* _subscribers
    queue,   \* queue[c]: events put into the subscriber's queue, not yet sent
    got,     \* got[c]: events sent to the client
    since,   \* since[c]: history: events broadcast before c subscribed
    sent,    \* history: events broadcast
    hooks    \* history: "wake" and "sleep" in the order they were called

vars == <<phase, gone, subs, queue, got, since, sent, hooks>>

Phases == {"new", "opened", "pinging", "streaming", "left", "abandoned"}

TypeOK ==
    /\ phase \in [Clients -> Phases]
    /\ gone \subseteq Clients
    /\ subs \subseteq Clients
    /\ queue \in [Clients -> Seq(1 .. sent)]
    /\ \A c \in Clients : Len(queue[c]) <= QMax
    /\ got \in [Clients -> Seq(1 .. sent)]
    /\ since \in [Clients -> 0 .. sent]
    /\ sent \in Nat
    /\ hooks \in Seq({"wake", "sleep"})

Init ==
    /\ phase = [c \in Clients |-> "new"]
    /\ gone = {}
    /\ subs = {}
    /\ queue = [c \in Clients |-> << >>]
    /\ got = [c \in Clients |-> << >>]
    /\ since = [c \in Clients |-> 0]
    /\ sent = 0
    /\ hooks = << >>

-----------------------------------------------------------------------------
(* SseManager.                                                              *)

Woken == IF subs = {} THEN Append(hooks, "wake") ELSE hooks

Subscribe(c) ==
    /\ subs' = subs \union {c}
    /\ hooks' = Woken

\* (mutant) the count is taken before the queue is discarded
BecameEmpty_CountedBefore(c) == Cardinality(subs) = 1
\* The set is empty afterwards, whether or not c was still in it.
BecameEmpty(c) == subs \ {c} = {}

\* (mutant) the queue stays in the set
Unsubscribe_Keeps(c) ==
    /\ subs' = subs
    /\ hooks' = IF BecameEmpty(c) THEN Append(hooks, "sleep") ELSE hooks
Unsubscribe(c) ==
    /\ subs' = subs \ {c}
    /\ hooks' = IF BecameEmpty(c) THEN Append(hooks, "sleep") ELSE hooks

\* put_nowait raises QueueFull.
Full(c) == Len(queue[c]) = QMax

\* (mutant) a full queue misses the event and stays subscribed
Stale_None == {}
\* Subscribers too slow for the event; the broadcast discards them.
Stale == {c \in subs : Full(c)}

Broadcast ==
    /\ sent < MaxEvents
    /\ sent' = sent + 1
    /\ queue' = [c \in Clients |-> IF c \in subs /\ ~Full(c) THEN Append(queue[c], sent + 1) ELSE queue[c]]
    /\ subs' = subs \ Stale
    /\ UNCHANGED <<phase, gone, got, since, hooks>>

-----------------------------------------------------------------------------
(* The endpoint, one generator for each connection.                         *)

Open(c) ==
    /\ phase[c] = "new"
    /\ Subscribe(c)
    /\ since' = [since EXCEPT ![c] = sent]
    /\ phase' = [phase EXCEPT ![c] = "opened"]
    /\ UNCHANGED <<gone, queue, got, sent>>

Ping(c) ==
    /\ phase[c] = "opened"
    /\ phase' = [phase EXCEPT ![c] = "pinging"]
    /\ UNCHANGED <<gone, subs, queue, got, since, sent, hooks>>

EnterLoop(c) ==
    /\ phase[c] = "pinging"
    /\ phase' = [phase EXCEPT ![c] = "streaming"]
    /\ UNCHANGED <<gone, subs, queue, got, since, sent, hooks>>

\* One event; a get that times out sends a ping and changes nothing.
Deliver(c) ==
    /\ phase[c] = "streaming"
    /\ queue[c] # << >>
    /\ got' = [got EXCEPT ![c] = Append(@, Head(queue[c]))]
    /\ queue' = [queue EXCEPT ![c] = Tail(@)]
    /\ UNCHANGED <<phase, gone, subs, since, sent, hooks>>

\* The loop sees the disconnect, or the generator is closed inside the try.
Leave(c) ==
    /\ phase[c] = "streaming"
    /\ c \in gone
    /\ Unsubscribe(c)
    /\ phase' = [phase EXCEPT ![c] = "left"]
    /\ UNCHANGED <<gone, queue, got, since, sent>>

\* The response is cancelled before the generator enters the try.
Abandon(c) ==
    /\ phase[c] \in {"opened", "pinging"}
    /\ c \in gone
    /\ phase' = [phase EXCEPT ![c] = "abandoned"]
    /\ UNCHANGED <<gone, subs, queue, got, since, sent, hooks>>

\* The browser closes the connection.
Disconnect(c) ==
    /\ phase[c] \in {"opened", "pinging", "streaming"}
    /\ c \notin gone
    /\ gone' = gone \union {c}
    /\ UNCHANGED <<phase, subs, queue, got, since, sent, hooks>>

Serve(c) == Ping(c) \/ EnterLoop(c) \/ Deliver(c) \/ Leave(c) \/ Abandon(c)

Next == Broadcast \/ \E c \in Clients : Open(c) \/ Serve(c) \/ Disconnect(c)

Spec == Init /\ [][Next]_vars

\* The event loop keeps running each generator that has something to do.
FairSpec == Spec /\ \A c \in Clients : WF_vars(Serve(c))

-----------------------------------------------------------------------------
(* Properties.                                                              *)

\* What a client has been sent and what waits for it are, in order and without
\* a gap, the events broadcast since it subscribed; to the latest, as long as it
\* is subscribed.  A slow client loses its subscription, never an event in the
\* middle.
NothingSkipped ==
    \A c \in Clients :
        LET seen == got[c] \o queue[c]
        IN  /\ \A i \in 1 .. Len(seen) : seen[i] = since[c] + i
            /\ c \in subs => since[c] + Len(seen) = sent

\* While anyone is subscribed, the last hook called was the wake.  (A stream that goes
\* on after a broadcast has discarded its subscriber is not subscribed: the sleep hook
\* may run in front of it.  What the hooks do to the jobs is in Cadence.)
AwakeWhileWatched == subs # {} => hooks # << >> /\ hooks[Len(hooks)] = "wake"

\* Every event broadcast to a subscriber reaches it, unless the client goes or
\* falls so far behind that it is discarded.
Delivered ==
    \A c \in Clients : \A n \in 1 .. MaxEvents :
        (c \in subs /\ since[c] < n /\ n <= sent) ~>
            (c \in gone \/ c \notin subs \/ \E i \in 1 .. Len(got[c]) : got[c][i] = n)

\* A client that goes once its stream has begun is forgotten.
StreamIsForgotten ==
    \A c \in Clients : (c \in gone /\ phase[c] = "streaming") ~> c \notin subs

-----------------------------------------------------------------------------
(* What the docs and comments say and the code does not do.                 *)

\* The sleep hook is called only when the count crosses from 1 to 0.
SleepOnCrossing == [][hooks' # hooks => (subs = {}) # (subs' = {})]_vars

\* active_subscribers() counts connected clients: one that goes is forgotten.
GoneIsForgotten == \A c \in Clients : (c \in gone) ~> c \notin subs

=============================================================================
