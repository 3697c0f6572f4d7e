-------------------------- MODULE SseBrokerProofs --------------------------
(***************************************************************************)
(* That a stream has no gap and a watched dashboard is awake, for any set  *)
(* of clients, any size of their queues and any number of events; and what *)
(* the page at the other end makes of it.                                  *)
(***************************************************************************)
EXTENDS SseBroker, LiveData, SequenceTheorems, TLAPS

-----------------------------------------------------------------------------

(* Sequences of consecutive numbers.                                        *)

Counts(s, b) == \A i \in 1 .. Len(s) : s[i] = b + i

\* A sequence of events stays one when there are more events.
LEMMA SeqGrows ==
    ASSUME NEW n \in Nat, NEW s \in Seq(1 .. n)
    PROVE  s \in Seq(1 .. n + 1)
<1>1. 1 .. n \subseteq 1 .. n + 1
  OBVIOUS
<1> QED
  BY <1>1

\* Two sequences that count on from each other, joined.
LEMMA Joined ==
    ASSUME NEW n \in Nat, NEW g \in Seq(1 .. n), NEW q \in Seq(1 .. n), NEW b \in Nat,
           Counts(g, b), Counts(q, b + Len(g))
    PROVE  b + Len(g \o q) = b + Len(g) + Len(q) /\ Counts(g \o q, b)
<1>1. Len(g) \in Nat /\ Len(q) \in Nat
  BY LenProperties
<1>2. /\ Len(g \o q) = Len(g) + Len(q)
      /\ \A i \in 1 .. Len(g) + Len(q) : (g \o q)[i] = IF i <= Len(g) THEN g[i] ELSE q[i - Len(g)]
  BY ConcatProperties
<1>3. ASSUME NEW i \in 1 .. Len(g) + Len(q)
      PROVE  (g \o q)[i] = b + i
  <2>1. CASE i <= Len(g)
    BY <1>1, <1>2, <2>1 DEF Counts
  <2>2. CASE ~(i <= Len(g))
    <3>1. i - Len(g) \in 1 .. Len(q)
      BY <1>1, <2>2
    <3>2. q[i - Len(g)] = b + Len(g) + (i - Len(g))
      BY <3>1 DEF Counts
    <3> QED
      BY <1>1, <1>2, <2>2, <3>2
  <2> QED
    BY <2>1, <2>2
<1> QED
  BY <1>1, <1>2, <1>3 DEF Counts

\* A sequence that counts to the latest event, with the next one.
LEMMA Added ==
    ASSUME NEW n \in Nat, NEW q \in Seq(1 .. n), NEW b \in Nat,
           Counts(q, b), b + Len(q) = n
    PROVE  /\ Append(q, n + 1) \in Seq(1 .. n + 1)
           /\ Len(Append(q, n + 1)) = Len(q) + 1
           /\ Counts(Append(q, n + 1), b)
           /\ b + Len(Append(q, n + 1)) = n + 1
<1>1. q \in Seq(1 .. n + 1) /\ n + 1 \in 1 .. n + 1 /\ Len(q) \in Nat
  BY SeqGrows, LenProperties
<1>2. /\ Append(q, n + 1) \in Seq(1 .. n + 1)
      /\ Len(Append(q, n + 1)) = Len(q) + 1
      /\ \A i \in 1 .. Len(q) : Append(q, n + 1)[i] = q[i]
      /\ Append(q, n + 1)[Len(q) + 1] = n + 1
  BY <1>1, AppendProperties
<1> QED
  BY <1>1, <1>2 DEF Counts

\* An event moved from the queue to the stream.
LEMMA Moved ==
    ASSUME NEW n \in Nat, NEW g \in Seq(1 .. n), NEW q \in Seq(1 .. n), NEW b \in Nat,
           Counts(g, b), Counts(q, b + Len(g)), q # << >>
    PROVE  /\ Append(g, Head(q)) \in Seq(1 .. n) /\ Tail(q) \in Seq(1 .. n)
           /\ Counts(Append(g, Head(q)), b)
           /\ Counts(Tail(q), b + Len(Append(g, Head(q))))
           /\ b + Len(Append(g, Head(q))) + Len(Tail(q)) = b + Len(g) + Len(q)
           /\ Len(Tail(q)) <= Len(q)
<1>1. /\ Head(q) \in 1 .. n /\ Tail(q) \in Seq(1 .. n) /\ Len(Tail(q)) = Len(q) - 1
      /\ \A i \in 1 .. Len(Tail(q)) : Tail(q)[i] = q[i + 1]
  BY HeadTailProperties
<1>2. Len(g) \in Nat /\ Len(q) \in Nat \ {0}
  BY LenProperties, EmptySeq
<1>3. Head(q) = b + Len(g) + 1
  BY <1>2 DEF Counts
<1>4. /\ Append(g, Head(q)) \in Seq(1 .. n) /\ Len(Append(g, Head(q))) = Len(g) + 1
      /\ \A i \in 1 .. Len(g) : Append(g, Head(q))[i] = g[i]
      /\ Append(g, Head(q))[Len(g) + 1] = Head(q)
  BY <1>1, AppendProperties
<1>5. Counts(Append(g, Head(q)), b)
  BY <1>2, <1>3, <1>4 DEF Counts
<1>6. Counts(Tail(q), b + Len(g) + 1)
  <2> SUFFICES ASSUME NEW i \in 1 .. Len(q) - 1
               PROVE  Tail(q)[i] = b + Len(g) + 1 + i
    BY <1>1 DEF Counts
  <2>1. i + 1 \in 1 .. Len(q)
    BY <1>2
  <2>2. q[i + 1] = b + Len(g) + (i + 1)
    BY <2>1 DEF Counts
  <2> QED
    BY <1>1, <1>2, <2>2
<1>7. b + Len(Append(g, Head(q))) = b + Len(g) + 1
  BY <1>2, <1>4
<1>8. b + Len(Append(g, Head(q))) + Len(Tail(q)) = b + Len(g) + Len(q) /\ Len(Tail(q)) <= Len(q)
  BY <1>1, <1>2, <1>4
<1> QED
  BY <1>1, <1>4, <1>5, <1>6, <1>7, <1>8

\* A queue that was not full holds one more.
LEMMA AddedFits ==
    ASSUME NEW n \in Nat, NEW q \in Seq(1 .. n), NEW max \in Nat, Len(q) <= max, Len(q) # max
    PROVE  Len(Append(q, n + 1)) <= max
<1>1. q \in Seq(1 .. n + 1) /\ n + 1 \in 1 .. n + 1 /\ Len(q) \in Nat
  BY SeqGrows, LenProperties
<1>2. Len(Append(q, n + 1)) = Len(q) + 1
  BY <1>1, AppendProperties
<1> QED
  BY <1>1, <1>2

-----------------------------------------------------------------------------
(* NothingSkipped speaks of a concatenation; the invariant says the same of *)
(* its two parts, and that a connection begins with nothing in either.      *)

Gapless(c) ==
    /\ Counts(got[c], since[c])
    /\ Counts(queue[c], since[c] + Len(got[c]))
    /\ c \in subs => since[c] + Len(got[c]) + Len(queue[c]) = sent

Fresh(c) == phase[c] = "new" => c \notin subs /\ got[c] = << >> /\ queue[c] = << >>

IInv ==
    /\ TypeOK
    /\ \A c \in Clients : Gapless(c) /\ Fresh(c)
    /\ AwakeWhileWatched

\* The invariant holds at the start.
LEMMA InitIInv == Init => IInv
<1> SUFFICES ASSUME Init
             PROVE  IInv
  OBVIOUS
<1>1. TypeOK
  BY BrokerAssumption DEF Init, TypeOK, Phases, BrokerAssumption
<1>2. \A c \in Clients : Gapless(c) /\ Fresh(c)
  BY DEF Init, Gapless, Fresh, Counts
<1>3. AwakeWhileWatched
  BY DEF Init, AwakeWhileWatched
<1> QED
  BY <1>1, <1>2, <1>3 DEF IInv

\* The hooks of one that goes, and of one that comes.
LEMMA HooksAreWoken ==
    ASSUME IInv, NEW c \in Clients, Subscribe(c)
    PROVE  hooks' \in Seq({"wake", "sleep"}) /\ AwakeWhileWatched'
<1>1. hooks \in Seq({"wake", "sleep"})
  BY DEF IInv, TypeOK
<1>2. CASE subs = {}
  <2>1. hooks' = Append(hooks, "wake")
    BY <1>2 DEF Subscribe, Woken
  <2>2. Append(hooks, "wake") \in Seq({"wake", "sleep"})
        /\ Append(hooks, "wake") # << >> /\ Len(Append(hooks, "wake")) = Len(hooks) + 1
        /\ Append(hooks, "wake")[Len(hooks) + 1] = "wake"
    BY <1>1, AppendProperties
  <2> QED
    BY <2>1, <2>2 DEF AwakeWhileWatched
<1>3. CASE subs # {}
  BY <1>1, <1>3 DEF IInv, Subscribe, Woken, AwakeWhileWatched
<1> QED
  BY <1>2, <1>3

\* An unsubscription calls the sleep hook only if it leaves nobody behind.
LEMMA HooksStayAwake ==
    ASSUME IInv, NEW c \in Clients, Unsubscribe(c)
    PROVE  hooks' \in Seq({"wake", "sleep"}) /\ AwakeWhileWatched'
BY DEF IInv, TypeOK, Unsubscribe, BecameEmpty, AwakeWhileWatched

\* A broadcast keeps the invariant.
LEMMA BroadcastKeepsIInv == IInv /\ Broadcast => IInv'
<1> SUFFICES ASSUME IInv, Broadcast
             PROVE  IInv'
  OBVIOUS
<1> USE DEF IInv
<1>1. /\ sent' = sent + 1 /\ sent \in Nat /\ subs' \subseteq subs
      /\ UNCHANGED <<phase, gone, got, since, hooks>>
  BY DEF Broadcast, TypeOK
<1>2. \A c \in Clients :
        /\ queue[c] \in Seq(1 .. sent)
        /\ c \in subs' => c \in subs /\ ~Full(c)
        /\ queue'[c] = IF c \in subs /\ ~Full(c) THEN Append(queue[c], sent + 1) ELSE queue[c]
  BY DEF Broadcast, TypeOK, Stale
<1>3. ASSUME NEW c \in Clients
      PROVE  /\ queue'[c] \in Seq(1 .. sent') /\ Len(queue'[c]) <= QMax
             /\ got'[c] \in Seq(1 .. sent')
             /\ since'[c] \in 0 .. sent'
             /\ Gapless(c)' /\ Fresh(c)'
  <2>1. /\ queue[c] \in Seq(1 .. sent') /\ got[c] \in Seq(1 .. sent')
        /\ since[c] \in Nat /\ since'[c] \in 0 .. sent' /\ Len(queue[c]) <= QMax
    BY <1>1, SeqGrows DEF TypeOK
  <2>2. Len(queue[c]) \in Nat /\ Len(got[c]) \in Nat
    BY <2>1, LenProperties
  <2>3. CASE c \in subs /\ ~Full(c)
    <3>1. queue'[c] = Append(queue[c], sent + 1)
      BY <1>2, <2>3
    <3>2. /\ since[c] + Len(got[c]) \in Nat
          /\ (since[c] + Len(got[c])) + Len(queue[c]) = sent
          /\ Counts(queue[c], since[c] + Len(got[c])) /\ queue[c] \in Seq(1 .. sent)
      BY <1>2, <2>1, <2>2, <2>3 DEF Gapless
    <3>3. /\ Append(queue[c], sent + 1) \in Seq(1 .. sent + 1)
          /\ Counts(Append(queue[c], sent + 1), since[c] + Len(got[c]))
          /\ (since[c] + Len(got[c])) + Len(Append(queue[c], sent + 1)) = sent + 1
      <4>1. sent \in Nat
        BY <1>1
      <4> QED
        BY <3>2, <4>1, Added
    <3>4. Len(queue[c]) # QMax /\ QMax \in Nat
      BY <2>3, BrokerAssumption DEF Full
    <3>5. Len(queue'[c]) <= QMax
      BY <1>1, <1>2, <2>1, <3>1, <3>4, AddedFits
    <3>6. /\ queue'[c] \in Seq(1 .. sent')
          /\ Counts(queue'[c], since[c] + Len(got[c]))
          /\ (since[c] + Len(got[c])) + Len(queue'[c]) = sent'
      <4>1. sent' = sent + 1
        BY <1>1
      <4> QED
        BY <3>1, <3>3, <4>1
    <3>7. Counts(got[c], since[c]) /\ got' = got /\ since' = since /\ phase' = phase
      BY <1>1 DEF Gapless
    <3>8. Gapless(c)'
      BY <3>6, <3>7 DEF Gapless, Counts
    <3>9. Fresh(c)'
      BY <2>3, <3>7 DEF Fresh
    <3> QED
      BY <2>1, <3>5, <3>6, <3>7, <3>8, <3>9
  <2>4. CASE ~(c \in subs /\ ~Full(c))
    BY <1>1, <1>2, <2>1, <2>4 DEF Gapless, Fresh
  <2> QED
    BY <2>3, <2>4
<1>4. TypeOK'
  <2>1. queue' = [c \in Clients |-> queue'[c]]
    BY DEF Broadcast
  <2>2. queue' \in [Clients -> Seq(1 .. sent')]
    BY <1>3, <2>1
  <2>3. got' \in [Clients -> Seq(1 .. sent')]
    BY <1>1, <1>3 DEF TypeOK
  <2>4. since' \in [Clients -> 0 .. sent']
    BY <1>1, <1>3 DEF TypeOK
  <2> QED
    BY <1>1, <1>3, <2>2, <2>3, <2>4 DEF TypeOK
<1>5. AwakeWhileWatched'
  BY <1>1 DEF AwakeWhileWatched
<1> QED
  BY <1>3, <1>4, <1>5

\* A delivery keeps it.
LEMMA DeliverKeepsIInv ==
    ASSUME IInv, NEW c \in Clients, Deliver(c)
    PROVE  IInv'
<1> USE DEF IInv
<1>1. /\ sent \in Nat /\ since[c] \in Nat
      /\ got[c] \in Seq(1 .. sent) /\ queue[c] \in Seq(1 .. sent)
      /\ queue[c] # << >> /\ phase[c] = "streaming"
      /\ Counts(got[c], since[c]) /\ Counts(queue[c], since[c] + Len(got[c]))
  BY DEF Deliver, TypeOK, Gapless
<1>2. /\ UNCHANGED <<phase, gone, subs, since, sent, hooks>>
      /\ got'[c] = Append(got[c], Head(queue[c])) /\ queue'[c] = Tail(queue[c])
      /\ \A d \in Clients : d # c => got'[d] = got[d] /\ queue'[d] = queue[d]
      /\ got' = [d \in Clients |-> got'[d]] /\ queue' = [d \in Clients |-> queue'[d]]
  BY DEF Deliver, TypeOK
<1>3. /\ got'[c] \in Seq(1 .. sent) /\ queue'[c] \in Seq(1 .. sent)
      /\ Counts(got'[c], since[c]) /\ Counts(queue'[c], since[c] + Len(got'[c]))
      /\ since[c] + Len(got'[c]) + Len(queue'[c]) = since[c] + Len(got[c]) + Len(queue[c])
      /\ Len(queue'[c]) <= Len(queue[c])
  <2>1. /\ Append(got[c], Head(queue[c])) \in Seq(1 .. sent) /\ Tail(queue[c]) \in Seq(1 .. sent)
        /\ Counts(Append(got[c], Head(queue[c])), since[c])
        /\ Counts(Tail(queue[c]), since[c] + Len(Append(got[c], Head(queue[c]))))
        /\ since[c] + Len(Append(got[c], Head(queue[c]))) + Len(Tail(queue[c]))
             = since[c] + Len(got[c]) + Len(queue[c])
        /\ Len(Tail(queue[c])) <= Len(queue[c])
    BY <1>1, Moved
  <2> QED
    BY <1>2, <2>1
<1>4. TypeOK'
  <2>1. ASSUME NEW d \in Clients
        PROVE  got'[d] \in Seq(1 .. sent) /\ queue'[d] \in Seq(1 .. sent)
    BY <1>2, <1>3 DEF TypeOK
  <2>2. got' \in [Clients -> Seq(1 .. sent)] /\ queue' \in [Clients -> Seq(1 .. sent)]
    BY <1>2, <2>1
  <2>3. Len(queue'[c]) <= QMax
    <3>1. Len(queue[c]) <= QMax /\ QMax \in Nat
      BY BrokerAssumption DEF TypeOK, BrokerAssumption
    <3>2. Len(queue[c]) \in Nat /\ Len(queue'[c]) \in Nat
      BY <1>1, <1>3, LenProperties
    <3> QED
      BY <1>3, <3>1, <3>2
  <2>4. \A d \in Clients : Len(queue'[d]) <= QMax
    BY <1>2, <2>3 DEF TypeOK
  <2> QED
    BY <1>2, <2>2, <2>4 DEF TypeOK
<1>5. Gapless(c)'
  <2>1. c \in subs => since[c] + Len(got[c]) + Len(queue[c]) = sent
    BY DEF Gapless
  <2> QED
    BY <1>2, <1>3, <2>1 DEF Gapless
<1>6. \A d \in Clients : (d # c => Gapless(d)') /\ Fresh(d)'
  BY <1>1, <1>2 DEF Gapless, Fresh
<1>7. AwakeWhileWatched'
  BY <1>2 DEF AwakeWhileWatched
<1> QED
  BY <1>4, <1>5, <1>6, <1>7

\* Every step keeps it.
LEMMA NextKeepsIInv == IInv /\ [Next]_vars => IInv'
<1> SUFFICES ASSUME IInv, [Next]_vars
             PROVE  IInv'
  OBVIOUS
<1> USE DEF IInv
<1>1. CASE Broadcast
  BY <1>1, BroadcastKeepsIInv
<1>2. ASSUME NEW c \in Clients, Open(c)
      PROVE  IInv'
  <2>1. AwakeWhileWatched' /\ hooks' \in Seq({"wake", "sleep"})
    BY <1>2, HooksAreWoken DEF Open
  <2>2. TypeOK'
    BY <1>2, <2>1 DEF Open, Subscribe, TypeOK, Phases
  <2>3. \A d \in Clients : Gapless(d)' /\ Fresh(d)'
    <3>1. /\ phase[c] = "new" /\ phase' = [phase EXCEPT ![c] = "opened"]
          /\ since' = [since EXCEPT ![c] = sent] /\ subs' = subs \union {c}
          /\ UNCHANGED <<queue, got, sent>> /\ sent \in Nat
      BY <1>2 DEF Open, Subscribe, TypeOK
    <3>2. got[c] = << >> /\ queue[c] = << >> /\ since'[c] = sent /\ phase'[c] = "opened"
      BY <3>1 DEF TypeOK, Fresh
    <3>3. Gapless(c)' /\ Fresh(c)'
      BY <3>1, <3>2 DEF Gapless, Fresh, Counts
    <3>4. ASSUME NEW d \in Clients, d # c
          PROVE  Gapless(d)' /\ Fresh(d)'
      BY <3>1, <3>4 DEF TypeOK, Gapless, Fresh
    <3> QED
      BY <3>3, <3>4
  <2> QED
    BY <2>1, <2>2, <2>3
<1>3. ASSUME NEW c \in Clients, Ping(c) \/ EnterLoop(c) \/ Abandon(c) \/ Disconnect(c)
      PROVE  IInv'
  <2>1. /\ UNCHANGED <<subs, queue, got, since, sent, hooks>>
        /\ phase' \in [Clients -> Phases] /\ gone' \subseteq Clients
        /\ \A d \in Clients : phase'[d] = "new" => phase[d] = "new"
    BY <1>3 DEF Ping, EnterLoop, Abandon, Disconnect, TypeOK, Phases
  <2> QED
    BY <2>1 DEF TypeOK, Gapless, Fresh, AwakeWhileWatched
<1>4. ASSUME NEW c \in Clients, Deliver(c)
      PROVE  IInv'
  BY <1>4, DeliverKeepsIInv
<1>5. ASSUME NEW c \in Clients, Leave(c)
      PROVE  IInv'
  <2>1. AwakeWhileWatched' /\ hooks' \in Seq({"wake", "sleep"})
    BY <1>5, HooksStayAwake DEF Leave
  <2>2. TypeOK'
    BY <1>5, <2>1 DEF Leave, Unsubscribe, TypeOK, Phases
  <2>3. \A d \in Clients : Gapless(d)' /\ Fresh(d)'
    BY <1>5 DEF Leave, Unsubscribe, TypeOK, Gapless, Fresh
  <2> QED
    BY <2>1, <2>2, <2>3
<1>6. CASE UNCHANGED vars
  BY <1>6 DEF vars, TypeOK, Gapless, Fresh, AwakeWhileWatched
<1> QED
  BY <1>1, <1>2, <1>3, <1>4, <1>5, <1>6 DEF Next, Serve

\* Every reachable state satisfies the invariant.
THEOREM Inductive == Spec => []IInv
<1>1. Init => IInv
  BY InitIInv
<1>2. IInv /\ [Next]_vars => IInv'
  BY NextKeepsIInv
<1> QED
  BY <1>1, <1>2, PTL DEF Spec

\* No queue ever holds more than its size.
THEOREM TypeCorrect == Spec => []TypeOK
<1>1. IInv => TypeOK
  BY DEF IInv
<1> QED
  BY <1>1, Inductive, PTL

\* What a client has been sent and what waits for it are, in order and without a
\* gap, the events since it subscribed.
THEOREM StreamIsGapless == Spec => []NothingSkipped
<1>1. ASSUME IInv
      PROVE  NothingSkipped
  <2>1. ASSUME NEW c \in Clients
        PROVE  /\ Counts(got[c] \o queue[c], since[c])
               /\ c \in subs => since[c] + Len(got[c] \o queue[c]) = sent
    <3>1. /\ got[c] \in Seq(1 .. sent) /\ queue[c] \in Seq(1 .. sent)
          /\ since[c] \in Nat /\ sent \in Nat
          /\ Counts(got[c], since[c]) /\ Counts(queue[c], since[c] + Len(got[c]))
      BY <1>1 DEF IInv, TypeOK, Gapless
    <3>2. /\ since[c] + Len(got[c] \o queue[c]) = since[c] + Len(got[c]) + Len(queue[c])
          /\ Counts(got[c] \o queue[c], since[c])
      BY <3>1, Joined
    <3>3. c \in subs => since[c] + Len(got[c]) + Len(queue[c]) = sent
      BY <1>1 DEF IInv, Gapless
    <3> QED
      BY <3>2, <3>3
  <2> QED
    BY <2>1 DEF NothingSkipped, Counts
<1> QED
  BY <1>1, Inductive, PTL

\* While anyone is subscribed, the wake hook was the last one called; a stream that a
\* broadcast has discarded, and that still goes on, is not subscribed.
THEOREM WatchedIsAwake == Spec => []AwakeWhileWatched
<1>1. IInv => AwakeWhileWatched
  BY DEF IInv
<1> QED
  BY <1>1, Inductive, PTL

-----------------------------------------------------------------------------
(* The other end of the stream: the hooks of a page (LiveData).              *)

\* What the hook knows of its connections and timers is what there is of them; it has
\* one of the two exactly while the page is looked at.
Counted ==
    /\ live = IF es THEN 1 ELSE 0
    /\ timers = IF timer THEN 1 ELSE 0
Looked ==
    /\ hidden => ~visible
    /\ ~(es /\ timer)
    /\ es \/ timer <=> ~(hidden \/ stopped)
OneLink == Counted /\ Looked

\* What every step of the hook does to what it knows.
LEMMA StepKeepsLooked == Looked /\ [PageNext]_pageVars => Looked'
<1> SUFFICES ASSUME Looked, [PageNext]_pageVars
             PROVE  Looked'
  OBVIOUS
<1> USE Zenon DEF Looked
<1>1. CASE OnOpen
  BY <1>1 DEF OnOpen
<1>2. CASE OnError
  BY <1>2 DEF OnError, Closed
<1>3. CASE Reconnect
  BY <1>3 DEF Reconnect, Connect
<1>4. CASE Hide
  BY <1>4 DEF Hide, TimerCleared, Closed
<1>5. CASE Show
  BY <1>5 DEF Show, Connect
<1>6. CASE Unmount
  BY <1>6 DEF Unmount, TimerCleared, Closed
<1>7. CASE OnEvent \/ Change
  <2>1. UNCHANGED <<visible, hidden, stopped, es, live, timer, timers>>
    BY <1>7, SMT DEF OnEvent, Change
  <2> QED
    BY <2>1
<1>8. CASE UNCHANGED conn
  BY <1>8 DEF conn
<1>9. CASE \/ Coalesced \/ Edit
           \/ \E t \in Tiers : Poll(t) \/ Read(t) \/ Succeed(t) \/ Fail(t)
  BY <1>8, <1>9 DEF Coalesced, Edit, Poll, Read, Succeed, Fail
<1> QED
  BY <1>1, <1>2, <1>3, <1>4, <1>5, <1>6, <1>7, <1>8, <1>9 DEF PageNext, pageVars

\* Every step of the page keeps both.  No connection is opened beside another and no
\* timer set beside another: that is Looked, before the step.
LEMMA StepKeepsOneLink == OneLink /\ [PageNext]_pageVars => OneLink'
<1> SUFFICES ASSUME Counted, Looked, [PageNext]_pageVars
             PROVE  Counted'
  BY StepKeepsLooked DEF OneLink
<1>0. 0 + 1 = 1 /\ 1 - 1 = 0 /\ ~(0 > 0)
  OBVIOUS
<1> USE Zenon DEF Counted, Looked
<1>1. CASE OnOpen
  BY <1>1 DEF OnOpen
<1>2. CASE OnError
  BY <1>0, <1>2 DEF OnError, Closed
<1>3. CASE Reconnect
  BY <1>0, <1>3 DEF Reconnect, Connect
<1>4. CASE Hide
  BY <1>0, <1>4 DEF Hide, TimerCleared, Closed
<1>5. CASE Show
  BY <1>0, <1>5 DEF Show, Connect
<1>6. CASE Unmount
  BY <1>0, <1>6 DEF Unmount, TimerCleared, Closed
<1>7. CASE OnEvent \/ Change
  <2>1. UNCHANGED <<visible, hidden, stopped, es, live, timer, timers>>
    BY <1>7, SMT DEF OnEvent, Change
  <2> QED
    BY <2>1
<1>8. CASE UNCHANGED conn
  BY <1>8 DEF conn
<1>9. CASE \/ Coalesced \/ Edit
           \/ \E t \in Tiers : Poll(t) \/ Read(t) \/ Succeed(t) \/ Fail(t)
  BY <1>8, <1>9 DEF Coalesced, Edit, Poll, Read, Succeed, Fail
<1> QED
  BY <1>1, <1>2, <1>3, <1>4, <1>5, <1>6, <1>7, <1>8, <1>9 DEF PageNext, pageVars

\* Hidden, shown, failing, left in any order: one connection or one reconnect while the
\* page is looked at, and none of either otherwise.
THEOREM OneConnection == PageSpec => []ConnectionMatches
<1>1. PageInit => OneLink
  BY Zenon DEF PageInit, OneLink, Counted, Looked
<1>2. ASSUME OneLink PROVE ConnectionMatches
  <2>0. 0 + 0 = 0 /\ 0 + 1 = 1 /\ 1 + 0 = 1
    OBVIOUS
  <2> QED
    BY <1>2, <2>0, Zenon DEF OneLink, Counted, Looked, ConnectionMatches
<1> QED
  BY <1>1, <1>2, StepKeepsOneLink, PTL DEF PageSpec

\* What a tier shows is no newer than what its fetch has read, nor that than the server.
Ordered ==
    /\ version \in Nat
    /\ shown \in [Tiers -> Nat]
    /\ fetch \in [Tiers -> [at : {"idle", "sent", "read"}, version : Nat]]
    /\ \A t \in Tiers :
        /\ shown[t] <= version
        /\ fetch[t].at = "read" => shown[t] <= fetch[t].version /\ fetch[t].version <= version

\* A fetch that begins has read nothing yet.
LEMMA BegunIsOrdered ==
    ASSUME Ordered, NEW t \in Tiers, fetch' = Begun(t),
           UNCHANGED shown, version' \in Nat, version' >= version
    PROVE  Ordered'
<1>1. fetch' \in [Tiers -> [at : {"idle", "sent", "read"}, version : Nat]]
  BY DEF Ordered, Begun, Sent
<1>2. ASSUME NEW u \in Tiers
      PROVE  fetch'[u] = fetch[u] \/ fetch'[u].at = "sent"
  BY DEF Ordered, Begun, Sent
<1> QED
  BY <1>1, <1>2 DEF Ordered

\* Nor does one that has ended hold anything.
LEMMA EndedIsOrdered ==
    ASSUME Ordered, NEW t \in Tiers, NEW ok \in BOOLEAN, Ended(t, ok),
           UNCHANGED version, shown' \in [Tiers -> Nat],
           \A u \in Tiers : shown'[u] <= version /\ (u # t => shown'[u] = shown[u])
    PROVE  Ordered'
<1>1. fetch' \in [Tiers -> [at : {"idle", "sent", "read"}, version : Nat]]
  BY DEF Ordered, Ended, Cleared, Sent, Idle, Tiers
<1>2. ASSUME NEW u \in Tiers
      PROVE  \/ u # t /\ fetch'[u] = fetch[u]
             \/ fetch'[u].at \in {"idle", "sent"}
  BY DEF Ordered, Ended, Cleared, Sent, Idle, Tiers
<1> QED
  BY <1>1, <1>2 DEF Ordered

\* Every step keeps the order, and moves what is shown forward only.
LEMMA StepKeepsOrder ==
    Ordered /\ [PageNext]_pageVars
        => Ordered' /\ (\A t \in Tiers : shown'[t] >= shown[t])
<1> SUFFICES ASSUME Ordered, [PageNext]_pageVars
             PROVE  Ordered' /\ (\A t \in Tiers : shown'[t] >= shown[t])
  OBVIOUS
<1>1. ASSUME UNCHANGED <<fetch, shown, version>>
      PROVE  Ordered' /\ (\A t \in Tiers : shown'[t] >= shown[t])
  BY <1>1 DEF Ordered
<1>2. ASSUME NEW t \in Tiers, fetch' = Begun(t), UNCHANGED shown,
             version' = version \/ version' = version + 1
      PROVE  Ordered' /\ (\A u \in Tiers : shown'[u] >= shown[u])
  <2>1. version' \in Nat /\ version' >= version
    BY <1>2 DEF Ordered
  <2>2. \A u \in Tiers : shown'[u] >= shown[u]
    BY <1>2 DEF Ordered
  <2> QED
    BY <1>2, <2>1, <2>2, BegunIsOrdered
<1>3. CASE \/ OnOpen \/ OnError \/ Reconnect \/ Hide \/ Show
           \/ Unmount \/ OnEvent \/ UNCHANGED pageVars
  <2>1. UNCHANGED <<fetch, shown, version>>
    BY <1>3, SMT DEF OnOpen, OnError, Reconnect, Hide, Show,
       Unmount, OnEvent, data, pageVars
  <2> QED
    BY <1>1, <2>1
<1>4. CASE Coalesced
  BY <1>2, <1>4 DEF Coalesced, Tiers
<1>5. CASE Edit
  BY <1>2, <1>5 DEF Edit, Tiers
<1>6. ASSUME NEW t \in Tiers, Poll(t)
      PROVE  Ordered' /\ (\A u \in Tiers : shown'[u] >= shown[u])
  BY <1>2, <1>6 DEF Poll
<1>7. ASSUME NEW t \in Tiers, Read(t)
      PROVE  Ordered' /\ (\A u \in Tiers : shown'[u] >= shown[u])
  BY <1>7 DEF Read, Ordered
<1>8. ASSUME NEW t \in Tiers, Succeed(t)
      PROVE  Ordered' /\ (\A u \in Tiers : shown'[u] >= shown[u])
  <2>1. /\ shown' \in [Tiers -> Nat]
        /\ shown[t] <= shown'[t] /\ shown'[t] <= version
        /\ \A u \in Tiers : u # t => shown'[u] = shown[u]
    BY <1>8 DEF Succeed, Ordered
  <2>2. \A u \in Tiers : shown'[u] <= version /\ (u # t => shown'[u] = shown[u])
    BY <2>1 DEF Ordered
  <2>3. Ordered'
    BY <1>8, <2>1, <2>2, EndedIsOrdered DEF Succeed
  <2> QED
    BY <2>1, <2>3 DEF Ordered
<1>9. ASSUME NEW t \in Tiers, Fail(t)
      PROVE  Ordered' /\ (\A u \in Tiers : shown'[u] >= shown[u])
  <2>1. Ordered'
    BY <1>9, EndedIsOrdered DEF Fail, Ordered
  <2> QED
    BY <1>9, <2>1 DEF Fail, Ordered
<1>10. CASE Change
  BY <1>10 DEF Change, Ordered
<1> QED
  BY <1>3, <1>4, <1>5, <1>6, <1>7, <1>8, <1>9, <1>10 DEF PageNext

\* Joined fetches, failing ones and edits included: no tier goes back to an older answer.
THEOREM ScreenNeverGoesBack == PageSpec => NeverGoesBack
<1>1. PageInit => Ordered
  BY DEF PageInit, Ordered, Sent
<1> QED
  BY <1>1, StepKeepsOrder, PTL DEF PageSpec, NeverGoesBack

=============================================================================
