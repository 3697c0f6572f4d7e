------------------------------ MODULE LiveData ------------------------------
(***************************************************************************)
(* What a page that shows live data does (frontend/src/hooks): the one     *)
(* EventSource of useSse.ts with its reconnects and pauses, and the two    *)
(* tiers of useDashboard.ts, refreshed by events, by timers and by the     *)
(* user, each with at most one fetch at a time.                            *)
(*                                                                         *)
(* Delays are left out: a pending timer may fire at any time.  The server  *)
(* is a version that grows; a fetch that asks for several documents shows  *)
(* them together, and counts as the version of the first one answered.     *)
(***************************************************************************)
EXTENDS Naturals

CONSTANTS
    MaxVersion,  \* changes on the server
    MaxFailures  \* fetches that fail

ASSUME LiveDataAssumption == {MaxVersion, MaxFailures} \subseteq Nat

VARIABLES
    visible,   \* ~document.hidden
    hidden, stopped,
    es,        \* the variable es holds a connection
    opened,    \* ... which is open: the server has a subscriber
    live,      \* connections not closed, whether or not es holds them
    timer,     \* reconnectTimer holds a timer still to fire
    timers,    \* timers of reconnects still to fire
    event,     \* an event is on its way over the open connection
    coalesce,  \* coalesceRef: the timer of the debounce is running
    fetch,     \* inFlightFastRef, inFlightSlowRef and what they have read
    refreshing,\* refresh() awaits the fast tier
    shown,     \* the version on the screen, per tier
    version,   \* the version of the server's data
    failures

conn == <<visible, hidden, stopped, es, opened, live, timer, timers, event>>
data == <<coalesce, fetch, refreshing, shown, version, failures>>
pageVars == <<conn, data>>

Tiers == {"fast", "slow"}
Versions == 0 .. MaxVersion
Idle == [at |-> "idle", version |-> 0]
Sent == [at |-> "sent", version |-> 0]

\* The hooks of a mounted page; it may be mounted in a hidden tab, and opens
\* its connection there, too.
PageInit ==
    /\ visible \in BOOLEAN
    /\ hidden = FALSE /\ stopped = FALSE
    /\ es = TRUE /\ live = 1
    /\ opened = FALSE /\ event = FALSE
    /\ timer = FALSE /\ timers = 0
    /\ coalesce = FALSE
    /\ fetch = [t \in Tiers |-> Sent]
    /\ refreshing = FALSE
    /\ shown = [t \in Tiers |-> 0]
    /\ version = 0 /\ failures = 0

-----------------------------------------------------------------------------
(* useSse.                                                                  *)

Connect ==
    /\ es' = TRUE
    /\ live' = live + 1

\* es.close(), if es holds one
Closed ==
    /\ es' = FALSE /\ opened' = FALSE /\ event' = FALSE
    /\ live' = IF es THEN live - 1 ELSE live

OnOpen ==
    /\ es /\ ~opened
    /\ opened' = TRUE
    /\ UNCHANGED <<visible, hidden, stopped, es, live, timer, timers, event, data>>

\* Refused, cut, or answered with an error.  No event reaches a closed one.
OnError ==
    /\ es
    /\ Closed
    /\ timer' = TRUE
    /\ timers' = timers + 1
    /\ UNCHANGED <<visible, hidden, stopped, data>>

\* setTimeout(connect, delay)
Reconnect ==
    /\ timers > 0
    /\ timers' = timers - 1
    /\ timer' = FALSE
    /\ IF stopped \/ hidden THEN UNCHANGED <<es, live>> ELSE Connect
    /\ UNCHANGED <<visible, hidden, stopped, opened, event, data>>

\* (mutant) a reconnect that is due is left to run
TimerCleared_Not == UNCHANGED <<timer, timers>>
TimerCleared ==
    /\ timer' = FALSE
    /\ timers' = IF timer THEN timers - 1 ELSE timers

\* onVisibility
Hide ==
    /\ visible /\ ~stopped
    /\ visible' = FALSE
    /\ hidden' = TRUE
    /\ TimerCleared
    /\ Closed
    /\ UNCHANGED <<stopped, data>>

Show ==
    /\ ~visible /\ ~stopped
    /\ visible' = TRUE
    /\ hidden' = FALSE
    /\ IF hidden THEN Connect ELSE UNCHANGED <<es, live>>
    /\ UNCHANGED <<stopped, opened, timer, timers, event, data>>

\* The page is left.  Its intervals end with it, the timer of the debounce and
\* a fetch that is under way do not.
Unmount ==
    /\ ~stopped
    /\ stopped' = TRUE
    /\ TimerCleared
    /\ Closed
    /\ UNCHANGED <<visible, hidden, data>>

-----------------------------------------------------------------------------
(* useDashboard.                                                            *)

\* refreshFast, refreshSlow: a fetch that is under way is joined.
Begun(t) == [fetch EXCEPT ![t] = IF @ = Idle THEN Sent ELSE @]

\* An event restarts the debounce.
OnEvent ==
    /\ event
    /\ event' = FALSE
    /\ coalesce' = TRUE
    /\ UNCHANGED <<visible, hidden, stopped, es, opened, live, timer, timers,
                   fetch, refreshing, shown, version, failures>>

Coalesced ==
    /\ coalesce
    /\ coalesce' = FALSE
    /\ fetch' = Begun("fast")
    /\ UNCHANGED <<conn, refreshing, shown, version, failures>>

\* setInterval, in a hidden tab as well
Poll(t) ==
    /\ ~stopped
    /\ fetch' = Begun(t)
    /\ UNCHANGED <<conn, coalesce, refreshing, shown, version, failures>>

Read(t) ==
    /\ fetch[t] = Sent
    /\ fetch' = [fetch EXCEPT ![t] = [at |-> "read", version |-> version]]
    /\ UNCHANGED <<conn, coalesce, refreshing, shown, version, failures>>

\* (mutant) the reference is cleared only behind a success
Cleared_OnSuccess(t, ok) == IF ok THEN Idle ELSE [fetch[t] EXCEPT !.at = "over"]
\* The finally block: whether it has succeeded or not.
Cleared(t, ok) == Idle

\* A refresh() that awaited the fast tier goes on to the slow one.
Ended(t, ok) ==
    /\ fetch' = LET done == [fetch EXCEPT ![t] = Cleared(t, ok)]
                IN  IF t = "fast" /\ refreshing /\ fetch["slow"] = Idle
                      THEN [done EXCEPT !["slow"] = Sent] ELSE done
    /\ refreshing' = (refreshing /\ t # "fast")

Succeed(t) ==
    /\ fetch[t].at = "read"
    /\ shown' = [shown EXCEPT ![t] = fetch[t].version]
    /\ Ended(t, TRUE)
    /\ UNCHANGED <<conn, coalesce, version, failures>>

Fail(t) ==
    /\ fetch[t] # Idle
    /\ failures < MaxFailures
    /\ failures' = failures + 1
    /\ Ended(t, FALSE)
    /\ UNCHANGED <<conn, coalesce, shown, version>>

-----------------------------------------------------------------------------
(* The server.                                                              *)

\* A probe, or another page's edit; told to those who are subscribed.
Change ==
    /\ version < MaxVersion
    /\ version' = version + 1
    /\ event' = opened
    /\ UNCHANGED <<visible, hidden, stopped, es, opened, live, timer, timers,
                   coalesce, fetch, refreshing, shown, failures>>

\* This page's edit, answered, and then refresh().
Edit ==
    /\ ~stopped
    /\ version < MaxVersion
    /\ version' = version + 1
    /\ fetch' = Begun("fast")
    /\ refreshing' = TRUE
    /\ UNCHANGED <<conn, coalesce, shown, failures>>

PageNext ==
    \/ OnOpen \/ OnError \/ Reconnect \/ Hide \/ Show \/ Unmount
    \/ OnEvent \/ Coalesced
    \/ \E t \in Tiers : Poll(t) \/ Read(t) \/ Succeed(t) \/ Fail(t)
    \/ Change \/ Edit

PageSpec == PageInit /\ [][PageNext]_pageVars

\* Intervals fire as long as the page is there, and a fetch ends.
Fairness ==
    \A t \in Tiers :
        WF_pageVars(Poll(t)) /\ WF_pageVars(Read(t)) /\ WF_pageVars(Succeed(t))
FairPageSpec == PageSpec /\ Fairness

-----------------------------------------------------------------------------
(* Properties.                                                              *)

\* Whatever the order of hiding, showing, failing and leaving: never two
\* connections or a connection and a reconnect, none of either in a tab that has
\* been hidden or left, and always one of them otherwise.
ConnectionMatches ==
    /\ live + timers = IF hidden \/ stopped THEN 0 ELSE 1
    /\ hidden => ~visible

\* Liveness: both tiers of a page that stays come to show whatever the server has
\* come to, without a single event, joined fetches and failing ones included.
EventuallyFresh ==
    \A v \in Versions, t \in Tiers : version >= v ~> (shown[t] >= v \/ stopped)

\* Events, intervals and edits that overlap in any way never bring an older answer
\* back to the screen: each tier has one fetch at a time.
NeverGoesBack == [][\A t \in Tiers : shown'[t] >= shown[t]]_pageVars

-----------------------------------------------------------------------------
(* What the comments say and the code does not do.                          *)

\* useDashboard.ts:90: refresh() is for edits, "where consistency matters", so
\* a fetch that ends it has read what was there when it was called.
EditIsShown == [][refreshing /\ ~refreshing' => shown'["fast"] = version]_pageVars

\* useDashboard.ts:119: the timer starts another refresh.  It may join one that
\* has read already; what the event told of is shown with the next poll only.
EventStartsFetch == [][coalesce /\ ~coalesce' => fetch'["fast"].at # "read"]_pageVars

\* useSse.ts:10: the connection is closed when the tab is hidden.
HiddenMeansClosed == ~visible => live = 0
=============================================================================
