------------------------------- MODULE Toolkit -------------------------------
(***************************************************************************)
(* The smaller components of redis-kit in one specification.  They share   *)
(* neither Redis keys nor Python objects, so a step of one changes nothing *)
(* that another can see: each behaviour moves one of them and leaves the   *)
(* others at rest, which shows every behaviour of each.                    *)
(***************************************************************************)
EXTENDS Integers

CONSTANTS
    Capacity, Costs, Parts, Rate, TicksPerMs, MsPerSecond,  \* TokenBucket
    Members, Limit, Window,                                 \* SlidingWindow
    Items, Delays, PollCount, MaxSends,                     \* DelayQueue
    Ids, Fields, SessionTtl,                                \* Session
    Channels, Listeners, NoChannel,                         \* PubSub
    Callers, Ttls, Jitter, MaxChanges,                      \* CachedFunction
    ThreadsOf, Loops, MaxClients,                           \* Connections
    BloomUsers, OffsetsOf                                   \* BloomFilter

VARIABLES
    active,                                                 \* the component that moves
    bucket, debt, advice,
    phase, scores, unheard, granted, delay,
    due, delays, sends, sending, given, dropped, early,
    hashes, known, deleted, written, idle,
    running, listener, stopping, handlers, subscribed, patterns, subscriptions, crossed,
    unsubscribed,
    current, entry, calls, floor, late,
    open, sync, preset, registry, asking, locked, got, closing,
    adrift,
    bits, probes, present

Bucket == INSTANCE TokenBucket
Sliding == INSTANCE SlidingWindow
Delayed == INSTANCE DelayQueue
Sessions == INSTANCE Session
Messages == INSTANCE PubSub WITH Callers <- Listeners, calls <- subscriptions
Cached == INSTANCE CachedFunction
Clients == INSTANCE Connections
Bloom == INSTANCE BloomFilter WITH Users <- BloomUsers

ASSUME ToolkitAssumption ==
    /\ Bucket!TokenBucketAssumption /\ Sliding!SlidingWindowAssumption
    /\ Delayed!DelayQueueAssumption /\ Sessions!SessionAssumption
    /\ Messages!PubSubAssumption /\ Cached!CachedAssumption
    /\ Clients!ConnectionsAssumption /\ Bloom!BloomAssumption

Components == {"bucket", "window", "delayed", "sessions", "messages", "cached", "clients",
               "bloom"}

bucketVars == <<bucket, debt, advice>>
windowVars == <<phase, scores, unheard, granted, delay>>
delayedVars == <<due, delays, sends, sending, given, dropped, early>>
sessionVars == <<hashes, known, deleted, written, idle>>
messageVars == <<running, listener, stopping, handlers, subscribed, patterns,
                 subscriptions, crossed, unsubscribed>>
cachedVars == <<current, entry, calls, floor, late>>
clientVars == <<open, sync, preset, registry, asking, locked, got, closing, adrift>>
bloomVars == <<bits, probes, present>>
vars == <<active, bucketVars, windowVars, delayedVars, sessionVars, messageVars,
          cachedVars, clientVars, bloomVars>>

\* The types of every component.
TypeOK ==
    /\ active \in Components
    /\ Bucket!TypeOK /\ Sliding!TypeOK /\ Delayed!TypeOK /\ Sessions!TypeOK
    /\ Messages!TypeOK /\ Cached!TypeOK /\ Clients!TypeOK /\ Bloom!TypeOK

Init ==
    /\ active \in Components
    /\ Bucket!Init /\ Sliding!Init /\ Delayed!Init /\ Sessions!Init
    /\ Messages!Init /\ Cached!Init /\ Clients!Init /\ Bloom!Init
    /\ active # "clients" => open = {}

\* It is the turn of this component, and the others stay as they are.
Only(component) ==
    /\ active = component /\ UNCHANGED active
    /\ IF component = "bucket" THEN TRUE ELSE UNCHANGED bucketVars
    /\ IF component = "window" THEN TRUE ELSE UNCHANGED windowVars
    /\ IF component = "delayed" THEN TRUE ELSE UNCHANGED delayedVars
    /\ IF component = "sessions" THEN TRUE ELSE UNCHANGED sessionVars
    /\ IF component = "messages" THEN TRUE ELSE UNCHANGED messageVars
    /\ IF component = "cached" THEN TRUE ELSE UNCHANGED cachedVars
    /\ IF component = "clients" THEN TRUE ELSE UNCHANGED clientVars
    /\ IF component = "bloom" THEN TRUE ELSE UNCHANGED bloomVars

Next ==
    \/ Only("bucket") /\ Bucket!Next
    \/ Only("window") /\ Sliding!Next
    \/ Only("delayed") /\ Delayed!Next
    \/ Only("sessions") /\ Sessions!Next
    \/ Only("messages") /\ Messages!Next
    \/ Only("cached") /\ Cached!Next
    \/ Only("clients") /\ Clients!Next
    \/ Only("bloom") /\ Bloom!Next

Spec == Init /\ [][Next]_vars

(* The listener's thread runs and its handlers return; a cached call ends, and Redis
   lets keys expire. *)
Fairness ==
    /\ WF_vars(Only("messages") /\ Messages!ListenerRuns)
    /\ SF_vars(Only("cached") /\ Cached!Tick)
    /\ \A c \in Callers : WF_vars(Only("cached") /\ Cached!Proceeds(c))

FairSpec == Spec /\ Fairness

----------------------------------------------------------------------------
(* The properties of the components; their own modules say what they mean. *)

\* No more is permitted than the bucket's rate and capacity, or the window's limit, allow.
LimitNeverExceeded == Bucket!LimitNeverExceeded /\ Sliding!LimitNeverExceeded

\* Who waits as long as retry_after says is allowed.
AdviceSuffices == Bucket!AdviceSuffices /\ Sliding!AdviceSuffices

\* Each put leaves its item to one poll at most, in time, and none without a trace.
ItemsAccountedFor == Delayed!ItemsAccountedFor

\* A session lives until it is deleted or idle for the ttl, never again, with all fields.
SessionLifetime == Sessions!SessionLifetime

\* stop() ends listen() once it has begun.
StopEndsListening == Messages!StopEndsListening

\* A message of a subscribed channel or pattern finds its handler.
HandlerForEverySubscription == Messages!HandlerForEverySubscription

\* An invalidated result does not come back, except from a call that was under way.
InvalidationHolds == Cached!InvalidationHolds

\* A stale cached result expires.
StaleEntryExpires == Cached!StaleEntryExpires

\* Event loops do not share clients, threads share one, and none is lost while open.
EveryClientHasItsPlace == Clients!NoClientShared /\ Clients!NoClientLost

\* An item that was added is found, unless a reset came in between.
NoFalseNegative == Bloom!NoFalseNegative
=============================================================================
