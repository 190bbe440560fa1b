------------------------------- MODULE PubSub --------------------------------
(***************************************************************************)
(* One PubSub or AsyncPubSub object: a listener that runs listen(), and    *)
(* callers that subscribe, unsubscribe, stop or close in other threads, or *)
(* in other tasks of the loop between two awaits.  The connection keeps    *)
(* channels and patterns apart; the object has one table of handlers for   *)
(* both, and an unsubscribe() that only sends UNSUBSCRIBE: a name may be   *)
(* that of a channel, of a pattern, or of both.                            *)
(***************************************************************************)
EXTENDS FiniteSets, Naturals

CONSTANTS Channels, Callers, NoChannel

PubSubAssumption == NoChannel \notin Channels

VARIABLES
    running,      \* the flag or event _running
    listener,     \* where the listener is
    stopping,     \* history: a stop() that listen() cannot undo has been called
    handlers,     \* the names that have a handler
    subscribed,   \* the channels that the connection is subscribed to
    patterns,     \* the patterns that it is subscribed to
    calls,        \* the call under way in each caller
    crossed,      \* history: names for which an unsubscribe() overlapped a subscribe()
                  \* or psubscribe()
    unsubscribed  \* history: names whose last call was an unsubscribe()

vars == <<running, listener, stopping, handlers, subscribed, patterns, calls, crossed,
          unsubscribed>>
listening == <<running, listener, stopping>>
subscribing == <<handlers, subscribed, patterns, calls, crossed, unsubscribed>>

Subscriptions == {"subscribe", "psubscribe"}
NoCall == [op |-> "none", channel |-> NoChannel]

TypeOK ==
    /\ running \in BOOLEAN /\ stopping \in BOOLEAN
    /\ listener \in {"out", "called", "polling", "waiting", "handling"}
    /\ stopping => listener \in {"polling", "waiting", "handling"} /\ ~running
    /\ handlers \subseteq Channels /\ subscribed \subseteq Channels
    /\ patterns \subseteq Channels
    /\ crossed \subseteq Channels /\ unsubscribed \subseteq Channels
    /\ calls \in [Callers -> {NoCall} \cup
            [op : Subscriptions \cup {"unsubscribe"}, channel : Channels]]

Init ==
    /\ running = TRUE /\ listener = "out" /\ stopping = FALSE
    /\ handlers = {} /\ subscribed = {} /\ patterns = {}
    /\ crossed = {} /\ unsubscribed = {}
    /\ calls = [c \in Callers |-> NoCall]

----------------------------------------------------------------------------
(* The listener *)

Listen ==
    /\ listener = "out" /\ listener' = "called"
    /\ UNCHANGED <<running, stopping, subscribing>>

\* The first line of listen() sets the flag.
BeginPolling ==
    /\ listener = "called" /\ listener' = "polling"
    /\ running' = TRUE
    /\ UNCHANGED <<stopping, subscribing>>

End == listener' = "out" /\ stopping' = FALSE

\* The head of the loop.
TestFlag ==
    /\ listener = "polling"
    /\ IF running THEN listener' = "waiting" /\ UNCHANGED stopping ELSE End
    /\ UNCHANGED <<running, subscribing>>

\* get_message() returns, after its timeout at most: a message that has a handler, or
\* none, or one without a handler, which is dropped.
Poll ==
    /\ listener = "waiting"
    /\ \/ listener' = "handling" /\ handlers \cap (subscribed \cup patterns) # {}
       \/ listener' = "polling"
    /\ UNCHANGED <<running, stopping, subscribing>>

\* An error of get_message() leaves listen().
PollFails ==
    /\ listener = "waiting"
    /\ End
    /\ UNCHANGED <<running, subscribing>>

\* Mutant: the flag is not looked at as long as messages come.
HandledOn ==
    /\ listener = "handling" /\ listener' = "waiting"
    /\ UNCHANGED <<running, stopping, subscribing>>

\* The handler returns; its exception is logged.
Handled ==
    /\ listener = "handling" /\ listener' = "polling"
    /\ UNCHANGED <<running, stopping, subscribing>>

----------------------------------------------------------------------------
(* The callers *)

Within == listener \in {"polling", "waiting", "handling"}

Stop ==
    /\ running' = FALSE
    /\ stopping' = (stopping \/ Within)
    /\ UNCHANGED <<listener, subscribing>>

Close ==
    /\ running' = FALSE
    /\ stopping' = (stopping \/ Within)
    /\ subscribed' = {} /\ patterns' = {}
    /\ UNCHANGED <<listener, handlers, calls, crossed, unsubscribed>>

Begin(c, op, ch) ==
    LET meets == \E d \in Callers \ {c} :
                    /\ calls[d].channel = ch
                    /\ (calls[d].op = "unsubscribe") # (op = "unsubscribe")
    IN /\ calls[c] = NoCall
       /\ calls' = [calls EXCEPT ![c] = [op |-> op, channel |-> ch]]
       /\ crossed' = IF meets THEN crossed \cup {ch} ELSE crossed \ {ch}
       /\ unsubscribed' = IF op = "unsubscribe" THEN unsubscribed \cup {ch}
                                                ELSE unsubscribed \ {ch}

\* A call returns, or ends with the error of its command.
Return(c) == calls' = [calls EXCEPT ![c] = NoCall]

\* Mutant: the handler is registered when the subscription is under way.
LateSubscribe(c, op, ch) ==
    /\ Begin(c, op, ch)
    /\ subscribed' = IF op = "subscribe" THEN subscribed \cup {ch} ELSE subscribed
    /\ patterns' = IF op = "psubscribe" THEN patterns \cup {ch} ELSE patterns
    /\ UNCHANGED <<listening, handlers>>

\* subscribe() and psubscribe(): the handler comes first, the command after it.
Subscribe(c, op, ch) ==
    /\ Begin(c, op, ch)
    /\ handlers' = handlers \cup {ch}
    /\ UNCHANGED <<listening, subscribed, patterns>>

SendSubscribe(c) ==
    /\ calls[c].op = "subscribe"
    /\ Return(c)
    /\ subscribed' \in {subscribed, subscribed \cup {calls[c].channel}}
    /\ UNCHANGED <<listening, handlers, patterns, crossed, unsubscribed>>

SendPsubscribe(c) ==
    /\ calls[c].op = "psubscribe"
    /\ Return(c)
    /\ patterns' \in {patterns, patterns \cup {calls[c].channel}}
    /\ UNCHANGED <<listening, handlers, subscribed, crossed, unsubscribed>>

\* The command comes first: UNSUBSCRIBE, which leaves a pattern of that name alone.
Unsubscribe(c, ch) ==
    /\ Begin(c, "unsubscribe", ch)
    /\ subscribed' = subscribed \ {ch}
    /\ UNCHANGED <<listening, handlers, patterns>>

\* The handler goes when the command has succeeded, whatever it was registered for.
PopHandler(c) ==
    /\ calls[c].op = "unsubscribe"
    /\ Return(c)
    /\ handlers' = handlers \ {calls[c].channel}
    /\ UNCHANGED <<listening, subscribed, patterns, crossed, unsubscribed>>

\* The command's error leaves the handler where it is.
UnsubscribeFails(ch) ==
    /\ subscribed' \in {subscribed, subscribed \ {ch}}
    /\ UNCHANGED <<listening, handlers, patterns, calls, crossed, unsubscribed>>

Next ==
    \/ Listen \/ BeginPolling \/ TestFlag \/ Poll \/ PollFails \/ Handled
    \/ Stop \/ Close
    \/ \E c \in Callers :
        \/ \E ch \in Channels :
            (\E op \in Subscriptions : Subscribe(c, op, ch)) \/ Unsubscribe(c, ch)
        \/ SendSubscribe(c) \/ SendPsubscribe(c) \/ PopHandler(c)
    \/ \E ch \in Channels : UnsubscribeFails(ch)

\* The listener's thread runs, get_message() has a timeout, and a handler returns.
ListenerRuns == TestFlag \/ Poll \/ Handled

Spec == Init /\ [][Next]_vars /\ WF_vars(ListenerRuns)

----------------------------------------------------------------------------
(* Properties *)

\* A stop() or close() that comes after listen() has set its flag ends it, even if
\* messages never cease: one that comes before that line is undone by it.
StopEndsListening == stopping ~> listener = "out"

\* No message of a subscribed channel or pattern finds no handler and is dropped, but
\* for two cases in which the code does drop it: an unsubscribe() overlapped a
\* subscribe() or psubscribe() of the name, whose handler its end removes; or the name
\* is that of a pattern and the last call was an unsubscribe(), which takes the handler
\* and leaves the pattern subscribed.
HandlerForEverySubscription ==
    /\ \A ch \in subscribed \ crossed : ch \in handlers
    /\ \A p \in patterns \ (crossed \cup unsubscribed) : p \in handlers
=============================================================================
