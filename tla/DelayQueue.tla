----------------------------- MODULE DelayQueue ------------------------------
(***************************************************************************)
(* DelayQueue and its async form: a sorted set of payloads scored by the   *)
(* time they are due, which put() adds to and poll() removes from, each in *)
(* one script by the server's clock.  A payload has an id of its own, so a *)
(* put that redis-py sends again moves its score, or adds it again if a    *)
(* poll has taken it in between.                                           *)
(***************************************************************************)
EXTENDS Functions, FiniteSetsExt, Integers

CONSTANTS
    Items,
    Delays,      \* the values of put's delay, in ticks
    PollCount,   \* poll's count
    MaxSends     \* bound: executions of one item's put

DelayQueueAssumption ==
    /\ Delays \subseteq Nat /\ \E n \in Delays : \A m \in Delays : m <= n
    /\ PollCount \in Nat \ {0} /\ MaxSends \in Nat

VARIABLES
    due,       \* the sorted set: the ticks until each payload is due
    delays,    \* the delay each item was put with
    sends,     \* executions of each item's put
    sending,   \* items whose put has no answer yet
    given,     \* history: how often each item was returned by a poll
    dropped,   \* history: how often it was in a reply that was lost
    early      \* history: items returned before their delay since the last put

vars == <<due, delays, sends, sending, given, dropped, early>>

Longest == Max(Delays \cup {0})

TypeOK ==
    /\ DOMAIN due \subseteq Items /\ due \in [DOMAIN due -> -Longest .. Longest]
    /\ delays \in [Items -> Delays] /\ sends \in [Items -> 0 .. MaxSends]
    /\ sending \subseteq Items
    /\ given \in [Items -> 0 .. MaxSends] /\ dropped \in [Items -> 0 .. MaxSends]
    /\ early \subseteq Items

Init ==
    /\ due = <<>>
    /\ delays = [i \in Items |-> Min(Delays)]
    /\ sends = [i \in Items |-> 0] /\ sending = {}
    /\ given = [i \in Items |-> 0] /\ dropped = [i \in Items |-> 0]
    /\ early = {}

\* ZADD with the present time and the delay.
Execute(i, delay) ==
    /\ sends[i] < MaxSends /\ sends' = [sends EXCEPT ![i] = @ + 1]
    /\ delays' = [delays EXCEPT ![i] = delay]
    /\ due' = [j \in DOMAIN due \cup {i} |-> IF j = i THEN delay ELSE due[j]]
    /\ UNCHANGED <<given, dropped, early>>

MayPut(i, delay) == sends[i] = 0 \/ (i \in sending /\ delay = delays[i])

Put(i, delay) ==
    /\ MayPut(i, delay)
    /\ Execute(i, delay)
    /\ sending' = sending \ {i}

\* The reply is lost: the caller sends the command again, or raises the error.
PutUnheard(i, delay) ==
    /\ MayPut(i, delay)
    /\ Execute(i, delay)
    /\ sending' = sending \cup {i}

PutFails(i) ==
    /\ i \in sending
    /\ sending' = sending \ {i}
    /\ UNCHANGED <<due, delays, sends, given, dropped, early>>

IsDue(i) == due[i] <= 0

\* Mutant: what was found stays in the set.
KeepAll(T) == due' = due

\* ZREM of what was found.
Remove(T) == due' = Restrict(due, DOMAIN due \ T)

\* The first PollCount of the due items; Redis orders those with the same score by
\* their payload, which stands for any order.
Batches ==
    LET ready == {i \in DOMAIN due : IsDue(i)}
        size == Min({PollCount, Cardinality(ready)})
    IN {T \in kSubset(size, ready) : \A i \in T, j \in ready \ T : due[i] <= due[j]}

Counted(f, T) == [i \in Items |-> IF i \in T THEN f[i] + 1 ELSE f[i]]

Poll ==
    \E T \in Batches :
        /\ T # {}
        /\ Remove(T)
        /\ given' = Counted(given, T)
        /\ early' = early \cup {i \in T : due[i] > 0}
        /\ UNCHANGED <<delays, sends, sending, dropped>>

\* The items of a reply that is lost are gone.
PollUnheard ==
    \E T \in Batches :
        /\ T # {}
        /\ Remove(T)
        /\ dropped' = Counted(dropped, T)
        /\ UNCHANGED <<delays, sends, sending, given, early>>

\* The set expires never.
Tick ==
    /\ due' = [i \in DOMAIN due |-> Max({due[i] - 1, -Longest})]
    /\ UNCHANGED <<delays, sends, sending, given, dropped, early>>

Next ==
    \/ \E i \in Items : PutFails(i) \/ \E delay \in Delays : Put(i, delay) \/ PutUnheard(i, delay)
    \/ Poll \/ PollUnheard
    \/ Tick

Spec == Init /\ [][Next]_vars

----------------------------------------------------------------------------
(* Properties *)

\* Each execution of a put leaves one item to one poll at most, and none without a
\* trace: an item is returned twice only if its put was sent twice, and is missing only
\* if a poll's reply was lost; none is returned before its delay is over.
ItemsAccountedFor ==
    /\ early = {}
    /\ \A i \in Items :
        LET polled == given[i] + dropped[i]
            stored == IF i \in DOMAIN due THEN 1 ELSE 0
        IN polled + stored <= sends[i] /\ (sends[i] > 0 => polled + stored >= 1)
=============================================================================
