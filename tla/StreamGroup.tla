----------------------------- MODULE StreamGroup -----------------------------
(***************************************************************************)
(* A Redis stream with one consumer group: StreamProducer and the          *)
(* StreamConsumers of the group, sync or async.  Entries are numbered in   *)
(* the order in which XADD appended them; the stream holds a suffix of     *)
(* them.  Whom a pending entry names as its consumer is read by pending()  *)
(* alone and left out, as is pending(), which changes nothing.             *)
(*                                                                         *)
(* A consumer handles what it was given one by one, the oldest first.      *)
(* listen() acknowledges with auto_ack when the next message is asked for; *)
(* claim_stale() never does, whatever auto_ack says: its caller does.      *)
(***************************************************************************)
EXTENDS Integers, FiniteSetsExt, Functions

CONSTANTS
    Consumers,
    AutoAck,      \* the consumers built with auto_ack
    StartIds,     \* ensure_group's start_id: "0" the whole stream, "$" what comes
    MaxLen,       \* maxlen of XADD and of trim()
    Count,        \* count of listen()
    ClaimCount,   \* count of claim_stale()
    Scan,         \* the pending entries that XAUTOCLAIM looks at: ten times its count
    MinIdle,      \* min_idle_ms, in ticks
    MaxEntries,   \* bound: XADDs
    MaxFaults,    \* bound: lost replies, failed handlers, kills
    MaxGroups     \* bound: creations of the group

ASSUME StreamAssumption ==
    /\ AutoAck \subseteq Consumers /\ StartIds \subseteq {"0", "$"}
    /\ MaxLen \in Nat \ {0} /\ Count \in Nat \ {0} /\ ClaimCount \in Nat \ {0}
    /\ Scan \in Nat \ {0} /\ MinIdle \in Nat
    /\ MaxEntries \in Nat /\ MaxFaults \in Nat /\ MaxGroups \in Nat

VARIABLES
    added,      \* the last entry of the stream
    first,      \* the oldest entry that was not trimmed
    exists,     \* the group exists
    last,       \* its last delivered entry
    pending,    \* its pending entries, each with its idle time
    hands,      \* the messages each consumer was given and has not left behind
    groups, faults,
    handled     \* history: the entries of which a handler has come to its end

vars == <<added, first, exists, last, pending, hands, groups, faults, handled>>
stream == <<added, first>>
group == <<exists, last, pending, groups>>

Entries == 1 .. MaxEntries
Ages(S) == [S -> 0 .. MinIdle]
EmptyHands == [how |-> "none", ages |-> <<>>, done |-> FALSE, group |-> 0]

\* What a consumer has in hand it got from listen() or claim_stale().
HandsTyped ==
    \A c \in Consumers :
        \/ hands[c] = EmptyHands
        \/ /\ hands[c].how \in {"listen", "claim"} /\ hands[c].done \in BOOLEAN
           /\ DOMAIN hands[c].ages \in (SUBSET (1 .. added)) \ {{}}
           /\ hands[c].ages \in Ages(DOMAIN hands[c].ages)
           /\ hands[c].group \in 1 .. groups

\* Types; the group has delivered what is pending.
TypeOK ==
    /\ added \in 0 .. MaxEntries /\ first \in 1 .. added + 1
    /\ exists \in BOOLEAN /\ last \in 0 .. added
    /\ DOMAIN pending \subseteq 1 .. last /\ pending \in Ages(DOMAIN pending)
    /\ HandsTyped
    /\ groups \in 0 .. MaxGroups /\ faults \in 0 .. MaxFaults
    /\ handled \subseteq 1 .. added

Init ==
    /\ added = 0 /\ first = 1
    /\ exists = FALSE /\ last = 0 /\ pending = <<>>
    /\ hands = [c \in Consumers |-> EmptyHands]
    /\ groups = 0 /\ faults = 0 /\ handled = {}

Fault == faults < MaxFaults /\ faults' = faults + 1

----------------------------------------------------------------------------
(* The producer *)

\* MAXLEN ~: whole nodes of the oldest entries go, and at least MaxLen stay.
Trimmed(n) == first' \in first .. Max({first, n - MaxLen + 1})

\* An XADD that redis-py sends again appends a second entry.
Add ==
    /\ added < MaxEntries
    /\ added' = added + 1
    /\ Trimmed(added')
    /\ UNCHANGED <<group, hands, faults, handled>>

Trim ==
    /\ Trimmed(added)
    /\ UNCHANGED <<added, group, hands, faults, handled>>

----------------------------------------------------------------------------
(* The group *)

\* Mutant: the new group keeps the pending entries that the old one had.
DestroyGroupOnly ==
    /\ exists
    /\ exists' = FALSE /\ last' = 0
    /\ UNCHANGED <<stream, pending, groups, hands, faults, handled>>

\* BUSYGROUP is ignored: a group that exists stays as it is.
EnsureGroup ==
    /\ ~exists /\ groups < MaxGroups
    /\ exists' = TRUE /\ groups' = groups + 1
    /\ \E start \in StartIds : last' = IF start = "0" THEN 0 ELSE added
    /\ UNCHANGED <<stream, pending, hands, faults, handled>>

DestroyGroup ==
    /\ exists
    /\ exists' = FALSE /\ last' = 0 /\ pending' = <<>>
    /\ UNCHANGED <<stream, groups, hands, faults, handled>>

Oldest(S, n) == {e \in S : Cardinality({f \in S : f < e}) < n}

Fresh == {e \in first .. added : e > last}

\* Mutant: with NOACK nothing is pending.
ReadNoAck(E) ==
    /\ E # {}
    /\ last' = Max(E)
    /\ UNCHANGED <<exists, pending, groups>>

\* XREADGROUP with ">".
ReadNew(E) ==
    /\ E # {}
    /\ last' = Max(E)
    /\ pending' = [e \in DOMAIN pending \cup E |-> IF e \in E THEN 0 ELSE pending[e]]
    /\ UNCHANGED <<exists, groups>>

\* Mutants: the idle time is not looked at; only entries never delivered are.
AnyIdle(e) == TRUE
OnlyUndelivered(e) == e > last

Stale(e) == pending[e] >= MinIdle

\* XAUTOCLAIM from "0-0": what it finds stale is as if just delivered, what was trimmed
\* leaves the pending entries; both count against its count.
Reached ==
    Oldest({e \in Oldest(DOMAIN pending, Scan) : e < first \/ Stale(e)}, ClaimCount)
Claimed == {e \in Reached : e >= first}

Claim ==
    /\ Reached # {}
    /\ pending' = [e \in (DOMAIN pending \ Reached) \cup Claimed |->
                        IF e \in Claimed THEN 0 ELSE pending[e]]
    /\ UNCHANGED <<exists, last, groups>>

----------------------------------------------------------------------------
(* The consumers *)

Give(c, how, E) ==
    hands' = [hands EXCEPT ![c] =
        IF E = {} THEN EmptyHands
        ELSE [how |-> how, ages |-> [e \in E |-> 0], done |-> FALSE, group |-> groups]]

\* The message being handled, and what follows it.
Current(c) == Min(DOMAIN hands[c].ages)

Advance(c) ==
    LET rest == DOMAIN hands[c].ages \ {Current(c)} IN
        hands' = [hands EXCEPT ![c] =
            IF rest = {} THEN EmptyHands
            ELSE [hands[c] EXCEPT !.ages = Restrict(hands[c].ages, rest), !.done = FALSE]]

Free(c) == exists /\ hands[c].how = "none"

Listen(c) ==
    /\ Free(c)
    /\ ReadNew(Oldest(Fresh, Count))
    /\ Give(c, "listen", Oldest(Fresh, Count))
    /\ UNCHANGED <<stream, faults, handled>>

\* The reply is lost: the messages are pending and nobody has them, whether the error
\* is raised or the command is sent again, which is a Listen.
ListenUnheard(c) ==
    /\ Free(c)
    /\ Fault
    /\ ReadNew(Oldest(Fresh, Count))
    /\ UNCHANGED <<stream, hands, handled>>

ClaimStale(c) ==
    /\ Free(c)
    /\ Claim
    /\ Give(c, "claim", Claimed)
    /\ UNCHANGED <<stream, faults, handled>>

ClaimUnheard(c) ==
    /\ Free(c)
    /\ Fault
    /\ Claim
    /\ UNCHANGED <<stream, hands, handled>>

\* The caller's code has handled the current message.
Handle(c) ==
    /\ hands[c].how # "none" /\ ~hands[c].done
    /\ hands' = [hands EXCEPT ![c].done = TRUE]
    /\ handled' = handled \cup {Current(c)}
    /\ UNCHANGED <<stream, group, faults>>

\* XACK does not ask who is named in the entry.
XAck(e) ==
    /\ pending' = Restrict(pending, DOMAIN pending \ {e})
    /\ UNCHANGED <<exists, last, groups>>

\* The next message is asked for, or the caller calls ack().
Ack(c) ==
    /\ hands[c].done
    /\ XAck(Current(c))
    /\ Advance(c)
    /\ UNCHANGED <<stream, faults, handled>>

\* The error of an XACK leaves the loop; the command may have been executed.
AckFails(c) ==
    /\ hands[c].done
    /\ Fault
    /\ XAck(Current(c)) \/ UNCHANGED group
    /\ Give(c, "none", {})
    /\ UNCHANGED <<stream, handled>>

\* A caller that acknowledges by itself goes on without it after a failure.
Skip(c) ==
    /\ hands[c].how # "none"
    /\ hands[c].how = "claim" \/ c \notin AutoAck
    /\ Fault
    /\ Advance(c)
    /\ UNCHANGED <<stream, group, handled>>

\* break, an exception of the handler, a kill: listen() ends at its yield.
Leave(c) ==
    /\ hands[c].how # "none"
    /\ Fault
    /\ Give(c, "none", {})
    /\ UNCHANGED <<stream, group, handled>>

----------------------------------------------------------------------------
Older(ages) == [e \in DOMAIN ages |-> IF ages[e] < MinIdle THEN ages[e] + 1 ELSE MinIdle]

Tick ==
    /\ pending' = Older(pending)
    /\ hands' = [c \in Consumers |-> [hands[c] EXCEPT !.ages = Older(@)]]
    /\ UNCHANGED <<stream, exists, last, groups, faults, handled>>

Next ==
    \/ Add \/ Trim
    \/ EnsureGroup \/ DestroyGroup
    \/ \E c \in Consumers :
        \/ Listen(c) \/ ListenUnheard(c)
        \/ ClaimStale(c) \/ ClaimUnheard(c)
        \/ Handle(c) \/ Ack(c) \/ AckFails(c)
        \/ Skip(c) \/ Leave(c)
    \/ Tick

(* Time passes; a consumer goes on with what it has, and calls listen() and
   claim_stale() again and again whenever its hands are free. *)
Fairness ==
    /\ WF_vars(Tick)
    /\ \A c \in Consumers :
        /\ WF_vars(Handle(c) \/ Ack(c))
        /\ SF_vars(Listen(c))
        /\ SF_vars(ClaimStale(c))

Spec == Init /\ [][Next]_vars /\ Fairness

----------------------------------------------------------------------------
(* Properties *)

\* What the group still has to deliver, or to deliver again.
Owed == {e \in first .. added : exists /\ (e > last \/ e \in DOMAIN pending)}

Promise == INSTANCE AtLeastOnce WITH
    Keep <- MaxLen, Newest <- MaxEntries, newest <- added, open <- exists, owed <- Owed

\* The stream implements AtLeastOnce: whatever is lost, claimed, skipped or killed, an
\* entry leaves the group only handled, or trimmed with MaxLen newer ones behind it.
DeliversAtLeastOnce == Promise!Spec

\* Two consumers never have the same message in hand, unless one of them has had it
\* for min_idle_ms: claim_stale() takes nothing from a consumer that is on time.
ExclusiveWhilePunctual ==
    \A c, d \in Consumers :
        c # d /\ hands[c].group = hands[d].group =>
            \A e \in DOMAIN hands[c].ages \cap DOMAIN hands[d].ages :
                hands[c].ages[e] >= MinIdle \/ hands[d].ages[e] >= MinIdle

\* Every entry the group owes is handled in the end, unless it is trimmed or the group
\* is destroyed first: claim_stale() reaches what was lost on the way.
EveryEntryHandled == \A e \in Entries : e \in Owed ~> (e \in handled \/ e \notin Owed)
=============================================================================
