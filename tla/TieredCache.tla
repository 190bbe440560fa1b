----------------------------- MODULE TieredCache -----------------------------
(***************************************************************************)
(* One process's TieredCache or AsyncTieredCache: an LRU dictionary (L1,   *)
(* redis_kit/cache/local.py) in front of Redis (L2, Cache).  An operation  *)
(* alternates atomic steps on the one and on the other, and those of the   *)
(* process's threads interleave between them.  Other processes meet this   *)
(* one only in Redis: Elsewhere and Lapse are all it can notice of them.   *)
(*                                                                         *)
(* A value stands for the write that made it: values are numbered in the   *)
(* order in which Redis is sent them.  get_many and set_many do for each   *)
(* key what get and set do, like so many threads; delete_pattern is        *)
(* clear_local followed by the loss of L2 keys.                            *)
(***************************************************************************)
EXTENDS Integers, FiniteSets

CONSTANTS
    Keys, Threads,
    Uses,          \* what a process may do: its threads, the keys they use, local_maxsize
                   \* and FallbackPolicy.on_connection_error
    SampleAbove,   \* the size above which set() may sweep expired entries: 10
    LocalTtl,      \* local_ttl and negative_ttl, in ticks
    NegativeTtl,
    MaxDelay,      \* ticks that may pass between an L2 command and the L1 update
    MaxWrites,     \* bound: values sent to Redis
    MaxFaults,     \* bound: L2 commands that fail
    Nothing, Negative, Fallback  \* no entry, _NEGATIVE, what a callback returns

Values == 1 .. MaxWrites
Entries == [value : Values \cup {Negative, Fallback},
            ttl : -1 .. (IF LocalTtl > NegativeTtl THEN LocalTtl ELSE NegativeTtl)]

ASSUME TieredAssumption ==
    /\ \A u \in Uses :
        /\ u.threads \subseteq Threads /\ u.keys \subseteq Keys /\ u.maxsize \in Nat \ {0}
        /\ u.policy \in {"raise", "return_none", "callback"}
    /\ SampleAbove \in Nat
    /\ LocalTtl \in Nat /\ NegativeTtl \in Nat /\ MaxDelay \in Nat
    /\ MaxWrites \in Nat /\ MaxFaults \in Nat
    /\ {Nothing, Negative, Fallback} \cap Nat = {}
    /\ Nothing # Negative /\ Nothing # Fallback /\ Negative # Fallback
    /\ Nothing \notin Entries /\ Keys \cap Threads = {}

VARIABLES
    use,       \* the member of Uses that this process is
    l2,        \* the value of each key in Redis
    l1,        \* the dictionary, and which of its keys comes before which
    task,      \* the operation under way in each thread
    writes, faults,
    since,     \* history: ticks since a value was last in Redis
    absent,    \* history: ticks since a key was last absent from Redis
    own,       \* history: no value older than this may reappear in L1
    crossed    \* history: fills under way that a set or delete overlapped, and
               \* keys whose entry comes from one of them

vars == <<use, l2, l1, task, writes, faults, since, absent, own, crossed>>
history == <<since, absent, own, crossed>>

\* The history counts time only up to what the properties allow, and one more.
LongSince == LocalTtl + MaxDelay + 1
LongAbsent == NegativeTtl + MaxDelay + 1
Idle == [pc |-> "idle", op |-> "none", key |-> Nothing, value |-> Nothing, wait |-> 0]

Cached(c) == {k \in Keys : c.data[k] # Nothing}

\* Every two of the keys are ordered, one way only.
Ordered(c) ==
    /\ c.before \subseteq Cached(c) \X Cached(c)
    /\ \A j, k \in Cached(c) : <<j, k>> \in c.before <=> (j # k /\ <<k, j>> \notin c.before)
    /\ \A i, j, k \in Cached(c) :
            (<<i, j>> \in c.before /\ <<j, k>> \in c.before) => <<i, k>> \in c.before

\* Types; L1 never holds more than local_maxsize entries, and its order is that of
\* its keys.
TypeOK ==
    /\ use \in Uses
    /\ l2 \in [Keys -> Values \cup {Nothing}]
    /\ l1 \in [data : [Keys -> Entries \cup {Nothing}], before : SUBSET (Keys \X Keys)]
    /\ IsFiniteSet(Cached(l1)) /\ Cardinality(Cached(l1)) <= use.maxsize
    /\ Ordered(l1)
    /\ task \in [Threads -> {Idle} \cup
            [pc : {"reading", "storing", "filling", "deleting"},
             op : {"get", "remember", "set", "delete"}, key : Keys,
             value : Values \cup {Nothing, Negative, Fallback}, wait : 0 .. MaxDelay]]
    /\ writes \in 0 .. MaxWrites /\ faults \in 0 .. MaxFaults
    /\ since \in [Values -> 0 .. LongSince] /\ absent \in [Keys -> 0 .. LongAbsent]
    /\ own \in [Keys -> 0 .. MaxWrites + 1]
    /\ crossed \subseteq Threads \cup Keys

Init ==
    /\ use \in Uses
    /\ l2 = [k \in Keys |-> Nothing]
    /\ l1 = [data |-> [k \in Keys |-> Nothing], before |-> {}]
    /\ task = [t \in Threads |-> Idle]
    /\ writes = 0 /\ faults = 0
    /\ since = [v \in Values |-> LongSince]
    /\ absent = [k \in Keys |-> 0]
    /\ own = [k \in Keys |-> 0]
    /\ crossed = {}

----------------------------------------------------------------------------
(* LRUCache: each of these runs under its lock. *)

Expired(e) == e.ttl < 0

\* pop() of the keys in D.
Dropped(c, D) ==
    [data |-> [k \in Keys |-> IF k \in D THEN Nothing ELSE c.data[k]],
     before |-> {p \in c.before : p[1] \notin D /\ p[2] \notin D}]

\* move_to_end()
ToEnd(c, k) ==
    [c EXCEPT !.before = {p \in c.before : k \notin {p[1], p[2]}}
                         \cup {<<j, k>> : j \in Cached(c) \ {k}}]

Oldest(c) == CHOOSE k \in Cached(c) : \A j \in Cached(c) : <<j, k>> \notin c.before

\* Mutant: a hit starts the entry's time again.
RefreshingGet(c, k) ==
    IF c.data[k] = Nothing THEN c
    ELSE IF Expired(c.data[k]) THEN Dropped(c, {k})
    ELSE ToEnd([c EXCEPT !.data[k].ttl = LocalTtl], k)

LocalGet(c, k) ==
    IF c.data[k] = Nothing THEN c
    ELSE IF Expired(c.data[k]) THEN Dropped(c, {k})
    ELSE ToEnd(c, k)

\* Mutant: the size is not looked at.
UnboundedSet(c, k, e) == ToEnd([c EXCEPT !.data[k] = e], k)

LocalSet(c, k, e) ==
    LET d == ToEnd([c EXCEPT !.data[k] = e], k) IN
        IF Cardinality(Cached(c) \cup {k}) > use.maxsize THEN Dropped(d, {Oldest(d)}) ELSE d

\* The sweep at the end of set() takes place at random and samples the entries.
Swept(c) ==
    {c} \cup IF Cardinality(Cached(c)) > SampleAbove
             THEN {Dropped(c, D) : D \in SUBSET {k \in Cached(c) : Expired(c.data[k])}}
             ELSE {}

\* What a get() of L1 finds.
Served(k) ==
    LET e == l1.data[k] IN
        IF e = Nothing THEN Nothing ELSE IF Expired(e) THEN Nothing ELSE e.value

----------------------------------------------------------------------------
(* The threads *)

Fault == faults < MaxFaults /\ faults' = faults + 1
Raises == use.policy = "raise"

Become(t, pc, op, k, v) ==
    task' = [task EXCEPT ![t] = [pc |-> pc, op |-> op, key |-> k, value |-> v, wait |-> 0]]
Advance(t, pc, v) == Become(t, pc, task[t].op, task[t].key, v)
Return(t) == task' = [task EXCEPT ![t] = Idle]

\* get() and remember() begin with L1; remember() goes on when the hit is negative.
LookUp(t, op, k) ==
    /\ task[t].pc = "idle"
    /\ l1' = LocalGet(l1, k)
    /\ IF Served(k) = Nothing \/ (op = "remember" /\ Served(k) = Negative)
       THEN Become(t, "reading", op, k, Nothing)
       ELSE UNCHANGED task
    /\ UNCHANGED <<use, l2, writes, faults, history>>

\* A key that L2 does not have: get() remembers that, remember() calls the factory.
Missed(t) ==
    IF task[t].op = "get" THEN Advance(t, "filling", Negative) ELSE Advance(t, "storing", Nothing)

\* Cache._get_raw
ReadRedis(t) ==
    /\ task[t].pc = "reading"
    /\ IF l2[task[t].key] = Nothing THEN Missed(t) ELSE Advance(t, "filling", l2[task[t].key])
    /\ UNCHANGED <<use, l2, l1, writes, faults, history>>

\* An error of the command: it is raised, taken for a miss, or replaced by the
\* callback's value.  An error that is not of the connection, or of the MGET of
\* get_many, is raised under every policy.
ReadFails(t) ==
    /\ task[t].pc = "reading"
    /\ Fault
    /\ \/ Return(t)
       \/ use.policy = "return_none" /\ Missed(t)
       \/ use.policy = "callback" /\ Advance(t, "filling", Fallback)
    /\ UNCHANGED <<use, l2, l1, writes, history>>

BeginSet(t, k) ==
    /\ task[t].pc = "idle"
    /\ Become(t, "storing", "set", k, Nothing)
    /\ UNCHANGED <<use, l2, l1, writes, faults, history>>

\* The other fills of k under way.
Siblings(t, k) == {u \in Threads \ {t} : task[u].pc = "filling" /\ task[u].key = k}

\* SET or SETEX with a new value.
Put(k) ==
    /\ l2' = [l2 EXCEPT ![k] = writes + 1]
    /\ since' = [since EXCEPT ![writes + 1] = 0]

NewWrite == writes < MaxWrites /\ writes' = writes + 1

\* From here on remember() does what set() does.
Store(t) ==
    LET k == task[t].key IN
    /\ task[t].pc = "storing"
    /\ NewWrite
    /\ Put(k)
    /\ crossed' = crossed \cup Siblings(t, k)
    /\ Become(t, "filling", "set", k, writes + 1)
    /\ UNCHANGED <<use, l1, faults, absent, own>>

\* Cache.set's error is raised; a policy may swallow one of the connection, and L1 is
\* filled all the same.  The write may have reached Redis.
StoreFails(t) ==
    LET k == task[t].key IN
    /\ task[t].pc = "storing"
    /\ NewWrite
    /\ Fault
    /\ Put(k) \/ UNCHANGED <<l2, since>>
    /\ Return(t) \/ (~Raises /\ Become(t, "filling", "set", k, writes + 1))
    /\ UNCHANGED <<use, l1, absent, own, crossed>>

FactoryRaises(t) ==
    /\ task[t].pc = "storing" /\ task[t].op = "remember"
    /\ Return(t)
    /\ UNCHANGED <<use, l2, l1, writes, faults, history>>

\* LRUCache.set at the end of an operation; an entry made while a set or a delete
\* of the same key was between its two levels is marked.
FillFor(t, ttl) ==
    LET k == task[t].key
        v == task[t].value
        overlapped == t \in crossed \/ \E u \in Threads : task[u].pc = "deleting" /\ task[u].key = k
    IN /\ task[t].pc = "filling"
       /\ \E c \in {LocalSet(l1, k, [value |-> v, ttl |-> ttl])} : l1' \in Swept(c)
       /\ own' = IF task[t].op # "set" \/ own[k] > v THEN own ELSE [own EXCEPT ![k] = v]
       /\ crossed' = (crossed \ {t, k}) \cup (IF overlapped THEN {k} ELSE {})
       /\ Return(t)
       /\ UNCHANGED <<use, l2, writes, faults, since, absent>>

\* Mutants: a miss is kept as long as a value; set() does not reach L1.
FillLong(t) == FillFor(t, LocalTtl)
FillAround(t) ==
    IF task[t].op # "set" THEN FillFor(t, IF task[t].value = Negative THEN NegativeTtl ELSE LocalTtl)
    ELSE /\ task[t].pc = "filling"
         /\ own' = [own EXCEPT ![task[t].key] = IF @ > task[t].value THEN @ ELSE task[t].value]
         /\ crossed' = crossed \ {t}
         /\ Return(t)
         /\ UNCHANGED <<use, l2, l1, writes, faults, since, absent>>

Fill(t) == FillFor(t, IF task[t].value = Negative THEN NegativeTtl ELSE LocalTtl)

\* delete() empties L1 first.
BeginDelete(t, k) ==
    /\ task[t].pc = "idle"
    /\ l1' = Dropped(l1, {k})
    /\ Become(t, "deleting", "delete", k, Nothing)
    /\ UNCHANGED <<use, l2, writes, faults, history>>

Erase(k) ==
    /\ l2' = [l2 EXCEPT ![k] = Nothing]
    /\ absent' = [absent EXCEPT ![k] = 0]

DeleteRedis(t) ==
    LET k == task[t].key IN
    /\ task[t].pc = "deleting"
    /\ Erase(k)
    /\ own' = [own EXCEPT ![k] = writes + 1]
    /\ crossed' = crossed \cup Siblings(t, k)
    /\ Return(t)
    /\ UNCHANGED <<use, l1, writes, faults, since>>

\* The DEL may have been carried out; the error is raised or swallowed.
DeleteFails(t) ==
    /\ task[t].pc = "deleting"
    /\ Fault
    /\ Erase(task[t].key) \/ UNCHANGED <<l2, absent>>
    /\ Return(t)
    /\ UNCHANGED <<use, l1, writes, since, own, crossed>>

\* invalidate_local() and clear_local()
InvalidateLocal(D) ==
    /\ l1' = Dropped(l1, D)
    /\ UNCHANGED <<use, l2, task, writes, faults, history>>

----------------------------------------------------------------------------
(* The environment *)

\* Another process sets the key; or a SET of this one is executed, its reply is lost
\* and it is sent again: each execution counts as a write of its own.
Elsewhere(k) ==
    /\ NewWrite
    /\ Put(k)
    /\ UNCHANGED <<use, l1, task, faults, absent, own, crossed>>

\* The key's ttl in Redis runs out, or another process deletes it, or a DEL of this
\* one is executed before it is sent again.
Lapse(k) ==
    /\ l2[k] # Nothing
    /\ Erase(k)
    /\ UNCHANGED <<use, l1, task, writes, faults, since, own, crossed>>

Later(n, bound) == IF n < bound THEN n + 1 ELSE n

Tick ==
    /\ \A t \in Threads : task[t].pc = "filling" => task[t].wait < MaxDelay
    /\ task' = [t \in Threads |-> IF task[t].pc = "filling"
                                  THEN [task[t] EXCEPT !.wait = @ + 1] ELSE task[t]]
    /\ l1' = [l1 EXCEPT !.data = [k \in Keys |->
                IF l1.data[k] = Nothing THEN Nothing
                ELSE [value |-> l1.data[k].value,
                      ttl |-> IF l1.data[k].ttl >= 0 THEN l1.data[k].ttl - 1 ELSE -1]]]
    /\ since' = [v \in Values |-> IF \E k \in Keys : l2[k] = v THEN 0 ELSE Later(since[v], LongSince)]
    /\ absent' = [k \in Keys |-> IF l2[k] = Nothing THEN 0 ELSE Later(absent[k], LongAbsent)]
    /\ UNCHANGED <<use, l2, writes, faults, own, crossed>>

Next ==
    \/ \E t \in use.threads :
        \/ \E k \in use.keys : LookUp(t, "get", k) \/ LookUp(t, "remember", k)
        \/ \E k \in use.keys : BeginSet(t, k) \/ BeginDelete(t, k)
        \/ ReadRedis(t) \/ ReadFails(t)
        \/ Store(t) \/ StoreFails(t) \/ FactoryRaises(t)
        \/ Fill(t)
        \/ DeleteRedis(t) \/ DeleteFails(t)
    \/ InvalidateLocal(Keys) \/ \E k \in use.keys : InvalidateLocal({k})
    \/ \E k \in use.keys : Elsewhere(k) \/ Lapse(k)
    \/ Tick

(* Time passes (what holds Tick back is only the bound on the delay of a fill), and
   no operation stops between its levels. *)
Fairness ==
    /\ SF_vars(Tick)
    /\ \A t \in Threads : WF_vars(ReadRedis(t) \/ Fill(t) \/ DeleteRedis(t))

Spec == Init /\ [][Next]_vars
FairSpec == Spec /\ Fairness

----------------------------------------------------------------------------
(* Properties *)

\* What L1 serves was true of Redis not long ago: a value was there, and a key that
\* is served as absent was absent, at most the entry's ttl and the delay of one
\* fill earlier.  Under the other policies an error makes L1 serve what never was.
StalenessBounded ==
    Raises => \A k \in Keys :
        /\ Served(k) \in Values => since[Served(k)] <= LocalTtl + MaxDelay
        /\ Served(k) = Negative => absent[k] <= NegativeTtl + MaxDelay

\* A process sees its own writes: after its set(), remember() or delete() of a key
\* has returned, L1 serves nothing older, unless another thread was filling the key
\* meanwhile (tiered.py has no lock over its two levels).
OwnWritesSeen ==
    Raises => \A k \in Keys :
        (k \notin crossed /\ Served(k) \in Values) => Served(k) >= own[k]

\* Once the writes and the errors are over, L1 agrees with Redis for good, whatever
\* the races and the policy did to it.
Converges ==
    \A k \in Keys : <>[](\/ Served(k) = Nothing
                         \/ Served(k) = Negative /\ l2[k] = Nothing
                         \/ Served(k) = l2[k])
=============================================================================
