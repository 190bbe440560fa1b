# A specification of redis-kit

redis-kit is a Python library of distributed building blocks on top of Redis: locks,
queues, a versioned repository, caches, streams, rate limiters, sessions. Nearly every
block exists twice, for threads (`X`) and for asyncio (`AsyncX`), around the same Lua
scripts. What is hard about it is not in any one method: it is in the order in which
several processes' commands reach Redis, in keys that expire between two of them, and in
commands whose reply never arrives. This directory specifies those blocks in TLA+,
model-checks them with TLC and proves the main results with TLAPS.

Paths below are relative to `src/redis_kit/`.

## 1. Inventory

| component | state | operations | where it is hard | correct when |
|---|---|---|---|---|
| Distributed lock (`lock/`) | one key with an owner, a count if reentrant, and a ttl; per call a watchdog (chain of `threading.Timer`, or a task) | `with lock(name, ...)`: acquire, renew, release | the lease expires inside the body; a renewal is in flight when the block is left; commands lost or sent twice; kills | live leases exclude each other; a clean exit proves it; no key is left behind or renewed for ever |
| Read-write lock (`lock/`) | a hash with the number of readers and one ttl, a writer key | `read()`, `write()` | the readers' count has no owners and one ttl for all | a writer is alone within its lease; readers do not block writers for ever |
| Reliable queue (`queue/`) | the lists `queue` and `processing` | `put`, `get`, `ack`, `nack`, `recover_stale` | consumers die with a message; `recover_stale` races live consumers | nothing is lost, nothing repeated without a cause, FIFO, everything is acked in the end |
| Entity repository (`repository/`) | per id a hash with its version, a history list; an index set | `save`, `find`, `delete`, `restore`, `hard_delete`, `find_all`, `get_history` | read-modify-write by several clients; pipelines without MULTI; creations sent twice | optimistic locking loses no update; history and index are complete |
| Tiered cache and LRU (`cache/tiered.py`, `local.py`) | L1 dictionary with expiry and order, L2 in Redis | `get`, `set`, `delete`, `remember`, bulk forms | fill of L1 racing a set or a delete; negative entries | L1 is stale for its ttl at most |
| Redis cache, `cached` (`cache/`) | keys in Redis | `get`, `set`, `remember`, decorator, `invalidate` | a result is written after the invalidation that should have removed it; jitter on a short ttl; fallback on error | an invalidated result stays away, a stale one expires |
| Streams (`stream/`) | a Redis stream, a group's last entry and pending list | `add`, `listen`, `ack`, `claim_stale`, `trim`, `ensure_group`, `destroy_group` | auto-ack when the next message is asked for; claims from live consumers; trimming under the group | at least once; nothing is claimed from a consumer that is on time |
| Rate limiters (`ratelimit/`) | bucket level and time; sorted set of requests | `acquire` of a token bucket or window, `reset` | expiry of the keys, rounding of `retry_after`, re-sent calls | never more than the limit in an interval; `retry_after` is enough |
| Pub/sub (`queue/pubsub.py`) | a running flag, one table of handlers, the connection's channels and patterns | `listen`, `stop`, `close`, `subscribe`, `psubscribe`, `unsubscribe` | `stop()` before `listen()` has set the flag; a subscription that overlaps an unsubscription; an `unsubscribe()` of a pattern's name | `stop()` stops; what is subscribed to has its handler |
| Delay queue (`queue/delay_queue.py`) | a sorted set | `put`, `poll` | lost replies, re-sent puts | each put is polled once, in time |
| Sessions (`session/`) | a hash with a ttl per session | `create`, `update`, `refresh`, `delete` | an update that arrives after a deletion or the expiry | a session lives from `create` to `delete` or idleness, whole |
| Bloom filter (`bloom/`) | a bit string | `add`, `exists`, bulk forms, `reset` | pipelines without MULTI | no false negatives |
| Connection manager (`connection.py`) | a sync client, a client per event loop, a preset one | `sync_client`, `async_client`, `close`, `aclose` | double-checked creation; the preset client's promotion; `aclose()` while others ask; an `aclose()` that is cancelled | one client for the threads, one per loop, none lost |
| Counters, hooks, serializers, configuration | - | single commands, callbacks, conversions | - | - |

How they interact: every component holds a redis-py client and talks to Redis only; no
component calls another, except that `TieredCache` owns a `Cache` and a local LRU, and the
decorators use a cache or a limiter. Redis executes a command or a Lua script atomically;
everything between two commands of one caller can be interleaved with anybody's. The
client is redis-py 7 (`pyproject.toml`), whose default policy sends a command again when its reply does
not arrive: an executed command can be executed twice, and after the last attempt its
error leaves the library's method. A cancelled task has the same effect on its command as
a lost request or a lost reply.

`PROJECT.json` lists every part with its status, and under `hazards` the points of this
code that tests hardly reach, each with the properties that cover it or a note why none does.

## 2. Modules

| module | models | instantiated by |
|---|---|---|
| `DistributedLock` | `Lock.__call__`, `AsyncLock.__call__`, their watchdogs and five scripts | `MCDistributedLock` |
| `ReadWriteLock` | `read()`, `write()` and their four scripts | `MCReadWriteLock` |
| `ReliableQueue` | `ReliableQueue`, `AsyncReliableQueue` and `NACK_SCRIPT` | `MCReliableQueue` |
| `EntityRepository` | `Repository`, `AsyncRepository` and their two scripts | `MCEntityRepository` |
| `TieredCache` | `TieredCache`, `AsyncTieredCache`, `LRUCache` and the `Cache` methods they call | `MCTieredCache` |
| `StreamGroup` | `StreamProducer`, `StreamConsumer`, their async forms | `MCStreamGroup` |
| `AtLeastOnce` | what a consumer group promises (abstract) | `StreamGroup`, as `Promise` |
| `TokenBucket`, `SlidingWindow` | the two limiters and their scripts | `Toolkit` |
| `DelayQueue`, `Session`, `PubSub` | `DelayQueue`, `SessionManager`, `PubSub` and their async forms | `Toolkit` |
| `CachedFunction` | the `cached` decorator | `Toolkit` |
| `Connections` | `ConnectionManager` | `Toolkit` |
| `BloomFilter` | `BloomFilter`, `AsyncBloomFilter` | `Toolkit` |
| `Toolkit` | the eight above in one specification | `MCToolkit` |
| `DistributedLockProofs`, `LockLeaseProofs`, `ReadWriteLockProofs`, `ReliableQueueProofs`, `EntityRepositoryProofs`, `TieredCacheProofs`, `StreamGroupProofs`, `ToolkitProofs` | theorems about the module in their name (`LockLeaseProofs`: about `DistributedLock`) | - |

One action is what one caller does between two points where others may act: one command
with the code before and after it, up to the next command or wait. What a command does
when it is answered, when its reply is lost and when it never arrives are separate
actions or disjuncts (`Attempt`, `AttemptUnanswered`, `AttemptFails`). Operators whose
comment begins with *Mutant* are no part of a specification: each is what a plausible bug
would make of the definition after it, kept here because it shows that a property
depends on the code it is about.

### DistributedLock

`lock` is the key in Redis (owner, count, ttl); `pc`, `result`, `raised`, `wait` follow a
call through `__call__`: `Start` enters it, `CheckDeadline` is the `while` of
`_spin_acquire`, `Attempt*` the SET NX or `REENTRANT_ACQUIRE`, `Enter` the start of the
watchdog and of the body, `Exit` both ways out of the block with the cancellation of the
watchdog, `Release*` the release script and which exception leaves the block. `chain` and
`due` are the watchdog: `Fire`, `Renew` and `Rearm` are the three moments of `renew()`
between which `cancel()` may come (`CancelTimers` reaches a waiting timer only,
`CancelTask` ends a task at its await). `CONSTANTS` choose the variant: `Reentrant`,
`Async`, `AutoRenew`, `Blocking`. Time is in ticks, the timeout is three watchdog
intervals as in `interval = timeout / 3`, and `MaxDelay` bounds how late a watchdog step is.

`lease` and `intruded` are history variables: the ticks left of the lease a call was
granted, and whether another owner got the key while the call held it.

### ReadWriteLock

`hash` is the readers' count with its single ttl, `writer` the writer key. A call waits,
is inside, or (after a release that is being sent again) releasing. A renewal of a
writer may come at any time between its acquisition and its return; its timing is
`DistributedLock`'s subject. History: `lease`, `undercut` (the common count or ttl was
reduced while an earlier reader relied on it), `overlapped` (another call was admitted
while a writer was inside).

### ReliableQueue

`queue` and `processing` are sequences whose head is Redis's left end. A consumer is
idle, working on the message it holds, or has seen its ack fail; as the guide shows, it
acks what it processed and nacks when something raised. `left` is the loop counter of a
`recover_stale` under way, each move of which is an action (`Recover`) between which the
consumers run. `stored`, `acked`, `recovered`, `repeated` are history.

### EntityRepository

An entity is `version`, `deleted` and a `value` that stands for all other fields: each
save writes a fresh one, so that equal values mean the same write. A client holds one
entity object, which it may save, at any later time, whatever happened in between; `delete()` and
`restore()` are two actions (`Fetch`, then `Delete`/`Restore`), `hard_delete()` three
(`PurgeKey`, `PurgePast`, `PurgeIndex`), since its pipeline has no MULTI. `Create` may be
sent twice (`CreateAgain`). History: `purged`, `gone`, `rewritten`.

### TieredCache

One process: `l1` is its `LRUCache` (`data`, the entries with the ttl they have left, and
`before`, the order of the keys as the pairs of an older and a newer one), `l2` the keys in Redis, `task` the operation of each thread: *reading* or
*storing* before the command to Redis, *filling* between its reply and the `LRUCache.set`
that follows, *deleting* between the two levels of `delete()`. The two halves of an
operation are separate actions because no lock spans them; each method of `LRUCache` is
one step because its lock does. Other processes act through `Elsewhere` and `Lapse`, which
also stand for commands of this one that are executed and sent again. `use` is one way to use
the cache (threads, keys, `local_maxsize`, `FallbackPolicy`), chosen in `Init`. History: `since` and `absent` (how long ago a value was, or a key was
not, in Redis), `own` (the process's last write of a key), `crossed` (fills that raced a
set or a delete of their own process).

### StreamGroup and AtLeastOnce

Entries are numbers in the order of their XADDs; `first .. added` is the stream, `last`
and `pending` the group: its last delivered entry and the pending ones with their idle
time, up to `MinIdle`. `hands` is what a consumer's loop has yet to leave behind: the entries of its last
batch, whether they come from `listen()` or `claim_stale()`, how long it has had them and
whether the current one is handled. `Handle` is the caller's code, `Ack` the point at which
the loop asks for the next message (`auto_ack`) or the caller calls `ack()`; `Skip` and
`Leave` are a caller that goes on without an ack and one that leaves the loop. `Claim`
is XAUTOCLAIM: it looks at `Scan` pending entries from the first on, takes `ClaimCount`
stale ones and removes the trimmed ones. `group` in `hands` numbers the groups, since acks
for a destroyed group reach the entries that a new one has pending.

`AtLeastOnce` keeps a set of owed entries. Each leaves it only when it has been handled, when the log's
bound lets it go, or with the group. Under the mapping `owed <- Owed` (what is not yet
delivered, or pending, and not trimmed) every step of `StreamGroup` is a step of it or a
stutter: a claim, a lost reply or a kill must not change `Owed`. `DeliversAtLeastOnce` is
this refinement, model-checked and proved.

### Toolkit

The smaller components share neither keys nor objects. `Toolkit` instantiates their modules, and
`active` picks in `Init` the one that moves, so that the run covers the sum of their state
spaces and not the product; each module is a specification of its own. What their
constants must satisfy is stated in each (`TokenBucketAssumption`, ...) and evaluated in
`ToolkitAssumption`.

- `TokenBucket`: `bucket` is the tokens at the last call and how long ago it was; a bucket
  as old as its ttl is gone. Tokens are counted in parts, so that `Rate` parts come in per
  tick; `TicksPerMs` and `MsPerSecond` are the two scales at which the code rounds
  (`retry_after` to milliseconds, the ttl to seconds). `Acquire` is the script and what
  the caller does with its answer, `AcquireUnheard` the script whose answer is lost.
  `debt` measures, over all intervals that end now, the most by which the permitted costs
  exceed the rate.
- `SlidingWindow`: `scores` is the sorted set, each score as its distance from the present
  millisecond; the clock is finer by `phase`. A call keeps its member when it is sent again.
- `DelayQueue`: `due` is the sorted set, each score as the time until then. `sends` and
  `sending` follow puts that are sent again; `given` and `dropped` count what polls returned
  and what was in a lost reply.
- `Session`: a hash's field names and the rest of its ttl. A command sent again is a second step.
- `PubSub`: one object with its listener (`BeginPolling` is the line of `listen()` that
  sets the flag, `TestFlag` the head of its loop) and callers whose subscriptions and
  unsubscriptions have two steps each, the handler table and the command, in the order of
  the code. Channels and patterns are two sets of the connection, `subscribed` and
  `patterns`, over one table `handlers`; `Unsubscribe` is the UNSUBSCRIBE command, which
  leaves patterns alone, and `PopHandler` takes the name out of the table all the same.
- `CachedFunction`: what the function would return now is a number that grows, so that
  older means smaller. Calls read, compute and write in separate steps; `invalidate()`
  and changes of the data come in between.
- `Connections`: `sync_client` with its look before and its look within the lock and its last read of
  the attribute, `async_client` with the promotion of the preset client, `close` and
  `aclose`. Clients are numbers, and a closed one's is given to a later one. Each
  `aclose()` under way has what it has left of its snapshot in `closing`; a client whose
  own `aclose()` failed (`CloseFails`) and those that a cancelled `aclose()` did not come to
  (`Cancelled`: a `CancelledError` is no `Exception`) stay open in `adrift`.
- `BloomFilter`: one step per SETBIT and GETBIT of a pipeline, since others' come in
  between; a pipeline may break or start again.

## 3. What the runs check

| run | instance | question |
|---|---|---|
| `lock_basic` | two threads, three calls, sync, basic lock; one call with a watchdog, one that blocks; timeout 6 ticks; a watchdog step late by 1 < interval 2; lost and re-sent commands | exclusion of live leases, clean exit as proof of exclusion, the watchdog's timing, no key left behind |
| `lock_reentrant_async` | the same calls on a reentrant async lock, timeout 3, with lost commands (none sent twice) and crashes, under fairness | nested releases keep the outer lease, every call returns, abandoned keys expire |
| `rwlock` | two readers with timeouts 2 and 1, two writers with 2 and 1, one with a watchdog, every fault | who excludes whom, phantom readers |
| `queue` | two messages, two consumers, `max_items` 2, one nack, two faults | at least once, at most once without a cause, nothing stranded, FIFO, progress |
| `repository` | two clients, one uuid and one caller-chosen id, `max_history` 2, four writes, one fault | optimistic locking, history, index |
| `tiered` | two threads and one key under each policy, or one thread and two keys with room for one or both and a sweep above one entry; two writes, one fault; local ttl 1, negative ttl 0, a fill late by 1 at most | how stale L1 can be, own writes, agreement in the end, size and order |
| `streams` | three entries, `maxlen` 2, batches of two; one consumer with `auto_ack`, one without; claims of one out of two, `min_idle` 1; two groups, one fault | at least once (refinement), nothing claimed from a punctual consumer, every entry handled |
| `toolkit` | a bucket of three tokens, costs 1 to 3, a tick of a third of a token; limit 2 per second of two milliseconds; two items, delays 0 and 2, two sends each; two sessions of two fields, ttl 2; two callers, two names of channels and patterns; three callers of a cached function, ttls none and 1, full jitter, two changes; two threads, two loops, four clients; two items that share a bit | what each of the smaller components promises |

Bounds. Three calls are the fewest with a nested pair and a competitor; two readers and
two writers the fewest with every pair that can conflict. A timeout of 6 ticks lets a
lease expire in any state of a call, before, between and after two renewals. Two messages
show order and repetition, and two faults a lost reply with a failed recovery of it. Four
writes overflow a history of two and leave two clients room to overtake each other twice. Two
writes of one key are enough for an old value to come back over a new one; the ttls 1 and 0
tell a value's from a miss's, and `SampleAbove` stands for 10. In `streams` three entries
overflow a stream of two, a batch of two leaves its second message in hand while the first is
handled, and a scan of two with a claim of one can have trimmed entries in front of the one
that was lost; the second group shows acks that arrive from the first one's life. In
`toolkit` a millisecond is two ticks and a second two milliseconds, the fewest at which
cutting the time to either loses something; a full bucket takes more than one second
to fill, so that its ttl is rounded; two users whose items share a bit are the fewest that
interfere, and so are two threads and two loops that ask for clients; four clients are those of
two loops before and after a cancelled `aclose()`. Two callers of one name are the fewest whose
subscription and unsubscription overlap, and three of a cached function let two overlap while
a third acts. The counters `MaxResends`,
`MaxFaults`, `MaxNacks`, `MaxWrites`, `MaxEntries`, `MaxGroups`, `MaxSends`, `MaxChanges`, `MaxClients` bound the environment and not the code; the
theorems below hold without these bounds. `EntityRepository` hard-deletes each id once,
also a bound. Clients are symmetric in the repository's run, which checks no liveness.

Deadlock. The runs of the locks, the tiered cache, the streams and the toolkit check it: time
always passes there, or a listener, a user or a client can always act. `queue` and `repository`
stop rightly, when all is acked and when the bound on writes is reached, and say
`CHECK_DEADLOCK FALSE`.

Fairness. For the locks: time passes, bodies end, and threads or tasks are scheduled
(weak fairness of each step of a call and of its watchdog; no assumption that a command
is answered by success). Nothing starts a call and no fault is fair. `EveryCallReturns`
needs no strong fairness, because `_spin_acquire` ends by its deadline or after one
attempt. For the queue: consumers go on consuming, and some process calls `recover_stale`
again and again, which is what its docstring asks for; without it a message whose
consumer died is stranded. For the tiered cache: a thread ends its operation, and time
passes (strong fairness of `Tick`, because its guard, the bound on how late a fill is, is the
model's and holds no clock back). For the streams: time passes, a consumer goes on with
what it has in hand, and calls `listen()` and `claim_stale()` again and again while its
hands are free (strong fairness, because another consumer's call may leave it nothing for a
while). The listener of `PubSub` runs, `get_message()` ends with its timeout and handlers return; a call of a cached function
that has a result ends, and Redis expires keys (strong fairness of its `Tick`, which is
not enabled while there is no key). No call, write or fault is fair.

What is *not* promised is visible in the premises: `NoKeyLeftBehind` excludes threads
whose command was lost or re-sent (a re-sent SET NX is refused by the call's own key),
`CleanExitMeansExclusive` those that swallowed a connection error, and for a reentrant
lock it, `LeaseHonoured` and `MutualExclusion` the owners one of whose scripts was sent
twice (`Unrepeated`: the scripts count),
`PunctualReadersExcludeWriters` readers that outstay their lease or join with a shorter
timeout, `VersionNamesState` ids that were hard-deleted or created twice, `OwnWritesSeen` entries whose
fill raced another thread's set or delete, and it and `StalenessBounded` the policies
that swallow errors: with those L1 may serve a value that Redis refused. `StopEndsListening`
excludes a `stop()` before the first line of `listen()`, which undoes it;
`HandlerForEverySubscription` a `subscribe()` or `psubscribe()` and an `unsubscribe()` of the same
name that overlap, and patterns whose name was unsubscribed last: there is no
`punsubscribe()`, the pattern stays subscribed without a handler and its messages are dropped;
`EveryClientHasItsPlace` clients whose own `aclose()` failed or that a cancelled `aclose()` did not
come to, which stay open and out of the registry; `InvalidationHolds` the calls that held their result already, which write it
back; `NoFalseNegative` a `reset()` during the `add()`; `AdviceSuffices` allows the bucket one
millisecond more than it says, because the script rounds down; and the window's limit
holds for intervals a millisecond shorter than the window, because scores are cut to
milliseconds.

The type invariants of the lock, the read-write lock, the queue and the repository are
proved and not run again.

### Runs that find a violation

| run | the code | what is said of it |
|---|---|---|
| `lock_timers` | a renewal in flight arms a timer on a cancelled handle | "Tracks all timers ... so they can all be cancelled" (`lock/lock.py:19`) |
| `lock_exception` | only `LockReleaseError` is caught around the release | locks "never mask your original exception" (`site-docs/modules/lock.en.md:52`) |
| `rwlock_readers` | `READ_RELEASE` removes a count that is nobody's | write lock is "exclusive. Waits for readers to finish" (`lock/lock.py:170`) |
| `repository_purge` | `OPTIMISTIC_LOCK_SET` accepts a missing key | hard delete is "permanent" (`README.md:399`) |

`lock_timers` and `rwlock_readers` need no fault at all. The async lock does not have the
first one, because cancelling its task ends a renewal at its await: `AbandonedKeyExpires`,
which holds in `lock_reentrant_async`, would fail if a chain went on.

## 4. What is proved

Every safety property that a passing run checks (the invariants, the action properties and
the refinement) is also a theorem, for every value of the constants that satisfies the
module's assumption. Each was first checked by TLC, and so was each strengthening below,
as an invariant of its run (`LeaseInv` also with `MaxResends` 1 in the reentrant instance,
1.5 million states, too many for the liveness properties of that run).

**`LockLeaseProofs`**, leases: `LeasesHonoured` (`LeaseHonoured`) and `Exclusion`
(`MutualExclusion`). `LeaseHonoured` is not inductive: whether a nested release
keeps the key depends on the count. The invariant is `LeaseInv`, five named parts:
a live lease belongs to a call that holds (`LeaseInside`); the calls of a thread
nest (`Nesting`), and so do their leases (`LeasesNested`: when an outer lease is live the
inner ones are); every live lease is backed by a key of its owner that lives at least as
long (`LeaseBacked`); and the reentrant count is at least the number of live leases
(`CountCovers`, which makes a nested release leave the key). The proof first reduces the
actions to six effects on `lock` and `lease` (`Effects`: nothing, a grant without a
reply, a grant, an extension, a release, a tick) and shows that each keeps the last two
parts. The last three parts speak of the leases of owners whose scripts were each sent
once (`Live`), as the properties do (`Unrepeated`): `REENTRANT_RELEASE` is not idempotent, and a
nested release that is sent twice takes the outer call's key (TLC shows it in ten states
when `MaxResends` is 1 and the premise is dropped). The release of a call that is not in
`Live` is then the proof's delicate step: no other call of its owner is in `Live` either
(`LeasesNested`, or the premise itself), so the key it frees is nobody's. For the basic
lock the premise is void.

**`LockLeaseProofs`**, the count: `NoneLeftBehind` (`NoKeyLeftBehind`) and `CleanExit`
(`CleanExitMeansExclusive`). Here the count is bounded from above, where the leases bound it
from below: as long as no call of its owner failed or was sent twice, it is at most the
number of calls that are there and that nobody intruded upon (`CountBounded`). So a thread whose
calls have returned owns no key. That a clean exit had no intruder needs more: a call intruded upon
is inside or over (`IntrusionsInside`); who intrudes on a call intrudes on those around it
(`IntrusionsNested`), so that the release of the outer call finds a count that its
inner calls have used up; and a basic lock does not come back to a call that lost it
(`LostForGood`). `CountSound` proves these (`CountInv`), and with them `NoneLeftBehind` and
`CleanExit`.

**`DistributedLockProofs`**: `TypeCorrect`, and `WatchdogSound` (`WatchdogKeepsLease`) from
`WatchdogInv`: in each state of the chain the lease outlasts the time at which the chain's
next renewal is due, plus the delays it may still have.

**`ReadWriteLockProofs`**: `WritersExclude`, `ReadersExclude`, `CleanWrite` and
`PhantomFree`, with `TypeCorrect`. `CleanWrite` is about admissions: nobody
was admitted while the writer was inside; a reader that was inside before it, and whose count
another's release removed, may be beside it (that is `WriteExcludesReaders`' counterexample).
The first three follow from `RWInv`: a writer's live lease is
backed by a key that names it (`WriterBacked`); a writer beside which somebody was admitted has lost
its key for good (`IntrusionNoticed`: it is why its release notices); unless the common
count or ttl was undercut, the count is at least the number of readers within their leases
and the ttl at least each of their leases (`ReadersCovered`), and no writer key exists while there is
such a reader (`ReadersAlone`). `PhantomFree` has an argument of its own, about the count
and the readers that have still to release. The set of readers is finite, the timeouts
are any. Nothing is assumed about faults.

**`ReliableQueueProofs`**: `TypeCorrect` and
- `NothingLost` (`NoLoss`), inductive with the types; the work is in the lemmas on lists: what
  `LREM` keeps (`LRemKeepsTheOthers`, by the least index of the removed element), and that the
  moves between the lists and a requeue keep every other message in one of them.
- `EveryCopyHasAConsumer` (`NothingStranded`): each step changes the copies of one message and
  its holders together; that the consumers which are busy are finitely many
  (`FinitelyManyBusy`) lets them be counted although `Consumers` may be infinite.
- `ExactlyOnce` (`ExactlyOnceUntilRepeated`): until something is repeated, a message has one
  copy in both lists together between put and ack and none before and after, and what a
  consumer holds is in the processing list and held by no other (`OnePlace`).
- `FirstOut` (`FirstInFirstOut`): until something is put back, the queue is in order, what was
  taken is older than what is queued, and that older than what is still to be put (`InOrder`).

**`EntityRepositoryProofs`**: `TypeCorrect`, and all four properties of the run:
`VersionsNameStates`, `OneVersion`, `HistoryComplete`, `IndexComplete`. `RepoInv` adds to
the types what optimistic locking needs of the objects that clients hold (`ObjectsFit`):
an object that is not behind the store is the stored state; while a governed id has no
key, objects of it were never saved (`OPTIMISTIC_LOCK_SET` accepts any version then, and
the first write must be version 1); and objects of an id that `save()` made imply its key.
`FitsAfterWrite` shows that a write of the next version keeps all of that, and
`GovernedStep` that a step leaves a governed id alone, writes it for the first time, or
writes the next version and puts the state before it into the history. Versions and values stay within the number of
writes (`Dated`). The numbers of writes and faults are arbitrary bounds.

**`TieredCacheProofs`**: `TypeCorrect` says that L1 stays in order and within
`local_maxsize`; that eviction finds a key to evict (`OldestThere`) rests on the order being one of
finitely many keys, by the key with the fewest before it. `LocalGetSound`, `LocalSetSound` and
`SweptSound` say what `LRUCache` does to any dictionary in order.
- `StalenessBound` (`StalenessBounded`). The strengthening follows a value from Redis to L1
  (`RecentInv`): what Redis has has age 0 (`StoreCurrent`); a fill's value is no older than the
  fill (`FillsRecent`); an entry's age and the ttl it has left add up to no more than the ttl it
  began with and the delay (`EntriesRecent`).
- `OwnWrites` (`OwnWritesSeen`). The values of Redis (`StoreAhead`), of the
  fills that nothing overlapped (`FillsAhead`) and of the entries made by them (`EntriesAhead`)
  are at least what the process has set or is about to set in L1, and such an entry is not there
  during a `delete()` of its key. Most steps are `Quiet`; a read, a write, a fill and a deletion
  have a lemma each.

Both hold under the policy that raises errors, which is the properties' own premise.

**`StreamGroupProofs`**: `TypeCorrect`, and `AtLeastOnceDelivery`
(`Spec => DeliversAtLeastOnce`): `StreamGroup` implements `AtLeastOnce` for any consumers,
bounds of the stream, batch sizes and numbers of groups. `StreamInv` adds to the types the
form of what a consumer holds and that a group that is gone has delivered nothing;
`MapsInit` and `MapsStep` show that the initial state and every step map under
`owed <- Owed`. What takes work is that the mapping survives claims (what was trimmed is
no longer owed, and what was claimed stays pending) and a new group (it owes an interval).
`PunctualOwnersAlone` (`ExclusiveWhilePunctual`): what a consumer got from the present group
was delivered by it, and has been pending no longer than the consumer has had it
(`HandsDelivered`); so who claims it has waited `MinIdle` since the other got it.

**`ToolkitProofs`**: `ToolkitInvariant` is the conjunction of one invariant for each of the eight
components, each kept by the component's own steps and by the others'; `TypeCorrect` and a
theorem for each safety property follow.
- `LimitsKept`, `AdviceHolds`, bucket (`BucketInv`): what was permitted beyond the rate and what
  the bucket holds are together at most its capacity; who waits as advised finds
  enough (`AdvisedRight`). The tick needs `TtlSuffices`: keys that live as long as the script
  lets them say, when they expire, no less than an empty key does.
- The same, window (`WindowInv`): the members kept are within the limit; those younger than the window
  are kept (`RecentStays`); and by the end of the advised wait one of them leaves, or
  there is room (`RoomInTime`).
- `PutsAccountedFor` (`DelayedInv`): the property is inductive with the types.
- `SessionsKept` (`SessionInv`): the key of a living session has all its fields and exactly the
  ttl its idle time leaves; no other session has a key.
- `HandlersThere` (`MessagesInv`): of names that are not crossed, what is being subscribed to
  has its handler, and what is being unsubscribed from is no channel subscribed to, counts as
  unsubscribed last and has no subscription under way.
- `InvalidationsHold` (`CachedInv`): calls about to write that are not marked late have results
  as new as the last `invalidate()`. `Percentage` bounds the jitter.
- `ClientsInPlace` (`ClientsInv`): the manager's clients are in one place each and the places are
  apart (`PlacesApart`), each client that leaves is with one `aclose()` or adrift
  (`SnapshotsApart`), callers have theirs (`HoldersRight`), and who builds the sync client
  has the lock alone and finds none there (`WaitersRight`).
- `NoneMissed` (`BloomInv`): an `add()` that no reset met has set the bits it came to, and an
  `exists()` looks for an item that is there and has missed no bit (`ProbeSound`).

What the proofs assume of the constants beyond their types is in the modules' assumptions:
a delay that no other exceeds and a ttl that no other exceeds (finitely many are used),
threads that are not event loops and keys that are not threads, callers that are not called
"entry". No theorem has another hypothesis.

Only model-checked: the liveness properties (`EveryCallReturns`, `AbandonedKeyExpires`,
`PhantomReadersExpire`, `EventuallyAcked`, `Converges`, `EveryEntryHandled`,
`StopEndsListening`, `StaleEntryExpires`), which need fairness and `ENABLED`, out of the
prover's reach; and the four violations, which are TLC's counterexamples. No theorem says
what a recursive definition computes, since that takes induction over data.

## 5. Not modelled, and simplifications

- Redis itself is a single atomic store: replication, failover and eviction are outside.
- All calls of a `DistributedLock` instance have the same timeout, reentrancy and class.
  A nested call with a shorter timeout cuts the ttl of its outer call: one of the hazards of
  `PROJECT.json` that have no property.
- `sleep(0.05)` between two attempts is any time; a deadline is checked between ticks.
- Encoding (JSON, hashes) is injective on what the properties compare: a nack re-encodes
  a message to the bytes it had, and `to_hash`/`from_hash` keep the version and the flag.
- `get_many`, `set_many` and `delete_pattern` of the tiered cache are single operations on
  each key in any order; the sweep of its LRU may drop any expired entries, not one in ten.
- `EntityRepository` hard-deletes an id once, so its pipeline is not sent again.
- `Cache`: `_get_raw`, `set`, `delete` and the fallback policy are in `TieredCache`, as it uses
  them, and `CachedFunction` is the decorator; its other operations (`get_many`, `incr`,
  `ttl`, ...) are one command each, or a loop of them, and keep no state. Its stampede is
  no error: `remember` promises no more than one call per miss.
- `pending()`, `len()`, `size()`, `exists()` of a session and the like only read. Whom a pending stream
  entry names is left out with `pending()`.
- The strings of limits (`"10/minute"`) and their parsing; the reflection by which `rate_limit` and
  `cached` make keys. Both decorators' control is modelled.
- Counters and ids: one atomic command per operation, so Redis's own semantics. Hooks,
  metrics and tracing: callbacks that change no state of the library. Serializers and
  compressors: wrappers of libraries, data without control. The facade and the exceptions:
  names, and a factory. The topologies of `config.py` differ in the redis-py object that
  is built, not in what `Connections` is about.

## 6. Plan

1. A timeout for each call of `DistributedLock`, with the proofs it touches: the leases of a
   thread's calls are then cut by a nested call with a shorter one.
2. The safety part of the liveness properties, where there is one: that a call which waits for
   the key has a deadline (`EveryCallReturns`), and that each key has a ttl
   (`AbandonedKeyExpires`, `PhantomReadersExpire`).

## 7. Running

`tlc -config <run>.cfg <module>.tla` with the module of the run in `PROJECT.json`, and
`tlapm <module>.tla` for the eight proof modules. Each run ends within three minutes.
