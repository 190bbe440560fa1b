--------------------------- MODULE DistributedLock ---------------------------
(***************************************************************************)
(* One lock name as the callers of Lock.__call__ and AsyncLock.__call__    *)
(* see it: redis_kit/lock/lock.py, async_lock.py and the scripts of        *)
(* _lua.py.  A call is one execution of the `with` block.  It spins for    *)
(* the key, runs its body, cancels its watchdog and releases.  The calls   *)
(* of a thread nest: its calls are numbered in the order it starts them.   *)
(*                                                                         *)
(* Time is counted in ticks.  A lease lasts three watchdog intervals       *)
(* (`interval = timeout / 3`), and Redis drops the key when its ttl is 0.  *)
(***************************************************************************)
EXTENDS Integers, FiniteSets

CONSTANTS
    Calls,       \* the with blocks, numbers
    Threads,     \* the threads (or asyncio tasks) that execute them
    ThreadOf,    \* the thread of each call
    Reentrant,   \* the argument reentrant=, the same for every call
    Async,       \* AsyncLock rather than Lock
    AutoRenew,   \* the calls made with auto_renew=True
    Blocking,    \* the calls made with a blocking_timeout; the rest pass None
    Wait,        \* that blocking_timeout, in ticks
    Interval,    \* ticks between two renewals; the timeout is three of them
    MaxDelay,    \* ticks by which a watchdog step may be late
    MaxResends,  \* times the driver re-sends the commands of one call
    Faults,      \* of {"request_lost", "reply_lost", "crash"}
    None

ASSUME LockAssumption ==
    /\ Calls \subseteq Nat /\ IsFiniteSet(Calls)
    /\ ThreadOf \in [Calls -> Threads]
    /\ Reentrant \in BOOLEAN /\ Async \in BOOLEAN
    /\ AutoRenew \subseteq Calls /\ Blocking \subseteq Calls
    /\ Wait \in Nat /\ MaxDelay \in Nat /\ MaxResends \in Nat
    /\ Interval \in Nat \ {0}
    /\ Faults \subseteq {"request_lost", "reply_lost", "crash"}
    /\ None \notin Calls \cup Threads

VARIABLES
    lock,      \* the key in Redis: its owner field, count and ttl
    pc,        \* where each call is
    result,    \* how it ended
    raised,    \* its body raised
    wait,      \* ticks to its acquisition deadline
    resends,   \* re-sent commands so far
    chain,     \* its watchdog: a pending timer, or a renew() under way
    due,       \* ticks until its watchdog acts, negative when late
    lease,     \* history: ticks left of the lease it was granted
    intruded   \* history: another owner got the key while it was inside

vars == <<lock, pc, result, raised, wait, resends, chain, due, lease, intruded>>
watchdog == <<chain, due>>
history == <<lease, intruded>>

Timeout == 3 * Interval
Free == [owner |-> None, count |-> 0, ttl |-> 0]

\* A basic lock is owned by the call's uuid, a reentrant one by its thread or task.
Owner(c) == IF Reentrant THEN ThreadOf[c] ELSE c
Owners == IF Reentrant THEN Threads ELSE Calls

TypeOK ==
    /\ lock \in [owner : Owners \cup {None}, count : Nat, ttl : 0..Timeout]
    /\ pc \in [Calls -> {"new", "check", "attempt", "acquired", "inside", "releasing", "done"}]
    /\ result \in [Calls -> {"none", "released", "body_error", "acquire_error",
                             "release_error", "connection_error", "crashed"}]
    /\ raised \in [Calls -> BOOLEAN]
    /\ wait \in [Calls -> 0..Wait]
    /\ resends \in [Calls -> 0..MaxResends]
    /\ chain \in [Calls -> {"off", "armed", "fired", "extended"}]
    /\ due \in [Calls -> -MaxDelay..Interval]
    /\ lease \in [Calls -> 0..Timeout]
    /\ intruded \in [Calls -> BOOLEAN]

Init ==
    /\ lock = Free
    /\ pc = [c \in Calls |-> "new"]
    /\ result = [c \in Calls |-> "none"]
    /\ raised = [c \in Calls |-> FALSE]
    /\ wait = [c \in Calls |-> 0]
    /\ resends = [c \in Calls |-> 0]
    /\ chain = [c \in Calls |-> "off"]
    /\ due = [c \in Calls |-> 0]
    /\ lease = [c \in Calls |-> 0]
    /\ intruded = [c \in Calls |-> FALSE]

----------------------------------------------------------------------------
(* The commands Redis executes atomically. *)

Grants(s, o) == s.owner = None \/ (Reentrant /\ s.owner = o)

\* SET NX EX, and REENTRANT_ACQUIRE, which refreshes the ttl of a nested hold.
Acquire(s, o) ==
    IF Grants(s, o)
    THEN [owner |-> o, count |-> s.count + 1, ttl |-> Timeout]
    ELSE s

\* Mutant: DEL without comparing the owner.
UncheckedRelease(s, o) == Free

\* RELEASE_LOCK, for a basic lock.
BasicRelease(s, o) == IF s.owner = o THEN Free ELSE s

\* Mutant: a release that forgets the count.
CountlessRelease(s, o) == IF s.owner = o THEN Free ELSE s

\* REENTRANT_RELEASE: the key is deleted when the count reaches zero.
ReentrantRelease(s, o) ==
    IF s.owner # o THEN s
    ELSE IF s.count > 1 THEN [s EXCEPT !.count = @ - 1] ELSE Free

Release(s, o) == IF Reentrant THEN ReentrantRelease(s, o) ELSE BasicRelease(s, o)

\* EXTEND_LOCK and EXTEND_REENTRANT_LOCK.
Extend(s, o) == IF s.owner = o THEN [s EXCEPT !.ttl = Timeout] ELSE s

----------------------------------------------------------------------------
(* Acquisition *)

Active(c) == pc[c] \notin {"new", "done"}
Cancelled(c) == pc[c] \in {"releasing", "done"}

\* The calls that o's expire gives a full lease again: those whose lease is live.
Renewed(o) == [c \in Calls |-> IF Owner(c) = o /\ lease[c] > 0 THEN Timeout ELSE lease[c]]

\* A command that gives the key to o intrudes on the calls of the other owners.
Intrusion(o) ==
    [c \in Calls |-> intruded[c]
                     \/ (/\ pc[c] \in {"acquired", "inside", "releasing"}
                         /\ Owner(c) # o
                         /\ Grants(lock, o))]

\* A thread enters `with`, possibly inside the body of an earlier call.
Start(c) ==
    /\ pc[c] = "new"
    /\ \A d \in Calls : ThreadOf[d] = ThreadOf[c] =>
            /\ pc[d] \in {"new", "inside", "done"}
            /\ d > c => pc[d] = "new"
    /\ pc' = [pc EXCEPT ![c] = IF c \in Blocking THEN "check" ELSE "attempt"]
    /\ wait' = [wait EXCEPT ![c] = IF c \in Blocking THEN Wait ELSE 0]
    /\ UNCHANGED <<lock, result, raised, resends, watchdog, history>>

\* _spin_acquire: `while time.monotonic() < deadline`, before each attempt.
CheckDeadline(c) ==
    /\ pc[c] = "check"
    /\ IF wait[c] > 0
       THEN /\ pc' = [pc EXCEPT ![c] = "attempt"]
            /\ UNCHANGED result
       ELSE /\ pc' = [pc EXCEPT ![c] = "done"]
            /\ result' = [result EXCEPT ![c] = "acquire_error"]
    /\ UNCHANGED <<lock, raised, wait, resends, watchdog, history>>

\* attempt(): Redis executes the command and the reply arrives.
Attempt(c) ==
    /\ pc[c] = "attempt"
    /\ lock' = Acquire(lock, Owner(c))
    /\ \/ /\ Grants(lock, Owner(c))
          /\ pc' = [pc EXCEPT ![c] = "acquired"]
          /\ lease' = [Renewed(Owner(c)) EXCEPT ![c] = Timeout]
          /\ intruded' = Intrusion(Owner(c))
          /\ due' = [due EXCEPT ![c] = 0]
          /\ UNCHANGED result
       \/ /\ ~Grants(lock, Owner(c))
          /\ c \in Blocking
          /\ pc' = [pc EXCEPT ![c] = "check"]
          /\ UNCHANGED <<result, history, due>>
       \/ /\ ~Grants(lock, Owner(c))
          /\ c \notin Blocking
          /\ pc' = [pc EXCEPT ![c] = "done"]
          /\ result' = [result EXCEPT ![c] = "acquire_error"]
          /\ UNCHANGED <<history, due>>
    /\ UNCHANGED <<raised, wait, resends, chain>>

\* Redis executes the command, its reply is lost, and the driver sends it again.
AttemptUnanswered(c) ==
    /\ pc[c] = "attempt"
    /\ resends[c] < MaxResends
    /\ resends' = [resends EXCEPT ![c] = @ + 1]
    /\ lock' = Acquire(lock, Owner(c))
    /\ intruded' = Intrusion(Owner(c))
    /\ UNCHANGED <<pc, result, raised, wait, watchdog, lease>>

\* The driver gives up: its error leaves __call__ before the try block.
AttemptFails(c) ==
    /\ pc[c] = "attempt"
    /\ \/ /\ "request_lost" \in Faults
          /\ UNCHANGED <<lock, intruded>>
       \/ /\ "reply_lost" \in Faults
          /\ lock' = Acquire(lock, Owner(c))
          /\ intruded' = Intrusion(Owner(c))
    /\ pc' = [pc EXCEPT ![c] = "done"]
    /\ result' = [result EXCEPT ![c] = "connection_error"]
    /\ UNCHANGED <<raised, wait, resends, watchdog, lease>>

\* The reply is read; the watchdog starts before the body does.
Enter(c) ==
    /\ pc[c] = "acquired"
    /\ pc' = [pc EXCEPT ![c] = "inside"]
    /\ IF c \in AutoRenew
       THEN /\ chain' = [chain EXCEPT ![c] = "armed"]
            /\ due' = [due EXCEPT ![c] = Interval]
       ELSE UNCHANGED watchdog
    /\ UNCHANGED <<lock, result, raised, wait, resends, history>>

----------------------------------------------------------------------------
(* The watchdog: threading.Timer objects, or one asyncio task *)

\* The timer's interval has passed and it was not cancelled: renew() begins.
Fire(c) ==
    /\ chain[c] = "armed"
    /\ due[c] <= 0
    /\ chain' = [chain EXCEPT ![c] = "fired"]
    /\ UNCHANGED <<lock, pc, result, raised, wait, resends, due, history>>

\* Mutant: a task that swallows its cancellation.
UncancellableRenew(c) ==
    /\ chain[c] = "fired"
    /\ lock' = Extend(lock, Owner(c))
    /\ lease' = IF lock.owner = Owner(c) THEN Renewed(Owner(c)) ELSE lease
    /\ chain' = [chain EXCEPT ![c] = IF lock.owner = Owner(c) THEN "extended" ELSE "off"]
    /\ UNCHANGED <<pc, result, raised, wait, resends, due, intruded>>

\* The extend script runs.  A task cancelled meanwhile does not go on.
Renew(c) ==
    /\ chain[c] = "fired"
    /\ lock' = Extend(lock, Owner(c))
    /\ IF lock.owner = Owner(c)
       THEN /\ lease' = Renewed(Owner(c))
            /\ chain' = [chain EXCEPT ![c] =
                            IF Async /\ Cancelled(c) THEN "off" ELSE "extended"]
       ELSE /\ UNCHANGED lease
            /\ chain' = [chain EXCEPT ![c] = "off"]
    /\ UNCHANGED <<pc, result, raised, wait, resends, due, intruded>>

\* An exception in the script ends the chain: nothing arms another timer.  The
\* request of a cancelled task may also never be sent.
RenewFails(c) ==
    /\ chain[c] = "fired"
    /\ \/ /\ "request_lost" \in Faults \/ (Async /\ Cancelled(c))
          /\ UNCHANGED <<lock, lease>>
       \/ /\ "reply_lost" \in Faults
          /\ lock' = Extend(lock, Owner(c))
          /\ lease' = IF lock.owner = Owner(c) THEN Renewed(Owner(c)) ELSE lease
    /\ chain' = [chain EXCEPT ![c] = "off"]
    /\ UNCHANGED <<pc, result, raised, wait, resends, due, intruded>>

\* Mutant: the interval is the whole timeout.
SlowRearm(c) ==
    /\ chain[c] = "extended"
    /\ chain' = [chain EXCEPT ![c] = "armed"]
    /\ due' = [due EXCEPT ![c] = Timeout]
    /\ UNCHANGED <<lock, pc, result, raised, wait, resends, history>>

\* renew() adds the next timer to the handle, cancelled or not, and starts it.
Rearm(c) ==
    /\ chain[c] = "extended"
    /\ chain' = [chain EXCEPT ![c] = "armed"]
    /\ due' = [due EXCEPT ![c] = Interval]
    /\ UNCHANGED <<lock, pc, result, raised, wait, resends, history>>

\* _WatchdogHandle.cancel() reaches the timer that is waiting, and no other.
CancelTimers(c) ==
    chain' = [chain EXCEPT ![c] = IF @ = "armed" THEN "off" ELSE @]

\* Task.cancel() ends the task at its await; an extend already sent may still run.
CancelTask(c) ==
    chain' = [chain EXCEPT ![c] = IF @ = "fired" THEN @ ELSE "off"]

----------------------------------------------------------------------------
(* Leaving the block *)

Innermost(c) == \A d \in Calls : ThreadOf[d] = ThreadOf[c] /\ d > c => ~Active(d)

\* The body ends, or raises; both paths cancel the watchdog and then release.
Exit(c) ==
    /\ pc[c] = "inside"
    /\ Innermost(c)
    /\ \E r \in BOOLEAN : raised' = [raised EXCEPT ![c] = r]
    /\ pc' = [pc EXCEPT ![c] = "releasing"]
    /\ IF Async THEN CancelTask(c) ELSE CancelTimers(c)
    /\ UNCHANGED <<lock, result, wait, resends, due, history>>

Finish(c, r) ==
    /\ pc' = [pc EXCEPT ![c] = "done"]
    /\ result' = [result EXCEPT ![c] = r]
    /\ lease' = [lease EXCEPT ![c] = 0]
    /\ UNCHANGED <<raised, wait, watchdog, intruded>>

\* Mutants: the release's reply is ignored; it is awaited until it succeeds; a
\* body that raised leaves the key to expire.
TrustingRelease(c) ==
    /\ pc[c] = "releasing"
    /\ lock' = Release(lock, Owner(c))
    /\ Finish(c, IF raised[c] THEN "body_error" ELSE "released")
    /\ UNCHANGED resends
InsistentRelease(c) ==
    /\ pc[c] = "releasing"
    /\ lock.owner = Owner(c)
    /\ lock' = Release(lock, Owner(c))
    /\ Finish(c, IF raised[c] THEN "body_error" ELSE "released")
    /\ UNCHANGED resends
CarelessRelease(c) ==
    /\ pc[c] = "releasing"
    /\ lock' = IF raised[c] THEN lock ELSE Release(lock, Owner(c))
    /\ Finish(c, IF raised[c] THEN "body_error"
                 ELSE IF lock.owner = Owner(c) THEN "released" ELSE "release_error")
    /\ UNCHANGED resends

\* A body's exception survives LockReleaseError; a clean exit reports it.
ReleaseKey(c) ==
    /\ pc[c] = "releasing"
    /\ lock' = Release(lock, Owner(c))
    /\ Finish(c, IF raised[c] THEN "body_error"
                 ELSE IF lock.owner = Owner(c) THEN "released" ELSE "release_error")
    /\ UNCHANGED resends

ReleaseUnanswered(c) ==
    /\ pc[c] = "releasing"
    /\ resends[c] < MaxResends
    /\ resends' = [resends EXCEPT ![c] = @ + 1]
    /\ lock' = Release(lock, Owner(c))
    /\ lease' = [lease EXCEPT ![c] = 0]
    /\ UNCHANGED <<pc, result, raised, wait, watchdog, intruded>>

\* Only LockReleaseError is caught: the driver's error replaces the body's.
ReleaseFails(c) ==
    /\ pc[c] = "releasing"
    /\ \/ "request_lost" \in Faults /\ UNCHANGED lock
       \/ "reply_lost" \in Faults /\ lock' = Release(lock, Owner(c))
    /\ Finish(c, "connection_error")
    /\ UNCHANGED resends

----------------------------------------------------------------------------
(* The environment *)

\* The process of thread t is killed; its daemon timers die with it.
Crash(t) ==
    /\ "crash" \in Faults
    /\ \E c \in Calls : ThreadOf[c] = t /\ Active(c)
    /\ pc' = [c \in Calls |-> IF ThreadOf[c] = t THEN "done" ELSE pc[c]]
    /\ result' = [c \in Calls |-> IF ThreadOf[c] = t /\ pc[c] # "done" THEN "crashed" ELSE result[c]]
    /\ chain' = [c \in Calls |-> IF ThreadOf[c] = t THEN "off" ELSE chain[c]]
    /\ lease' = [c \in Calls |-> IF ThreadOf[c] = t THEN 0 ELSE lease[c]]
    /\ UNCHANGED <<lock, raised, wait, resends, due, intruded>>

\* The calls whose next watchdog step has a time to happen at.
Timed(c) == chain[c] # "off" \/ (pc[c] = "acquired" /\ c \in AutoRenew)

\* A tick passes unless that makes a watchdog later than MaxDelay.
Tick ==
    /\ \A c \in Calls : Timed(c) => due[c] > -MaxDelay
    /\ lock' = IF lock.ttl > 1 THEN [lock EXCEPT !.ttl = @ - 1] ELSE Free
    /\ wait' = [c \in Calls |-> IF wait[c] > 0 THEN wait[c] - 1 ELSE 0]
    /\ due' = [c \in Calls |-> IF Timed(c) THEN due[c] - 1 ELSE due[c]]
    /\ lease' = [c \in Calls |-> IF lease[c] > 0 THEN lease[c] - 1 ELSE 0]
    /\ UNCHANGED <<pc, result, raised, resends, chain, intruded>>

Acts(c) ==
    \/ Start(c) \/ CheckDeadline(c) \/ Attempt(c) \/ Enter(c) \/ Exit(c) \/ ReleaseKey(c)
    \/ Fire(c) \/ Renew(c) \/ Rearm(c)

Fails(c) ==
    \/ AttemptUnanswered(c) \/ AttemptFails(c) \/ RenewFails(c)
    \/ ReleaseUnanswered(c) \/ ReleaseFails(c)

Next ==
    \/ \E c \in Calls : Acts(c) \/ Fails(c)
    \/ \E t \in Threads : Crash(t)
    \/ Tick

(* Bodies end, threads and tasks are scheduled, and time passes. *)
Fairness ==
    /\ WF_vars(Tick)
    /\ \A c \in Calls :
        /\ WF_vars(CheckDeadline(c)) /\ WF_vars(Attempt(c)) /\ WF_vars(Enter(c))
        /\ WF_vars(Exit(c)) /\ WF_vars(ReleaseKey(c))
        /\ WF_vars(Fire(c)) /\ WF_vars(Renew(c)) /\ WF_vars(Rearm(c))

Spec == Init /\ [][Next]_vars
FairSpec == Spec /\ Fairness

----------------------------------------------------------------------------
(* Properties *)

\* The reentrant scripts count, so they are not idempotent: a release that is sent
\* twice counts twice.  These properties are about owners to whom it did not happen.
Unrepeated(o) == Reentrant => \A c \in Calls : Owner(c) = o => resends[c] = 0

\* A caller in its body whose lease has not run out owns the key: neither another
\* caller's release, nor a nested call's, nor a late renewal takes it away.
LeaseHonoured ==
    \A c \in Calls :
        (/\ pc[c] \in {"acquired", "inside"} /\ lease[c] > 0
         /\ Unrepeated(Owner(c)))
        => lock.owner = Owner(c)

\* Two owners are never both in their bodies with a lease that has not run out.
MutualExclusion ==
    \A c, d \in Calls :
        (/\ pc[c] = "inside" /\ lease[c] > 0 /\ Unrepeated(Owner(c))
         /\ pc[d] = "inside" /\ lease[d] > 0 /\ Unrepeated(Owner(d)))
        => Owner(c) = Owner(d)

\* A clean exit is a proof of exclusion: a caller that lost its lease to another
\* owner gets LockReleaseError, even when that owner has left again.  A thread
\* that swallowed a connection error may have re-created the key by it.
CleanExitMeansExclusive ==
    \A c \in Calls :
        (/\ result[c] = "released"
         /\ Unrepeated(Owner(c))
         /\ \A d \in Calls : ThreadOf[d] = ThreadOf[c] => result[d] # "connection_error")
        => ~intruded[c]

\* While its timers or its task live, an auto_renew caller keeps its lease, if no
\* watchdog step is late by a third of the timeout.
WatchdogKeepsLease ==
    MaxDelay < Interval =>
        \A c \in AutoRenew :
            (pc[c] = "inside" /\ chain[c] # "off") => lease[c] > 0

\* Once a thread's calls have returned, the key is not its own, if none of them
\* crashed or had a command fail or sent twice.
NoKeyLeftBehind ==
    \A t \in Threads :
        (\A c \in Calls : ThreadOf[c] = t =>
            /\ ~Active(c)
            /\ result[c] \notin {"connection_error", "crashed"}
            /\ resends[c] = 0)
        => \A c \in Calls : ThreadOf[c] = t => lock.owner # Owner(c)

\* What lock.en.md promises of every lock: the body's exception is what the
\* caller of the block sees, whatever the release does.
OriginalExceptionPropagates ==
    \A c \in Calls : raised[c] /\ pc[c] = "done" =>
        result[c] \in {"body_error", "crashed"}

\* What _WatchdogHandle's docstring promises: once the handle is cancelled and
\* the call has returned, no timer of its chain is waiting to renew the key.
AllTimersCancelled == \A c \in Calls : pc[c] = "done" => chain[c] # "armed"

\* Every call ends, however long the key is held by others.
EveryCallReturns == \A c \in Calls : Active(c) ~> pc[c] = "done"

\* A key whose owner has returned or crashed does not stay for ever: it expires.
AbandonedKeyExpires ==
    \A c \in Calls :
        (/\ lock.owner = Owner(c)
         /\ \A d \in Calls : Owner(d) = Owner(c) => pc[d] = "done")
        ~> lock.owner # Owner(c)
=============================================================================
