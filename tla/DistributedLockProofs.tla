------------------------ MODULE DistributedLockProofs ------------------------
(***************************************************************************)
(* Theorems about DistributedLock, for every set of calls and threads, any *)
(* timeout, and any number of lost replies, failed commands and crashes.   *)
(***************************************************************************)
EXTENDS DistributedLock, TLAPS

----------------------------------------------------------------------------
(* The commands keep the key well formed. *)

Keys == [owner : Owners \cup {None}, count : Nat, ttl : 0..Timeout]

\* The timeout is three intervals, and neither is zero.
LEMMA TimeoutType == Timeout \in Nat \ {0} /\ Interval \in Nat \ {0} /\ Interval <= Timeout
  BY LockAssumption DEF Timeout

\* Owners are calls in a basic lock and threads in a reentrant one.
LEMMA OwnerType == \A c \in Calls : Owner(c) \in Owners
  BY LockAssumption DEF Owner, Owners

\* The free key is a key.
LEMMA FreeType == Free \in Keys
  BY TimeoutType DEF Free, Keys

\* The scripts turn keys into keys.
LEMMA CommandType ==
    ASSUME NEW s \in Keys, NEW o \in Owners
    PROVE  Acquire(s, o) \in Keys /\ Release(s, o) \in Keys /\ Extend(s, o) \in Keys
<1>1. Timeout \in 0..Timeout
  BY TimeoutType
<1>2. Acquire(s, o) \in Keys
  BY <1>1 DEF Acquire, Keys
<1>3. s.count > 1 => s.count - 1 \in Nat
  BY DEF Keys
<1>4. Release(s, o) \in Keys
  BY <1>3, FreeType DEF Release, BasicRelease, ReentrantRelease, Keys
<1>5. Extend(s, o) \in Keys
  BY <1>1 DEF Extend, Keys
<1> QED
  BY <1>2, <1>4, <1>5

\* Renewals and intrusions keep the types of the history.
LEMMA HistoryType ==
    ASSUME TypeOK, NEW o
    PROVE  Renewed(o) \in [Calls -> 0..Timeout] /\ Intrusion(o) \in [Calls -> BOOLEAN]
<1>1. Timeout \in 0..Timeout
  BY TimeoutType
<1>2. Renewed(o) \in [Calls -> 0..Timeout]
  BY <1>1 DEF TypeOK, Renewed
<1>3. Intrusion(o) \in [Calls -> BOOLEAN]
  BY DEF TypeOK, Intrusion
<1> QED
  BY <1>2, <1>3

----------------------------------------------------------------------------
(* Type correctness *)

\* The types hold at first.
LEMMA InitType == Init => TypeOK
<1>1. Free \in Keys
  BY FreeType
<1>2. 0 \in 0..Wait /\ 0 \in 0..MaxResends /\ 0 \in -MaxDelay..Interval /\ 0 \in 0..Timeout
  BY LockAssumption, TimeoutType
<1> QED
  BY <1>1, <1>2 DEF Init, TypeOK, Keys

\* Every step keeps the types.
LEMMA NextType == TypeOK /\ [Next]_vars => TypeOK'
<1> SUFFICES ASSUME TypeOK, [Next]_vars
             PROVE  TypeOK'
  OBVIOUS
<1> USE DEF watchdog, history
<1>a. lock \in Keys
  BY DEF TypeOK, Keys
<1>b. \A c \in Calls : /\ Acquire(lock, Owner(c)) \in Keys
                       /\ Release(lock, Owner(c)) \in Keys
                       /\ Extend(lock, Owner(c)) \in Keys
  BY <1>a, CommandType, OwnerType
<1>c. /\ Timeout \in 0..Timeout /\ 0 \in 0..Timeout
      /\ 0 \in -MaxDelay..Interval /\ Interval \in -MaxDelay..Interval
      /\ 0 \in 0..Wait /\ Wait \in 0..Wait
  BY LockAssumption, TimeoutType
<1>d. \A c \in Calls : resends[c] < MaxResends => resends[c] + 1 \in 0..MaxResends
  BY LockAssumption DEF TypeOK
<1>e. ASSUME NEW c \in Calls, NEW r \in {"body_error", "released", "release_error", "connection_error"},
             lock' \in Keys, resends' = resends, Finish(c, r)
      PROVE  TypeOK'
  BY <1>c, <1>e DEF Finish, TypeOK, Keys
<1>1. ASSUME NEW c \in Calls, Start(c)
      PROVE  TypeOK'
  BY <1>1, <1>c DEF Start, TypeOK
<1>2. ASSUME NEW c \in Calls, CheckDeadline(c)
      PROVE  TypeOK'
  BY <1>2 DEF CheckDeadline, TypeOK
<1>3. ASSUME NEW c \in Calls, Attempt(c)
      PROVE  TypeOK'
  <2>1. lock' \in Keys
    BY <1>3, <1>b DEF Attempt
  <2>2. lease' \in [Calls -> 0..Timeout] /\ intruded' \in [Calls -> BOOLEAN]
    BY <1>3, <1>c, HistoryType DEF Attempt, TypeOK
  <2>3. due' \in [Calls -> -MaxDelay..Interval]
    BY <1>3, <1>c DEF Attempt, TypeOK
  <2>4. /\ pc' \in [Calls -> {"new", "check", "attempt", "acquired", "inside", "releasing", "done"}]
        /\ result' \in [Calls -> {"none", "released", "body_error", "acquire_error",
                                  "release_error", "connection_error", "crashed"}]
    BY <1>3 DEF Attempt, TypeOK
  <2>5. UNCHANGED <<raised, wait, resends, chain>>
    BY <1>3 DEF Attempt
  <2> QED
    BY <2>1, <2>2, <2>3, <2>4, <2>5 DEF TypeOK, Keys
<1>4. ASSUME NEW c \in Calls, AttemptUnanswered(c)
      PROVE  TypeOK'
  BY <1>4, <1>b, <1>d, HistoryType DEF AttemptUnanswered, TypeOK, Keys
<1>5. ASSUME NEW c \in Calls, AttemptFails(c)
      PROVE  TypeOK'
  <2>1. lock' \in Keys /\ intruded' \in [Calls -> BOOLEAN]
    BY <1>5, <1>a, <1>b, HistoryType DEF AttemptFails, TypeOK
  <2> QED
    BY <1>5, <2>1 DEF AttemptFails, TypeOK, Keys
<1>6. ASSUME NEW c \in Calls, Enter(c)
      PROVE  TypeOK'
  BY <1>6, <1>c DEF Enter, TypeOK
<1>7. ASSUME NEW c \in Calls, Exit(c)
      PROVE  TypeOK'
  <2>1. chain' \in [Calls -> {"off", "armed", "fired", "extended"}]
    BY <1>7 DEF Exit, CancelTask, CancelTimers, TypeOK
  <2>2. raised' \in [Calls -> BOOLEAN]
    BY <1>7 DEF Exit, TypeOK
  <2> QED
    BY <1>7, <2>1, <2>2 DEF Exit, TypeOK
<1>8. ASSUME NEW c \in Calls, ReleaseKey(c)
      PROVE  TypeOK'
  BY <1>8, <1>b, <1>e DEF ReleaseKey
<1>9. ASSUME NEW c \in Calls, Fire(c) \/ Rearm(c)
      PROVE  TypeOK'
  BY <1>9, <1>c DEF Fire, Rearm, TypeOK
<1>10. ASSUME NEW c \in Calls, Renew(c) \/ RenewFails(c)
       PROVE  TypeOK'
  <2>1. lock' \in Keys
    BY <1>10, <1>a, <1>b DEF Renew, RenewFails
  <2>2. lease' \in [Calls -> 0..Timeout]
    BY <1>10, HistoryType DEF Renew, RenewFails, TypeOK
  <2>3. chain' \in [Calls -> {"off", "armed", "fired", "extended"}]
    BY <1>10 DEF Renew, RenewFails, TypeOK
  <2> QED
    BY <1>10, <2>1, <2>2, <2>3 DEF Renew, RenewFails, TypeOK, Keys
<1>11. ASSUME NEW c \in Calls, ReleaseUnanswered(c)
       PROVE  TypeOK'
  BY <1>11, <1>b, <1>c, <1>d DEF ReleaseUnanswered, TypeOK, Keys
<1>12. ASSUME NEW c \in Calls, ReleaseFails(c)
       PROVE  TypeOK'
  BY <1>12, <1>a, <1>b, <1>e DEF ReleaseFails
<1>13. ASSUME NEW t \in Threads, Crash(t)
       PROVE  TypeOK'
  BY <1>13, <1>c DEF Crash, TypeOK
<1>14. CASE Tick
  <2>1. lock' \in Keys
    <3>1. lock.ttl > 1 => lock.ttl - 1 \in 0..Timeout
      BY <1>a, TimeoutType DEF Keys
    <3> QED
      BY <1>14, <1>a, <3>1, FreeType DEF Tick, Keys
  <2>2. wait' \in [Calls -> 0..Wait]
    BY <1>14, LockAssumption DEF Tick, TypeOK
  <2>3. due' \in [Calls -> -MaxDelay..Interval]
    BY <1>14, LockAssumption DEF Tick, TypeOK
  <2>4. lease' \in [Calls -> 0..Timeout]
    BY <1>14, TimeoutType DEF Tick, TypeOK
  <2> QED
    BY <1>14, <2>1, <2>2, <2>3, <2>4 DEF Tick, TypeOK, Keys
<1>15. CASE UNCHANGED vars
  BY <1>15 DEF vars, TypeOK
<1> QED
  BY <1>1, <1>2, <1>3, <1>4, <1>5, <1>6, <1>7, <1>8, <1>9, <1>10, <1>11, <1>12, <1>13,
     <1>14, <1>15 DEF Next, Acts, Fails

\* Type correctness: in particular no watchdog is later than MaxDelay, and no lease
\* is longer than the timeout.
THEOREM TypeCorrect == Spec => []TypeOK
  BY InitType, NextType, PTL DEF Spec

----------------------------------------------------------------------------
(* The watchdog keeps its lease *)

\* The time that one call's lease has left, bounded by the time of its watchdog's
\* next step: a third of the timeout is spent before each renewal, and the two
\* thirds that remain pay for the delays of Fire and of the steps after it.
WatchdogAhead(c) ==
    /\ chain[c] # "off" => pc[c] \in {"inside", "releasing", "done"}
    /\ pc[c] = "acquired" => due[c] <= 0 /\ lease[c] >= Timeout + due[c]
    /\ pc[c] = "inside" =>
        /\ chain[c] \in {"armed", "fired"} => lease[c] >= 2 * Interval - MaxDelay + due[c]
        /\ chain[c] = "fired" => due[c] <= 0
        /\ chain[c] = "extended" => due[c] <= 0 /\ lease[c] >= Timeout + due[c]

WatchdogInv == MaxDelay < Interval => \A c \in AutoRenew : WatchdogAhead(c)

\* A watchdog that is ahead of its caller's lease keeps it alive.
LEMMA WatchdogAheadKeeps ==
    ASSUME TypeOK, WatchdogInv
    PROVE  WatchdogKeepsLease
<1> SUFFICES ASSUME MaxDelay < Interval, NEW c \in AutoRenew, pc[c] = "inside", chain[c] # "off"
             PROVE  lease[c] > 0
  BY DEF WatchdogKeepsLease
<1>1. WatchdogAhead(c) /\ c \in Calls
  BY LockAssumption DEF WatchdogInv
<1>2. due[c] >= -MaxDelay /\ due[c] \in Int /\ lease[c] \in Int
  BY <1>1, LockAssumption, TimeoutType DEF TypeOK
<1>3. chain[c] \in {"armed", "fired", "extended"}
  BY <1>1 DEF TypeOK
<1> QED
  BY <1>1, <1>2, <1>3, LockAssumption DEF WatchdogAhead, Timeout

\* What the other calls do to a call's lease: their renewals can only lengthen it.
LEMMA OthersLengthen ==
    ASSUME TypeOK, NEW c \in Calls, NEW o
    PROVE  Renewed(o)[c] >= lease[c] /\ (Renewed(o)[c] = lease[c] \/ Renewed(o)[c] = Timeout)
  BY TimeoutType DEF TypeOK, Renewed

\* Every step leaves every live watchdog ahead of the lease it renews.
LEMMA WatchdogNext == TypeOK /\ WatchdogInv /\ [Next]_vars => WatchdogInv'
<1> SUFFICES ASSUME TypeOK, WatchdogInv, [Next]_vars, MaxDelay < Interval, NEW c \in AutoRenew
             PROVE  WatchdogAhead(c)'
  BY DEF WatchdogInv
<1> USE DEF watchdog, history
<1>a. /\ WatchdogAhead(c) /\ c \in Calls
      /\ due[c] \in Int /\ -MaxDelay <= due[c] /\ due[c] <= Interval
      /\ lease[c] \in Nat /\ lease[c] <= Timeout
      /\ Interval \in Nat \ {0} /\ MaxDelay \in Nat /\ Timeout = 3 * Interval
  BY LockAssumption, TimeoutType DEF WatchdogInv, TypeOK, Timeout
<1>b. ASSUME pc'[c] = pc[c], chain'[c] = chain[c], due'[c] = due[c],
             lease'[c] = lease[c] \/ lease'[c] = Timeout
      PROVE  WatchdogAhead(c)'
  BY <1>a, <1>b DEF WatchdogAhead
<1>c. ASSUME pc'[c] \in {"new", "check", "attempt", "releasing", "done"},
             chain'[c] # "off" => pc'[c] \in {"releasing", "done"}
      PROVE  WatchdogAhead(c)'
  BY <1>c DEF WatchdogAhead
<1>d. \A o : Renewed(o)[c] = lease[c] \/ Renewed(o)[c] = Timeout
  BY <1>a, OthersLengthen
<1>1. ASSUME NEW d \in Calls, Start(d) \/ CheckDeadline(d)
      PROVE  WatchdogAhead(c)'
  BY <1>1, <1>a, <1>b, <1>c DEF Start, CheckDeadline, TypeOK, WatchdogAhead
<1>2. ASSUME NEW d \in Calls, Attempt(d)
      PROVE  WatchdogAhead(c)'
  <2>1. CASE d # c
    <3>1. pc'[c] = pc[c] /\ chain'[c] = chain[c] /\ due'[c] = due[c]
      BY <1>2, <1>a, <2>1 DEF Attempt, TypeOK
    <3>2. lease'[c] = lease[c] \/ lease'[c] = Renewed(Owner(d))[c]
      BY <1>2, <1>a, <2>1, HistoryType DEF Attempt
    <3> QED
      BY <1>b, <1>d, <3>1, <3>2
  <2>2. CASE d = c /\ pc'[c] = "acquired"
    <3>1. due'[c] = 0 /\ lease'[c] = Timeout /\ chain'[c] = "off"
      BY <1>2, <1>a, <2>2, HistoryType DEF Attempt, TypeOK, WatchdogAhead
    <3> QED
      BY <1>a, <2>2, <3>1 DEF WatchdogAhead
  <2>3. CASE d = c /\ pc'[c] # "acquired"
    BY <1>2, <1>a, <1>c, <2>3 DEF Attempt, TypeOK, WatchdogAhead
  <2> QED
    BY <2>1, <2>2, <2>3
<1>3. ASSUME NEW d \in Calls, AttemptUnanswered(d)
      PROVE  WatchdogAhead(c)'
  BY <1>3, <1>a, <1>b DEF AttemptUnanswered, TypeOK
<1>4. ASSUME NEW d \in Calls, AttemptFails(d)
      PROVE  WatchdogAhead(c)'
  BY <1>4, <1>a, <1>b, <1>c DEF AttemptFails, TypeOK, WatchdogAhead
<1>5. ASSUME NEW d \in Calls, Enter(d)
      PROVE  WatchdogAhead(c)'
  <2>1. CASE d # c
    BY <1>5, <1>a, <1>b, <2>1 DEF Enter, TypeOK
  <2>2. CASE d = c
    BY <1>5, <1>a, <2>2 DEF Enter, TypeOK, WatchdogAhead
  <2> QED
    BY <2>1, <2>2
<1>6. ASSUME NEW d \in Calls, Exit(d)
      PROVE  WatchdogAhead(c)'
  <2>1. CASE d # c
    BY <1>6, <1>a, <1>b, <2>1 DEF Exit, CancelTask, CancelTimers, TypeOK
  <2>2. CASE d = c
    BY <1>6, <1>a, <1>c, <2>2 DEF Exit, TypeOK
  <2> QED
    BY <2>1, <2>2
<1>7. ASSUME NEW d \in Calls, ReleaseKey(d) \/ ReleaseFails(d)
      PROVE  WatchdogAhead(c)'
  <2>1. CASE d # c
    BY <1>7, <1>a, <1>b, <2>1 DEF ReleaseKey, ReleaseFails, Finish, TypeOK
  <2>2. CASE d = c
    BY <1>7, <1>a, <1>c, <2>2 DEF ReleaseKey, ReleaseFails, Finish, TypeOK
  <2> QED
    BY <2>1, <2>2
<1>8. ASSUME NEW d \in Calls, ReleaseUnanswered(d)
      PROVE  WatchdogAhead(c)'
  <2>1. CASE d # c
    BY <1>8, <1>a, <1>b, <2>1 DEF ReleaseUnanswered, TypeOK
  <2>2. CASE d = c
    BY <1>8, <1>a, <1>c, <2>2 DEF ReleaseUnanswered, TypeOK
  <2> QED
    BY <2>1, <2>2
<1>9. ASSUME NEW d \in Calls, Fire(d)
      PROVE  WatchdogAhead(c)'
  BY <1>9, <1>a, <1>b DEF Fire, TypeOK, WatchdogAhead
<1>10. ASSUME NEW d \in Calls, Renew(d)
       PROVE  WatchdogAhead(c)'
  <2>1. CASE d # c
    BY <1>10, <1>a, <1>b, <1>d, <2>1 DEF Renew, TypeOK
  <2>2. CASE d = c /\ chain'[c] = "off"
    BY <1>10, <1>a, <2>2 DEF Renew, TypeOK, WatchdogAhead
  <2>3. CASE d = c /\ chain'[c] # "off"
    <3>1. chain'[c] = "extended" /\ lock.owner = Owner(c) /\ chain[c] = "fired"
      BY <1>10, <1>a, <2>3 DEF Renew, TypeOK
    <3>2. pc[c] = "inside" => lease[c] > 0
      BY <1>a, <3>1 DEF WatchdogAhead
    <3>3. pc[c] = "inside" => lease'[c] = Timeout
      BY <1>10, <1>a, <2>3, <3>1, <3>2 DEF Renew, Renewed, TypeOK
    <3> QED
      BY <1>10, <1>a, <2>3, <3>1, <3>3 DEF Renew, WatchdogAhead
  <2> QED
    BY <2>1, <2>2, <2>3
<1>11. ASSUME NEW d \in Calls, RenewFails(d)
       PROVE  WatchdogAhead(c)'
  <2>1. CASE d # c
    BY <1>11, <1>a, <1>b, <1>d, <2>1 DEF RenewFails, TypeOK
  <2>2. CASE d = c
    BY <1>11, <1>a, <2>2 DEF RenewFails, TypeOK, WatchdogAhead
  <2> QED
    BY <2>1, <2>2
<1>12. ASSUME NEW d \in Calls, Rearm(d)
       PROVE  WatchdogAhead(c)'
  <2>1. CASE d # c
    BY <1>12, <1>a, <1>b, <2>1 DEF Rearm, TypeOK
  <2>2. CASE d = c
    BY <1>12, <1>a, <2>2 DEF Rearm, TypeOK, WatchdogAhead
  <2> QED
    BY <2>1, <2>2
<1>13. ASSUME NEW t \in Threads, Crash(t)
       PROVE  WatchdogAhead(c)'
  BY <1>13, <1>a, <1>b, <1>c DEF Crash
<1>14. CASE Tick
  <2>1. pc'[c] = pc[c] /\ chain'[c] = chain[c]
    BY <1>14 DEF Tick
  <2>2. lease'[c] = IF lease[c] > 0 THEN lease[c] - 1 ELSE 0
    BY <1>14, <1>a DEF Tick
  <2>3. due'[c] = IF Timed(c) THEN due[c] - 1 ELSE due[c]
    BY <1>14, <1>a DEF Tick
  <2> QED
    BY <1>a, <2>1, <2>2, <2>3 DEF Timed, WatchdogAhead
<1>15. CASE UNCHANGED vars
  BY <1>15, <1>b DEF vars
<1> QED
  BY <1>1, <1>2, <1>3, <1>4, <1>5, <1>6, <1>7, <1>8, <1>9, <1>10, <1>11, <1>12, <1>13,
     <1>14, <1>15 DEF Next, Acts, Fails

\* An auto_renew caller whose chain lives never loses its lease while it is inside,
\* whatever the other calls do, provided no step of its watchdog is late by a third
\* of the timeout.
THEOREM WatchdogSound == Spec => []WatchdogKeepsLease
<1>1. Init => WatchdogInv
  BY LockAssumption DEF Init, WatchdogInv, WatchdogAhead
<1>2. Spec => []WatchdogInv
  BY <1>1, TypeCorrect, WatchdogNext, PTL DEF Spec
<1>3. TypeOK /\ WatchdogInv => WatchdogKeepsLease
  BY WatchdogAheadKeeps
<1> QED
  BY <1>2, <1>3, TypeCorrect, PTL
=============================================================================
