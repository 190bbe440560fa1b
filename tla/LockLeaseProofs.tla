--------------------------- MODULE LockLeaseProofs ---------------------------
(***************************************************************************)
(* DistributedLock honours its leases, and so excludes; a caller that      *)
(* leaves without an error was never intruded upon; and no call without a  *)
(* fault leaves the key behind.  The theorems, with the two invariants     *)
(* they need: one of the leases, one of the count of the key.              *)
(***************************************************************************)
EXTENDS DistributedLockProofs, FiniteSetTheorems

Holds == {"acquired", "inside", "releasing"}

\* The calls whose lease binds the key: no script of their owner was sent twice.
Live == {c \in Calls : lease[c] > 0 /\ Unrepeated(Owner(c))}

\* Only a call that has the lock, or is giving it back, has a lease.
LeaseInside == \A c \in Calls : lease[c] > 0 => pc[c] \in Holds

\* While an inner call is under way, the outer one waits in its body.
Nesting ==
    \A c, d \in Calls :
        (ThreadOf[c] = ThreadOf[d] /\ c < d /\ pc[d] \notin {"new", "done"})
        => pc[c] \in {"new", "inside", "done"}

\* An inner call's lease is not shorter than an outer one's.
LeasesNested ==
    Reentrant =>
        \A c, d \in Calls :
            (/\ ThreadOf[c] = ThreadOf[d] /\ c < d /\ pc[c] \in Holds /\ pc[d] \in Holds
             /\ Unrepeated(ThreadOf[c]))
            => lease[c] <= lease[d]

\* The key outlives the leases of its owner's calls.
LeaseBacked == \A c \in Live : lock.owner = Owner(c) /\ lock.ttl >= lease[c]

\* The count is not below the number of those calls, so the release of one
\* of them leaves the key to the others.
CountCovers == Reentrant => Cardinality(Live) <= lock.count

LeaseInv == LeaseInside /\ Nesting /\ LeasesNested /\ LeaseBacked /\ CountCovers

----------------------------------------------------------------------------
(* What a step does to the key and to the leases. *)

Dropped == lock' = lock /\ \A c \in Calls : lease'[c] = 0 \/ lease'[c] = lease[c]

Unclaimed(c) == lock' = Acquire(lock, Owner(c)) /\ lease' = lease

Granted(c) ==
    /\ Grants(lock, Owner(c))
    /\ lock' = Acquire(lock, Owner(c))
    /\ lease' = [Renewed(Owner(c)) EXCEPT ![c] = Timeout]

Extended(c) ==
    /\ lock' = Extend(lock, Owner(c))
    /\ lease' = IF lock.owner = Owner(c) THEN Renewed(Owner(c)) ELSE lease

Released(c) ==
    /\ pc[c] = "releasing"
    /\ lock' = Release(lock, Owner(c))
    /\ lease' = [lease EXCEPT ![c] = 0]

\* Every step drops leases, tries for the key, gets it, extends it, gives it back or
\* lets time pass.
LEMMA Effects ==
    ASSUME TypeOK, [Next]_vars
    PROVE  \/ Dropped
           \/ \E c \in Calls : Unclaimed(c) \/ Granted(c) \/ Extended(c) \/ Released(c)
           \/ Tick
<1> USE DEF watchdog, history
<1>1. ASSUME NEW c \in Calls, Acts(c)
      PROVE  Dropped \/ Unclaimed(c) \/ Granted(c) \/ Extended(c) \/ Released(c)
  <2>1. CASE Start(c) \/ CheckDeadline(c) \/ Enter(c) \/ Exit(c) \/ Fire(c) \/ Rearm(c)
    BY <2>1 DEF Start, CheckDeadline, Enter, Exit, Fire, Rearm, Dropped
  <2>2. CASE Attempt(c)
    BY <2>2 DEF Attempt, Acquire, Unclaimed, Granted
  <2>3. CASE Renew(c)
    BY <2>3 DEF Renew, Extended
  <2>4. CASE ReleaseKey(c)
    BY <2>4 DEF ReleaseKey, Finish, Released
  <2> QED
    BY <1>1, <2>1, <2>2, <2>3, <2>4 DEF Acts
<1>2. ASSUME NEW c \in Calls, Fails(c)
      PROVE  Dropped \/ Unclaimed(c) \/ Granted(c) \/ Extended(c) \/ Released(c)
  <2>1. CASE AttemptUnanswered(c) \/ AttemptFails(c)
    BY <2>1 DEF AttemptUnanswered, AttemptFails, Unclaimed, Dropped
  <2>2. CASE RenewFails(c)
    BY <2>2 DEF RenewFails, Extended, Dropped
  <2>3. CASE ReleaseUnanswered(c)
    BY <2>3 DEF ReleaseUnanswered, Released
  <2>4. CASE ReleaseFails(c)
    BY <2>4 DEF ReleaseFails, Finish, Released, Dropped, TypeOK
  <2> QED
    BY <1>2, <2>1, <2>2, <2>3, <2>4 DEF Fails
<1>3. ASSUME NEW t \in Threads, Crash(t)
      PROVE  Dropped
  BY <1>3 DEF Crash, Dropped
<1>4. CASE UNCHANGED vars
  BY <1>4 DEF vars, Dropped
<1> QED
  BY <1>1, <1>2, <1>3, <1>4 DEF Next

\* A command that was sent twice was sent twice: the count of them never falls.
LEMMA ResendsStay ==
    ASSUME TypeOK, [Next]_vars, NEW c \in Calls
    PROVE  resends[c] # 0 => resends'[c] # 0
<1> USE DEF watchdog, history
<1>a. resends[c] \in Nat
  BY LockAssumption DEF TypeOK
<1>1. ASSUME NEW e \in Calls, Acts(e)
      PROVE  resends' = resends
  BY <1>1 DEF Acts, Start, CheckDeadline, Attempt, Enter, Exit, ReleaseKey, Finish, Fire, Renew, Rearm
<1>2. ASSUME NEW e \in Calls, Fails(e)
      PROVE  resends[c] # 0 => resends'[c] # 0
  BY <1>2, <1>a DEF Fails, AttemptUnanswered, AttemptFails, RenewFails, ReleaseUnanswered,
                    ReleaseFails, TypeOK
<1>3. CASE Tick \/ UNCHANGED vars \/ \E t \in Threads : Crash(t)
  BY <1>3 DEF Tick, vars, Crash
<1> QED
  BY <1>1, <1>2, <1>3 DEF Next

\* Whose commands were sent once after a step had sent them once before it.
LEMMA UnrepeatedBefore ==
    ASSUME TypeOK, [Next]_vars
    PROVE  \A o : Unrepeated(o)' => Unrepeated(o)
BY ResendsStay DEF Unrepeated, Owner

----------------------------------------------------------------------------
(* The nesting of a thread's calls *)

\* A thread starts no call while an inner one is under way, so the nesting stays.
LEMMA NestingNext ==
    ASSUME TypeOK, Nesting, [Next]_vars
    PROVE  Nesting'
<1> SUFFICES ASSUME NEW c \in Calls, NEW d \in Calls, ThreadOf[c] = ThreadOf[d], c < d,
                    pc'[d] \notin {"new", "done"}
             PROVE  pc'[c] \in {"new", "inside", "done"}
  BY DEF Nesting
<1> USE DEF watchdog, history
<1>a. c \in Nat /\ d \in Nat /\ c # d
  BY LockAssumption
<1>b. pc[d] \notin {"new", "done"} => pc[c] \in {"new", "inside", "done"}
  BY DEF Nesting
<1>1. ASSUME NEW e \in Calls, Start(e)
      PROVE  pc'[c] \in {"new", "inside", "done"}
  BY <1>1, <1>a, <1>b DEF Start, TypeOK
<1>2. ASSUME NEW e \in Calls,
             CheckDeadline(e) \/ Attempt(e) \/ AttemptUnanswered(e) \/ AttemptFails(e)
      PROVE  pc'[c] \in {"new", "inside", "done"}
  BY <1>2, <1>a, <1>b DEF CheckDeadline, Attempt, AttemptUnanswered, AttemptFails, TypeOK
<1>3. ASSUME NEW e \in Calls, Enter(e)
      PROVE  pc'[c] \in {"new", "inside", "done"}
  BY <1>3, <1>a, <1>b DEF Enter, TypeOK
<1>4. ASSUME NEW e \in Calls, Exit(e)
      PROVE  pc'[c] \in {"new", "inside", "done"}
  BY <1>4, <1>a, <1>b DEF Exit, Innermost, Active, TypeOK
<1>5. ASSUME NEW e \in Calls, ReleaseKey(e) \/ ReleaseUnanswered(e) \/ ReleaseFails(e)
      PROVE  pc'[c] \in {"new", "inside", "done"}
  BY <1>5, <1>a, <1>b DEF ReleaseKey, ReleaseUnanswered, ReleaseFails, Finish, TypeOK
<1>6. ASSUME NEW e \in Calls, Fire(e) \/ Renew(e) \/ RenewFails(e) \/ Rearm(e)
      PROVE  pc'[c] \in {"new", "inside", "done"}
  BY <1>6, <1>b DEF Fire, Renew, RenewFails, Rearm
<1>7. ASSUME NEW t \in Threads, Crash(t)
      PROVE  pc'[c] \in {"new", "inside", "done"}
  BY <1>7, <1>b DEF Crash
<1>8. CASE Tick \/ UNCHANGED vars
  BY <1>8, <1>b DEF Tick, vars
<1> QED
  BY <1>1, <1>2, <1>3, <1>4, <1>5, <1>6, <1>7, <1>8 DEF Next, Acts, Fails

----------------------------------------------------------------------------
(* Who has a lease *)

\* Renewals and acquisitions give time to the calls that have some, and to the
\* call that acquires.
LEMMA LeaseFacts ==
    ASSUME TypeOK
    PROVE  /\ \A c \in Calls : lease[c] \in Nat /\ lease[c] <= Timeout
           /\ \A o : \A c \in Calls :
                Renewed(o)[c] = IF Owner(c) = o /\ lease[c] > 0 THEN Timeout ELSE lease[c]
           /\ \A c \in Calls : \A d \in Calls :
                [Renewed(Owner(c)) EXCEPT ![c] = Timeout][d] =
                    IF d = c THEN Timeout ELSE Renewed(Owner(c))[d]
           /\ Timeout \in Nat \ {0}
BY TimeoutType DEF TypeOK, Renewed

\* A step leaves leases to the calls that have the lock only.
LEMMA LeaseInsideNext ==
    ASSUME TypeOK, LeaseInside, [Next]_vars
    PROVE  LeaseInside'
<1> SUFFICES ASSUME NEW c \in Calls, lease'[c] > 0
             PROVE  pc'[c] \in Holds
  BY DEF LeaseInside
<1> USE DEF watchdog, history
<1>a. lease[c] > 0 => pc[c] \in Holds
  BY DEF LeaseInside
<1>b. \A o : Renewed(o)[c] > 0 => lease[c] > 0
  BY LeaseFacts
<1>1. ASSUME NEW e \in Calls, Start(e) \/ CheckDeadline(e)
      PROVE  pc'[c] \in Holds
  BY <1>1, <1>a DEF Start, CheckDeadline, TypeOK, Holds
<1>2. ASSUME NEW e \in Calls, Attempt(e)
      PROVE  pc'[c] \in Holds
  <2>1. lease'[c] = lease[c] \/ lease'[c] = Renewed(Owner(e))[c]
        \/ (c = e /\ pc'[c] = "acquired")
    <3>1. CASE lease' = [Renewed(Owner(e)) EXCEPT ![e] = Timeout] /\ pc' = [pc EXCEPT ![e] = "acquired"]
      BY <3>1, LeaseFacts DEF TypeOK
    <3>2. CASE lease' = lease
      BY <3>2
    <3> QED
      BY <1>2, <3>1, <3>2 DEF Attempt
  <2>2. CASE c = e /\ pc'[c] = "acquired"
    BY <2>2 DEF Holds
  <2>3. CASE lease[c] > 0
    BY <1>2, <1>a, <2>3 DEF Attempt, TypeOK, Holds
  <2> QED
    BY <1>b, <2>1, <2>2, <2>3
<1>3. ASSUME NEW e \in Calls, AttemptUnanswered(e) \/ AttemptFails(e)
      PROVE  pc'[c] \in Holds
  BY <1>3, <1>a DEF AttemptUnanswered, AttemptFails, TypeOK, Holds
<1>4. ASSUME NEW e \in Calls, Enter(e) \/ Exit(e)
      PROVE  pc'[c] \in Holds
  BY <1>4, <1>a DEF Enter, Exit, TypeOK, Holds
<1>5. ASSUME NEW e \in Calls, ReleaseKey(e) \/ ReleaseUnanswered(e) \/ ReleaseFails(e)
      PROVE  pc'[c] \in Holds
  BY <1>5, <1>a DEF ReleaseKey, ReleaseUnanswered, ReleaseFails, Finish, TypeOK
<1>6. ASSUME NEW e \in Calls, Fire(e) \/ Renew(e) \/ RenewFails(e) \/ Rearm(e)
      PROVE  pc'[c] \in Holds
  <2>1. pc' = pc /\ (lease'[c] = lease[c] \/ lease'[c] = Renewed(Owner(e))[c])
    BY <1>6 DEF Fire, Renew, RenewFails, Rearm
  <2> QED
    BY <1>a, <1>b, <2>1
<1>7. ASSUME NEW t \in Threads, Crash(t)
      PROVE  pc'[c] \in Holds
  BY <1>7, <1>a DEF Crash
<1>8. CASE Tick
  BY <1>8, <1>a, LeaseFacts DEF Tick
<1>9. CASE UNCHANGED vars
  BY <1>9, <1>a DEF vars
<1> QED
  BY <1>1, <1>2, <1>3, <1>4, <1>5, <1>6, <1>7, <1>8, <1>9 DEF Next, Acts, Fails

\* An inner call is granted the key later than an outer one, so its lease stays the
\* longer.
LEMMA LeasesNestedNext ==
    ASSUME TypeOK, Nesting, LeasesNested, [Next]_vars
    PROVE  LeasesNested'
<1> SUFFICES ASSUME Reentrant,
                    NEW c \in Calls, NEW d \in Calls, ThreadOf[c] = ThreadOf[d], c < d,
                    pc'[c] \in Holds, pc'[d] \in Holds, Unrepeated(ThreadOf[c])'
             PROVE  lease'[c] <= lease'[d]
  BY DEF LeasesNested
<1> USE DEF watchdog, history
<1>a. /\ c \in Nat /\ d \in Nat /\ c # d /\ Owner(c) = Owner(d)
      /\ lease[c] \in Nat /\ lease[d] \in Nat /\ lease[c] <= Timeout /\ Timeout \in Nat \ {0}
  BY LockAssumption, LeaseFacts DEF Owner
<1>b. pc[c] \in Holds /\ pc[d] \in Holds => lease[c] <= lease[d]
  BY UnrepeatedBefore DEF LeasesNested
<1>c. pc[d] \notin {"new", "done"} => pc[c] \in {"new", "inside", "done"}
  BY DEF Nesting
<1>d. ASSUME lease[c] <= lease[d], NEW o
      PROVE  Renewed(o)[c] <= Renewed(o)[d]
  BY <1>a, <1>d, LeaseFacts
<1>1. ASSUME NEW e \in Calls, Start(e) \/ CheckDeadline(e) \/ AttemptUnanswered(e) \/ AttemptFails(e)
      PROVE  lease'[c] <= lease'[d]
  <2>1. lease' = lease /\ pc[c] \in Holds /\ pc[d] \in Holds
    BY <1>1 DEF Start, CheckDeadline, AttemptUnanswered, AttemptFails, TypeOK, Holds
  <2> QED
    BY <1>b, <2>1
<1>2. ASSUME NEW e \in Calls, Attempt(e)
      PROVE  lease'[c] <= lease'[d]
  <2>1. CASE pc'[e] # "acquired"
    <3>1. lease' = lease /\ pc[c] \in Holds /\ pc[d] \in Holds
      BY <1>2, <2>1 DEF Attempt, TypeOK, Holds
    <3> QED
      BY <1>b, <3>1
  <2>2. CASE pc'[e] = "acquired"
    <3>1. lease' = [Renewed(Owner(e)) EXCEPT ![e] = Timeout]
      BY <1>2, <2>2 DEF Attempt, TypeOK
    <3>2. c # e
      BY <1>2, <1>a, <1>c DEF Attempt, TypeOK, Holds
    <3>3. CASE d = e
      <4>1. lease'[d] = Timeout /\ lease'[c] = Renewed(Owner(e))[c]
        BY <3>1, <3>2, <3>3, LeaseFacts
      <4> QED
        BY <1>a, <4>1, LeaseFacts
    <3>4. CASE d # e
      <4>1. lease'[d] = Renewed(Owner(e))[d] /\ lease'[c] = Renewed(Owner(e))[c]
        BY <3>1, <3>2, <3>4, LeaseFacts
      <4>2. pc[c] \in Holds /\ pc[d] \in Holds
        BY <1>2, <3>2, <3>4 DEF Attempt, TypeOK
      <4> QED
        BY <1>b, <1>d, <4>1, <4>2
    <3> QED
      BY <3>3, <3>4
  <2> QED
    BY <2>1, <2>2
<1>3. ASSUME NEW e \in Calls, Enter(e) \/ Exit(e)
      PROVE  lease'[c] <= lease'[d]
  <2>1. lease' = lease /\ pc[c] \in Holds /\ pc[d] \in Holds
    BY <1>3 DEF Enter, Exit, TypeOK, Holds
  <2> QED
    BY <1>b, <2>1
<1>4. ASSUME NEW e \in Calls, ReleaseKey(e) \/ ReleaseFails(e)
      PROVE  lease'[c] <= lease'[d]
  <2>1. c # e /\ d # e
    BY <1>4 DEF ReleaseKey, ReleaseFails, Finish, TypeOK, Holds
  <2>2. lease'[c] = lease[c] /\ lease'[d] = lease[d] /\ pc[c] \in Holds /\ pc[d] \in Holds
    BY <1>4, <2>1 DEF ReleaseKey, ReleaseFails, Finish, TypeOK
  <2> QED
    BY <1>b, <2>2
<1>5. ASSUME NEW e \in Calls, ReleaseUnanswered(e)
      PROVE  lease'[c] <= lease'[d]
  <2>1. resends'[e] = resends[e] + 1 /\ resends[e] \in Nat
    BY <1>5, LockAssumption DEF ReleaseUnanswered, TypeOK
  <2>2. c # e /\ d # e
    BY <2>1, <1>a DEF Unrepeated, Owner
  <2>3. lease'[c] = lease[c] /\ lease'[d] = lease[d] /\ pc' = pc
    BY <1>5, <2>2 DEF ReleaseUnanswered, TypeOK
  <2> QED
    BY <1>b, <2>3
<1>6. ASSUME NEW e \in Calls, Fire(e) \/ Renew(e) \/ RenewFails(e) \/ Rearm(e)
      PROVE  lease'[c] <= lease'[d]
  <2>1. pc' = pc /\ (lease' = lease \/ lease' = Renewed(Owner(e)))
    BY <1>6 DEF Fire, Renew, RenewFails, Rearm
  <2> QED
    BY <1>b, <1>d, <2>1
<1>7. ASSUME NEW t \in Threads, Crash(t)
      PROVE  lease'[c] <= lease'[d]
  BY <1>7, <1>b DEF Crash, Holds
<1>8. CASE Tick
  BY <1>8, <1>a, <1>b DEF Tick
<1>9. CASE UNCHANGED vars
  BY <1>9, <1>b DEF vars
<1> QED
  BY <1>1, <1>2, <1>3, <1>4, <1>5, <1>6, <1>7, <1>8, <1>9 DEF Next, Acts, Fails

----------------------------------------------------------------------------
(* The key outlives the leases, and counts them *)

\* The calls with a lease can be counted.
LEMMA LiveFinite == IsFiniteSet(Live) /\ Cardinality(Live) \in Nat
BY LockAssumption, FS_Subset, FS_CardinalityType DEF Live

\* A free key has no live lease.
LEMMA FreeMeansNone ==
    ASSUME LeaseBacked, lock.owner = None
    PROVE  Live = {}
BY LockAssumption, OwnerType DEF LeaseBacked, Live, Owners

\* A step that takes leases away and leaves the key alone backs the rest as before.
LEMMA DroppedKeeps ==
    ASSUME TypeOK, LeaseBacked, CountCovers, [Next]_vars, Dropped
    PROVE  LeaseBacked' /\ CountCovers'
<1>1. Live' \subseteq Live /\ \A c \in Live' : lease'[c] = lease[c]
  BY UnrepeatedBefore DEF Live, Dropped, Owner
<1>2. LeaseBacked'
  BY <1>1 DEF LeaseBacked, Dropped, Owner
<1>3. Cardinality(Live') <= Cardinality(Live) /\ Cardinality(Live') \in Nat
  BY <1>1, LiveFinite, FS_Subset, FS_CardinalityType
<1>4. CountCovers'
  BY <1>3, LiveFinite DEF CountCovers, Dropped, TypeOK
<1> QED
  BY <1>2, <1>4

\* An acquisition whose reply is lost takes nothing from the leases there are.
LEMMA UnclaimedKeeps ==
    ASSUME TypeOK, LeaseBacked, CountCovers, [Next]_vars, NEW c \in Calls, Unclaimed(c)
    PROVE  LeaseBacked' /\ CountCovers'
<1>1. CASE ~Grants(lock, Owner(c))
  BY <1>1, DroppedKeeps DEF Unclaimed, Acquire, Dropped
<1>2. CASE Grants(lock, Owner(c))
  <2>1. lock' = [owner |-> Owner(c), count |-> lock.count + 1, ttl |-> Timeout]
    BY <1>2 DEF Unclaimed, Acquire
  <2>2. Live' \subseteq Live /\ lease' = lease
    BY UnrepeatedBefore DEF Unclaimed, Live, Owner
  <2>3. \A d \in Live : lock.owner = Owner(c)
    BY <1>2, FreeMeansNone DEF Grants
  <2>4. LeaseBacked'
    BY <2>1, <2>2, <2>3, LeaseFacts DEF LeaseBacked, Live, Owner
  <2>5. Cardinality(Live') <= Cardinality(Live) /\ Cardinality(Live') \in Nat
    BY <2>2, LiveFinite, FS_Subset, FS_CardinalityType
  <2>6. CountCovers'
    BY <2>1, <2>5, LiveFinite DEF CountCovers, TypeOK
  <2> QED
    BY <2>4, <2>6
<1> QED
  BY <1>1, <1>2

\* An acquisition backs the lease it grants.
LEMMA GrantedKeeps ==
    ASSUME TypeOK, LeaseBacked, CountCovers, [Next]_vars, NEW c \in Calls, Granted(c)
    PROVE  LeaseBacked' /\ CountCovers'
<1>1. lock' = [owner |-> Owner(c), count |-> lock.count + 1, ttl |-> Timeout]
  BY DEF Granted, Acquire
<1>2. \A d \in Calls : lease'[d] = IF d = c THEN Timeout ELSE Renewed(Owner(c))[d]
  BY LeaseFacts DEF Granted
<1>3. Live' \subseteq Live \cup {c}
  BY <1>2, LeaseFacts, UnrepeatedBefore DEF Live, Owner
<1>4. \A d \in Live : lock.owner = Owner(c) /\ Owner(d) = Owner(c)
  BY FreeMeansNone DEF Granted, Grants, LeaseBacked
<1>5. \A d \in Live' : Owner(d) = Owner(c) /\ lease'[d] <= Timeout
  BY <1>2, <1>3, <1>4, LeaseFacts DEF Live
<1>6. LeaseBacked'
  BY <1>1, <1>5, LeaseFacts DEF LeaseBacked, Owner
<1>7. Cardinality(Live') <= Cardinality(Live) + 1 /\ Cardinality(Live') \in Nat
  <2>1. /\ IsFiniteSet(Live \cup {c})
        /\ Cardinality(Live \cup {c}) \in Nat
        /\ Cardinality(Live \cup {c}) <= Cardinality(Live) + 1
    BY LiveFinite, FS_AddElement
  <2>2. Cardinality(Live') <= Cardinality(Live \cup {c}) /\ Cardinality(Live') \in Nat
    BY <1>3, <2>1, FS_Subset, FS_CardinalityType
  <2> QED
    BY <2>1, <2>2, LiveFinite
<1>8. CountCovers'
  BY <1>1, <1>7, LiveFinite DEF CountCovers, TypeOK
<1> QED
  BY <1>6, <1>8

\* A renewal lengthens the leases only with the key's ttl.
LEMMA ExtendedKeeps ==
    ASSUME TypeOK, LeaseBacked, CountCovers, [Next]_vars, NEW c \in Calls, Extended(c)
    PROVE  LeaseBacked' /\ CountCovers'
<1>1. CASE lock.owner # Owner(c)
  BY <1>1, DroppedKeeps DEF Extended, Extend, Dropped
<1>2. CASE lock.owner = Owner(c)
  <2>1. lock'.owner = lock.owner /\ lock'.count = lock.count /\ lock'.ttl = Timeout
    BY <1>2 DEF Extended, Extend, TypeOK
  <2>2. lease' = Renewed(Owner(c))
    BY <1>2 DEF Extended
  <2>3. Live' \subseteq Live /\ \A d \in Live : lease'[d] <= Timeout
    BY <2>2, LeaseFacts, UnrepeatedBefore DEF Live, Owner
  <2>4. LeaseBacked'
    BY <2>1, <2>3, LeaseFacts DEF LeaseBacked, Owner
  <2>5. Cardinality(Live') <= Cardinality(Live) /\ Cardinality(Live') \in Nat
    BY <2>3, LiveFinite, FS_Subset, FS_CardinalityType
  <2>6. CountCovers'
    BY <2>1, <2>5, LiveFinite DEF CountCovers, TypeOK
  <2> QED
    BY <2>4, <2>6
<1> QED
  BY <1>1, <1>2

\* The heart of the matter: a release of one call does not free, or uncount, another's.
LEMMA ReleasedKeeps ==
    ASSUME TypeOK, LeaseInv, [Next]_vars, NEW c \in Calls, Released(c)
    PROVE  LeaseBacked' /\ CountCovers'
<1> USE DEF LeaseInv
<1>a. Live' \subseteq Live \ {c} /\ \A d \in Live' : lease'[d] = lease[d]
  BY UnrepeatedBefore DEF Live, Released, TypeOK, Owner
<1>1. CASE lock.owner # Owner(c)
  BY <1>1, <1>a, DroppedKeeps DEF Released, Release, BasicRelease, ReentrantRelease, Dropped, TypeOK
<1>2. CASE lock.owner = Owner(c) /\ ~Reentrant
  <2>1. Live \subseteq {c}
    BY <1>2 DEF LeaseBacked, Owner, Live
  <2>2. Live' = {}
    BY <1>a, <2>1
  <2> QED
    BY <1>2, <2>2 DEF LeaseBacked, CountCovers
<1>3. CASE lock.owner = Owner(c) /\ Reentrant
  <2>1. ASSUME c \notin Live
        PROVE  Live = {}
    <3> SUFFICES ASSUME NEW d \in Live
                 PROVE  FALSE
      OBVIOUS
    <3>1. ThreadOf[d] = ThreadOf[c] /\ d \in Calls /\ d # c /\ d \in Nat /\ c \in Nat
      BY <1>3, <2>1, LockAssumption DEF LeaseBacked, Owner, Live
    <3>2. /\ pc[d] \in Holds /\ pc[c] = "releasing" /\ Unrepeated(ThreadOf[d])
          /\ lease[d] > 0 /\ ~(lease[c] > 0)
      BY <1>3, <2>1, <3>1 DEF LeaseInside, Released, Live, Owner
    <3>3. CASE c < d
      BY <3>1, <3>2, <3>3 DEF Nesting, Holds
    <3>4. CASE d < c
      <4>1. lease[d] <= lease[c]
        BY <1>3, <3>1, <3>2, <3>4 DEF LeasesNested, Holds
      <4> QED
        BY <3>1, <3>2, <4>1, LeaseFacts
    <3> QED
      BY <3>1, <3>3, <3>4
  <2>2. c \in Live => Cardinality(Live') \in Nat /\ Cardinality(Live') <= Cardinality(Live) - 1
    <3>1. /\ IsFiniteSet(Live \ {c})
          /\ c \in Live => Cardinality(Live \ {c}) = Cardinality(Live) - 1
      BY LiveFinite, FS_RemoveElement, FS_Subset
    <3>2. Cardinality(Live') \in Nat /\ Cardinality(Live') <= Cardinality(Live \ {c})
      BY <1>a, <3>1, FS_Subset, FS_CardinalityType
    <3> QED
      BY <3>1, <3>2
  <2>3. Cardinality(Live) <= lock.count /\ lock.count \in Nat
    BY <1>3 DEF CountCovers, TypeOK
  <2>4. Live' # {} => Cardinality(Live') # 0 /\ c \in Live
    <3>1. IsFiniteSet(Live')
      BY <1>a, LiveFinite, FS_Subset
    <3> QED
      BY <1>a, <2>1, <3>1, FS_EmptySet
  <2>5. CASE Live' = {}
    <3>1. Cardinality(Live') = 0
      BY <2>5, FS_EmptySet
    <3>2. lock' \in Keys
      BY CommandType, OwnerType DEF Released, TypeOK, Keys
    <3> QED
      BY <2>5, <3>1, <3>2 DEF LeaseBacked, CountCovers, Keys
  <2>6. CASE Live' # {}
    <3>1. lock.count > 1 /\ Cardinality(Live') <= lock.count - 1
      BY <2>2, <2>3, <2>4, <2>6, LiveFinite
    <3>2. /\ lock'.owner = lock.owner /\ lock'.ttl = lock.ttl
          /\ lock'.count = lock.count - 1
      BY <1>3, <3>1 DEF Released, Release, ReentrantRelease, TypeOK
    <3>3. LeaseBacked'
      BY <1>a, <3>2 DEF LeaseBacked, Owner
    <3> QED
      BY <3>1, <3>2, <3>3 DEF CountCovers
  <2> QED
    BY <2>5, <2>6
<1> QED
  BY <1>1, <1>2, <1>3

\* A tick takes as much from each lease as from the key's ttl.
LEMMA TickKeeps ==
    ASSUME TypeOK, LeaseBacked, CountCovers, [Next]_vars, Tick
    PROVE  LeaseBacked' /\ CountCovers'
<1>1. /\ Live' \subseteq Live
      /\ \A c \in Live' : lease[c] > 1 /\ lease'[c] = lease[c] - 1
  BY LeaseFacts, UnrepeatedBefore DEF Tick, Live, Owner
<1>2. lock.ttl \in Nat /\ lock.count \in Nat
  BY TimeoutType DEF TypeOK
<1>3. CASE Live' = {}
  <2>1. Cardinality(Live') = 0
    BY <1>3, FS_EmptySet
  <2>2. lock'.count \in Nat
    BY NextType DEF Next, TypeOK
  <2> QED
    BY <1>3, <2>1, <2>2 DEF LeaseBacked, CountCovers
<1>4. CASE Live' # {}
  <2>1. lock.ttl > 1
    BY <1>1, <1>2, <1>4, LeaseFacts DEF LeaseBacked, Live
  <2>2. lock'.owner = lock.owner /\ lock'.count = lock.count /\ lock'.ttl = lock.ttl - 1
    BY <2>1 DEF Tick, TypeOK
  <2>3. LeaseBacked'
    BY <1>1, <1>2, <2>2, LeaseFacts DEF LeaseBacked, Owner, Live
  <2>4. Cardinality(Live') <= Cardinality(Live) /\ Cardinality(Live') \in Nat
    BY <1>1, LiveFinite, FS_Subset, FS_CardinalityType
  <2>5. CountCovers'
    BY <1>2, <2>2, <2>4, LiveFinite DEF CountCovers
  <2> QED
    BY <2>3, <2>5
<1> QED
  BY <1>3, <1>4

----------------------------------------------------------------------------
\* Nobody has a lease at first.
LEMMA LeaseInvInit == Init => LeaseInv
<1> SUFFICES ASSUME Init
             PROVE  LeaseInv
  OBVIOUS
<1>1. Live = {}
  BY DEF Init, Live
<1>2. Cardinality(Live) <= lock.count
  BY <1>1, FS_EmptySet DEF Init, Free
<1> QED
  BY <1>1, <1>2
  DEF Init, LeaseInv, LeaseInside, Nesting, LeasesNested, LeaseBacked, CountCovers, Holds

\* Every step keeps the invariant of the leases.
LEMMA LeaseInvNext == TypeOK /\ LeaseInv /\ [Next]_vars => LeaseInv'
<1> SUFFICES ASSUME TypeOK, LeaseInv, [Next]_vars
             PROVE  LeaseInv'
  OBVIOUS
<1>1. LeaseInside' /\ Nesting' /\ LeasesNested'
  BY LeaseInsideNext, NestingNext, LeasesNestedNext DEF LeaseInv
<1>2. LeaseBacked' /\ CountCovers'
  BY Effects, DroppedKeeps, UnclaimedKeeps, GrantedKeeps, ExtendedKeeps, ReleasedKeeps,
     TickKeeps DEF LeaseInv
<1> QED
  BY <1>1, <1>2 DEF LeaseInv

\* A caller whose lease has not run out owns the key, whatever is lost, late or
\* killed: in a basic lock, and in a reentrant lock whose owner's scripts were each
\* sent once, whatever was sent twice by the others.
THEOREM LeasesHonoured == Spec => []LeaseHonoured
<1>1. Spec => []LeaseInv
  BY LeaseInvInit, LeaseInvNext, TypeCorrect, PTL DEF Spec
<1>2. LeaseInv => LeaseHonoured
  BY DEF LeaseInv, LeaseBacked, LeaseHonoured, Live
<1> QED
  BY <1>1, <1>2, PTL

\* Two owners are never both inside with a live lease.
THEOREM Exclusion == Spec => []MutualExclusion
<1>1. LeaseHonoured => MutualExclusion
  BY DEF LeaseHonoured, MutualExclusion
<1> QED
  BY <1>1, LeasesHonoured, PTL

----------------------------------------------------------------------------
(* What the key's count stands for *)

\* The calls of o that have the lock and that nobody intruded upon.
Undisturbed(o) == {c \in Calls : Owner(c) = o /\ pc[c] \in Holds /\ ~intruded[c]}

\* None of o's calls crashed, failed or had a command sent twice.
Faultless(o) ==
    \A c \in Calls : Owner(c) = o =>
        result[c] \notin {"connection_error", "crashed"} /\ resends[c] = 0

\* The key counts the calls of its owner, and none of those that it outlived.
CountBounded ==
    \A o \in Owners :
        (lock.owner = o /\ Faultless(o)) => lock.count <= Cardinality(Undisturbed(o))

\* The key is free exactly when it counts nothing.
FreeUncounted == lock.owner = None <=> lock.count = 0

\* Only calls that have the lock are intruded upon.
IntrusionsInside == \A c \in Calls : intruded[c] => pc[c] \in Holds \cup {"done"}

\* Who intrudes on a call intrudes on those around it.
IntrusionsNested ==
    \A c, d \in Calls :
        (/\ Owner(c) = Owner(d) /\ c < d /\ pc[c] \in Holds /\ pc[d] \in Holds
         /\ intruded[d])
        => intruded[c]

\* A basic lock does not come back to a call that lost it.
LostForGood ==
    ~Reentrant => \A c \in Calls : pc[c] \in Holds /\ intruded[c] => lock.owner # Owner(c)

\* A call that has a result is over, and so are all calls of a thread that was killed.
Ended ==
    \A c \in Calls :
        /\ result[c] # "none" => pc[c] = "done"
        /\ result[c] = "crashed" => \A d \in Calls : ThreadOf[d] = ThreadOf[c] => pc[d] = "done"

CountInv ==
    /\ CountBounded /\ FreeUncounted /\ IntrusionsInside /\ IntrusionsNested /\ LostForGood
    /\ Ended

\* What a step may do to a call's history of intrusions: those inside may be intruded upon.
Intrudes(o) ==
    IF Grants(lock, o) THEN intruded' = Intrusion(o) ELSE intruded' = intruded

\* Where nothing is granted nobody is intruded upon.
LEMMA IntrusionType ==
    ASSUME TypeOK, NEW o
    PROVE  /\ ~Grants(lock, o) => Intrusion(o) = intruded
           /\ \A c \in Calls :
                Intrusion(o)[c] = (intruded[c] \/ (pc[c] \in Holds /\ Owner(c) # o /\ Grants(lock, o)))
<1>1. intruded \in [Calls -> BOOLEAN]
  BY DEF TypeOK
<1>2. ASSUME ~Grants(lock, o)
      PROVE  Intrusion(o) = intruded
  <2>1. ASSUME NEW c \in Calls
        PROVE  /\ (intruded[c] \/ (/\ pc[c] \in {"acquired", "inside", "releasing"}
                                  /\ Owner(c) # o
                                  /\ Grants(lock, o))) \in BOOLEAN
               /\ (intruded[c] \/ (/\ pc[c] \in {"acquired", "inside", "releasing"}
                                  /\ Owner(c) # o
                                  /\ Grants(lock, o))) <=> intruded[c]
    BY <1>2
  <2>2. Intrusion(o) = [c \in Calls |-> intruded[c]]
    BY <1>1, <2>1 DEF Intrusion
  <2> QED
    BY <1>1, <2>2
<1> QED
  BY <1>2 DEF Intrusion, Holds

\* The intrusions of one step, and where its calls go.
LEMMA IntrusionStep ==
    ASSUME TypeOK, [Next]_vars
    PROVE  \/ intruded' = intruded
           \/ \E e \in Calls :
                /\ pc[e] = "attempt"
                /\ Grants(lock, Owner(e))
                /\ intruded' = Intrusion(Owner(e))
                /\ lock'.owner = Owner(e)
                /\ \A c \in Calls : c # e => pc'[c] = pc[c]
                /\ pc'[e] \in {"attempt", "acquired", "done"}
<1> USE DEF watchdog, history
<1>1. ASSUME NEW e \in Calls, Attempt(e) \/ AttemptUnanswered(e) \/ AttemptFails(e)
      PROVE  \/ intruded' = intruded
             \/ /\ pc[e] = "attempt"
                /\ Grants(lock, Owner(e))
                /\ intruded' = Intrusion(Owner(e))
                /\ lock'.owner = Owner(e)
                /\ \A c \in Calls : c # e => pc'[c] = pc[c]
                /\ pc'[e] \in {"attempt", "acquired", "done"}
  <2>1. CASE ~Grants(lock, Owner(e))
    BY <1>1, <2>1, IntrusionType DEF Attempt, AttemptUnanswered, AttemptFails
  <2>2. CASE Grants(lock, Owner(e))
    BY <1>1, <2>2 DEF Attempt, AttemptUnanswered, AttemptFails, Acquire, TypeOK
  <2> QED
    BY <2>1, <2>2
<1>2. ASSUME NEW e \in Calls,
             \/ Start(e) \/ CheckDeadline(e) \/ Enter(e) \/ Exit(e) \/ Fire(e) \/ Renew(e)
             \/ Rearm(e) \/ RenewFails(e) \/ ReleaseKey(e) \/ ReleaseUnanswered(e)
             \/ ReleaseFails(e)
      PROVE  intruded' = intruded
  BY <1>2 DEF Start, CheckDeadline, Enter, Exit, Fire, Renew, Rearm, RenewFails, ReleaseKey,
              ReleaseUnanswered, ReleaseFails, Finish
<1>3. CASE Tick \/ UNCHANGED vars \/ \E t \in Threads : Crash(t)
  BY <1>3 DEF Tick, vars, Crash
<1> QED
  BY <1>1, <1>2, <1>3 DEF Next, Acts, Fails

\* A call comes to hold the lock by its attempt alone.
LEMMA HoldsStep ==
    ASSUME TypeOK, [Next]_vars, NEW c \in Calls, pc'[c] \in Holds, pc[c] \notin Holds
    PROVE  pc[c] = "attempt" /\ Grants(lock, Owner(c)) /\ intruded' = Intrusion(Owner(c))
<1> USE DEF watchdog, history, Holds
<1>1. ASSUME NEW e \in Calls, Acts(e)
      PROVE  pc[c] = "attempt" /\ Grants(lock, Owner(c)) /\ intruded' = Intrusion(Owner(c))
  <2>1. CASE Attempt(e)
    BY <2>1 DEF Attempt, TypeOK
  <2>2. CASE Start(e) \/ CheckDeadline(e) \/ Enter(e) \/ Exit(e) \/ ReleaseKey(e)
    BY <2>2 DEF Start, CheckDeadline, Enter, Exit, ReleaseKey, Finish, TypeOK
  <2>3. CASE Fire(e) \/ Renew(e) \/ Rearm(e)
    BY <2>3 DEF Fire, Renew, Rearm
  <2> QED
    BY <1>1, <2>1, <2>2, <2>3 DEF Acts
<1>2. ASSUME NEW e \in Calls, Fails(e)
      PROVE  FALSE
  BY <1>2 DEF Fails, AttemptUnanswered, AttemptFails, RenewFails, ReleaseUnanswered,
              ReleaseFails, Finish, TypeOK
<1>3. CASE Tick \/ UNCHANGED vars \/ \E t \in Threads : Crash(t)
  BY <1>3 DEF Tick, vars, Crash
<1> QED
  BY <1>1, <1>2, <1>3 DEF Next

\* A call that is over stays so.
LEMMA DoneStays ==
    ASSUME TypeOK, [Next]_vars, NEW c \in Calls, pc[c] = "done"
    PROVE  pc'[c] = "done"
<1> USE DEF watchdog, history
<1>1. ASSUME NEW e \in Calls, Acts(e) \/ Fails(e)
      PROVE  pc'[c] = "done"
  <2>1. CASE Start(e) \/ CheckDeadline(e) \/ Attempt(e) \/ Enter(e) \/ Exit(e) \/ ReleaseKey(e)
    BY <2>1 DEF Start, CheckDeadline, Attempt, Enter, Exit, ReleaseKey, Finish, TypeOK
  <2>2. CASE Fire(e) \/ Renew(e) \/ Rearm(e) \/ Fails(e)
    BY <2>2 DEF Fire, Renew, Rearm, Fails, AttemptUnanswered, AttemptFails, RenewFails,
                ReleaseUnanswered, ReleaseFails, Finish, TypeOK
  <2> QED
    BY <1>1, <2>1, <2>2 DEF Acts
<1>2. CASE Tick \/ UNCHANGED vars \/ \E t \in Threads : Crash(t)
  BY <1>2 DEF Tick, vars, Crash
<1> QED
  BY <1>1, <1>2 DEF Next

\* A call that has the lock gives it up by ending.
LEMMA HoldsLeft ==
    ASSUME TypeOK, [Next]_vars, NEW c \in Calls, pc[c] \in Holds, pc'[c] \notin Holds
    PROVE  pc'[c] = "done"
<1> USE DEF watchdog, history, Holds
<1>1. ASSUME NEW e \in Calls, Acts(e)
      PROVE  pc'[c] = "done"
  <2>1. CASE Start(e) \/ CheckDeadline(e) \/ Attempt(e) \/ Enter(e) \/ Exit(e) \/ ReleaseKey(e)
    BY <2>1 DEF Start, CheckDeadline, Attempt, Enter, Exit, ReleaseKey, Finish, TypeOK
  <2>2. CASE Fire(e) \/ Renew(e) \/ Rearm(e)
    BY <2>2 DEF Fire, Renew, Rearm
  <2> QED
    BY <1>1, <2>1, <2>2 DEF Acts
<1>2. ASSUME NEW e \in Calls, Fails(e)
      PROVE  pc'[c] = "done"
  BY <1>2 DEF Fails, AttemptUnanswered, AttemptFails, RenewFails, ReleaseUnanswered,
              ReleaseFails, Finish, TypeOK
<1>3. CASE Tick \/ UNCHANGED vars \/ \E t \in Threads : Crash(t)
  BY <1>3 DEF Tick, vars, Crash
<1> QED
  BY <1>1, <1>2, <1>3 DEF Next

\* Intrusions stay inside, and reach the outer calls with the inner ones.
LEMMA IntrusionsNext ==
    ASSUME TypeOK, Nesting, IntrusionsInside, IntrusionsNested, [Next]_vars
    PROVE  IntrusionsInside' /\ IntrusionsNested'
<1>1. ASSUME NEW c \in Calls
      PROVE  /\ intruded[c] => intruded'[c]
             /\ intruded'[c] => intruded[c] \/ pc[c] \in Holds
  BY IntrusionStep, IntrusionType
<1>2. IntrusionsInside'
  <2> SUFFICES ASSUME NEW c \in Calls, intruded'[c]
               PROVE  pc'[c] \in Holds \cup {"done"}
    BY DEF IntrusionsInside
  <2>1. pc[c] \in Holds \cup {"done"}
    BY <1>1 DEF IntrusionsInside
  <2> QED
    BY <2>1, HoldsLeft, DoneStays
<1>3. IntrusionsNested'
  <2> SUFFICES ASSUME NEW c \in Calls, NEW d \in Calls, Owner(c) = Owner(d), c < d,
                      pc'[c] \in Holds, pc'[d] \in Holds, intruded'[d]
               PROVE  intruded'[c]
    BY DEF IntrusionsNested, Owner
  <2>1. ThreadOf[c] = ThreadOf[d] /\ c \in Nat /\ d \in Nat
    BY LockAssumption DEF Owner
  <2>2. pc[d] \in Holds
    <3> SUFFICES ASSUME pc[d] \notin Holds
                 PROVE  FALSE
      OBVIOUS
    <3>1. pc[d] = "attempt" /\ intruded' = Intrusion(Owner(d))
      BY HoldsStep
    <3>2. intruded[d]
      BY <3>1, IntrusionType
    <3> QED
      BY <3>1, <3>2 DEF IntrusionsInside, Holds
  <2>3. pc[c] \in Holds
    <3> SUFFICES ASSUME pc[c] \notin Holds
                 PROVE  FALSE
      OBVIOUS
    <3>1. pc[c] = "attempt"
      BY HoldsStep
    <3> QED
      BY <2>1, <2>2, <3>1 DEF Nesting, Holds
  <2>4. CASE intruded[d]
    BY <1>1, <2>2, <2>3, <2>4 DEF IntrusionsNested
  <2>5. CASE ~intruded[d]
    <3>1. PICK o : Grants(lock, o) /\ intruded' = Intrusion(o) /\ Owner(d) # o
      BY <2>5, IntrusionStep, IntrusionType
    <3> QED
      BY <2>3, <3>1, IntrusionType
  <2> QED
    BY <2>4, <2>5
<1> QED
  BY <1>2, <1>3

\* A result stands, and commands sent again stay counted.
LEMMA FaultsStay ==
    ASSUME TypeOK, Ended, [Next]_vars, NEW c \in Calls
    PROVE  /\ result[c] # "none" => result'[c] = result[c]
           /\ resends[c] # 0 => resends'[c] # 0
<1> USE DEF watchdog, history
<1>a. result[c] # "none" => pc[c] = "done"
  BY DEF Ended
<1>1. ASSUME NEW e \in Calls, Acts(e) \/ Fails(e)
      PROVE  pc[c] = "done" => result'[c] = result[c]
  <2>1. CASE Start(e) \/ CheckDeadline(e) \/ Attempt(e) \/ Enter(e) \/ Exit(e) \/ ReleaseKey(e)
    BY <2>1 DEF Start, CheckDeadline, Attempt, Enter, Exit, ReleaseKey, Finish, TypeOK
  <2>2. CASE Fire(e) \/ Renew(e) \/ Rearm(e) \/ RenewFails(e)
    BY <2>2 DEF Fire, Renew, Rearm, RenewFails
  <2>3. CASE AttemptUnanswered(e) \/ ReleaseUnanswered(e)
    BY <2>3 DEF AttemptUnanswered, ReleaseUnanswered
  <2>4. CASE AttemptFails(e) \/ ReleaseFails(e)
    BY <2>4 DEF AttemptFails, ReleaseFails, Finish, TypeOK
  <2> QED
    BY <1>1, <2>1, <2>2, <2>3, <2>4 DEF Acts, Fails
<1>2. CASE Tick \/ UNCHANGED vars \/ \E t \in Threads : Crash(t)
  BY <1>2, <1>a DEF Tick, vars, Crash, TypeOK
<1> QED
  BY <1>1, <1>2, <1>a, ResendsStay DEF Next

\* Whoever is without a fault after a step was so before it.
LEMMA FaultlessBefore ==
    ASSUME TypeOK, Ended, [Next]_vars, NEW o, Faultless(o)'
    PROVE  Faultless(o)
BY FaultsStay DEF Faultless, Owner

\* Calls end with a result, the calls of a thread that is killed all together.
LEMMA EndedNext ==
    ASSUME TypeOK, Ended, [Next]_vars
    PROVE  Ended'
<1> USE DEF watchdog, history
<1> SUFFICES ASSUME NEW c \in Calls
             PROVE  /\ result'[c] # "none" => pc'[c] = "done"
                    /\ result'[c] = "crashed" =>
                            \A d \in Calls : ThreadOf[d] = ThreadOf[c] => pc'[d] = "done"
  BY DEF Ended
<1>a. /\ result[c] # "none" => pc[c] = "done"
      /\ result[c] = "crashed" => \A d \in Calls : ThreadOf[d] = ThreadOf[c] => pc[d] = "done"
  BY DEF Ended
<1>b. \A d \in Calls : pc[d] = "done" => pc'[d] = "done"
  BY DoneStays
<1>1. ASSUME NEW e \in Calls, Acts(e) \/ Fails(e)
      PROVE  \/ result'[c] = result[c]
             \/ pc'[c] = "done" /\ result'[c] # "crashed"
  <2>1. CASE Start(e) \/ CheckDeadline(e) \/ Attempt(e) \/ Enter(e) \/ Exit(e) \/ ReleaseKey(e)
    BY <2>1 DEF Start, CheckDeadline, Attempt, Enter, Exit, ReleaseKey, Finish, TypeOK
  <2>2. CASE Fire(e) \/ Renew(e) \/ Rearm(e) \/ RenewFails(e)
    BY <2>2 DEF Fire, Renew, Rearm, RenewFails
  <2>3. CASE AttemptUnanswered(e) \/ ReleaseUnanswered(e) \/ AttemptFails(e) \/ ReleaseFails(e)
    BY <2>3 DEF AttemptUnanswered, ReleaseUnanswered, AttemptFails, ReleaseFails, Finish, TypeOK
  <2> QED
    BY <1>1, <2>1, <2>2, <2>3 DEF Acts, Fails
<1>2. ASSUME NEW t \in Threads, Crash(t)
      PROVE  \/ result'[c] = result[c]
             \/ \A d \in Calls : ThreadOf[d] = ThreadOf[c] => pc'[d] = "done"
  BY <1>2 DEF Crash, TypeOK
<1>3. CASE Tick \/ UNCHANGED vars
  BY <1>3, <1>a DEF Tick, vars
<1> QED
  BY <1>1, <1>2, <1>3, <1>a, <1>b DEF Next

\* What a step may do to the key.
LEMMA KeyStep ==
    ASSUME TypeOK, [Next]_vars
    PROVE  \/ lock' = lock
           \/ lock'.owner = None /\ lock'.count = 0
           \/ lock'.owner = lock.owner /\ lock'.count = lock.count
           \/ \E e \in Calls : pc[e] = "attempt" /\ lock' = Acquire(lock, Owner(e))
           \/ \E e \in Calls : pc[e] = "releasing" /\ lock' = Release(lock, Owner(e))
<1> USE DEF watchdog, history
<1>1. ASSUME NEW e \in Calls, Acts(e) \/ Fails(e)
      PROVE  \/ lock' = lock
             \/ lock'.owner = lock.owner /\ lock'.count = lock.count
             \/ pc[e] = "attempt" /\ lock' = Acquire(lock, Owner(e))
             \/ pc[e] = "releasing" /\ lock' = Release(lock, Owner(e))
  <2>1. CASE Start(e) \/ CheckDeadline(e) \/ Attempt(e) \/ Enter(e) \/ Exit(e) \/ ReleaseKey(e)
    BY <2>1 DEF Start, CheckDeadline, Attempt, Enter, Exit, ReleaseKey, Finish
  <2>2. CASE Fire(e) \/ Renew(e) \/ Rearm(e) \/ RenewFails(e)
    BY <2>2 DEF Fire, Renew, Rearm, RenewFails, Extend, TypeOK
  <2>3. CASE AttemptUnanswered(e) \/ ReleaseUnanswered(e) \/ AttemptFails(e) \/ ReleaseFails(e)
    BY <2>3 DEF AttemptUnanswered, ReleaseUnanswered, AttemptFails, ReleaseFails, Finish
  <2> QED
    BY <1>1, <2>1, <2>2, <2>3 DEF Acts, Fails
<1>2. CASE Tick \/ UNCHANGED vars \/ \E t \in Threads : Crash(t)
  BY <1>2 DEF Tick, vars, Crash, Free, TypeOK
<1> QED
  BY <1>1, <1>2 DEF Next

\* The count goes to zero with the owner and not before.
LEMMA FreeUncountedNext ==
    ASSUME TypeOK, FreeUncounted, [Next]_vars
    PROVE  FreeUncounted'
<1>1. \A e \in Calls : Owner(e) # None
  BY LockAssumption, OwnerType DEF Owners
<1>2. lock.count \in Nat /\ (lock.owner = None <=> lock.count = 0)
  BY DEF TypeOK, FreeUncounted
<1>3. ASSUME NEW e \in Calls, lock' = Acquire(lock, Owner(e))
      PROVE  FreeUncounted'
  BY <1>1, <1>2, <1>3 DEF FreeUncounted, Acquire
<1>4. ASSUME NEW e \in Calls, lock' = Release(lock, Owner(e))
      PROVE  FreeUncounted'
  <2>1. CASE lock' = lock \/ lock' = Free
    BY <1>2, <2>1 DEF FreeUncounted, Free
  <2>2. CASE lock.owner = Owner(e) /\ lock.count > 1 /\ lock' = [lock EXCEPT !.count = @ - 1]
    <3>1. lock'.owner = lock.owner /\ lock'.count = lock.count - 1
      BY <2>2 DEF TypeOK
    <3> QED
      BY <1>1, <1>2, <2>2, <3>1 DEF FreeUncounted
  <2> QED
    BY <1>4, <2>1, <2>2 DEF Release, BasicRelease, ReentrantRelease
<1> QED
  BY <1>2, <1>3, <1>4, KeyStep DEF FreeUncounted

\* Only an attempt of the owner makes a basic lock its owner's.
LEMMA LostForGoodNext ==
    ASSUME TypeOK, IntrusionsInside, LostForGood, [Next]_vars
    PROVE  LostForGood'
<1> SUFFICES ASSUME ~Reentrant, NEW c \in Calls, pc'[c] \in Holds, intruded'[c],
                    lock'.owner = Owner(c)
             PROVE  FALSE
  BY DEF LostForGood, Owner
<1>1. Owner(c) = c /\ c # None /\ \A e \in Calls : Owner(e) = e
  BY LockAssumption DEF Owner
<1>2. pc[c] \in Holds
  <2> SUFFICES ASSUME pc[c] \notin Holds
               PROVE  FALSE
    OBVIOUS
  <2>1. pc[c] = "attempt" /\ intruded' = Intrusion(Owner(c))
    BY HoldsStep
  <2>2. intruded[c]
    BY <2>1, IntrusionType
  <2> QED
    BY <2>1, <2>2 DEF IntrusionsInside, Holds
<1>3. lock.owner = c
  <2>1. ASSUME NEW e \in Calls, pc[e] = "attempt", lock' = Acquire(lock, Owner(e))
        PROVE  lock.owner = c
    BY <1>1, <1>2, <2>1 DEF Acquire, Holds
  <2>2. ASSUME NEW e \in Calls, lock' = Release(lock, Owner(e))
        PROVE  lock.owner = c
    BY <1>1, <2>2 DEF Release, BasicRelease, Free
  <2> QED
    BY <1>1, <2>1, <2>2, KeyStep
<1>4. ~intruded[c]
  BY <1>1, <1>2, <1>3 DEF LostForGood
<1>5. PICK e \in Calls : lock'.owner = Owner(e) /\ Owner(c) # Owner(e)
  BY <1>4, IntrusionStep, IntrusionType
<1> QED
  BY <1>5

\* A call is "released" by its release alone, and when its owner has the key.
LEMMA ReleasedStep ==
    ASSUME TypeOK, [Next]_vars, NEW c \in Calls, result[c] # "released", result'[c] = "released"
    PROVE  ReleaseKey(c) /\ lock.owner = Owner(c)
<1> USE DEF watchdog, history
<1>1. ASSUME NEW e \in Calls, ReleaseKey(e)
      PROVE  ReleaseKey(c) /\ lock.owner = Owner(c)
  BY <1>1 DEF ReleaseKey, Finish, TypeOK
<1>2. ASSUME NEW e \in Calls, Acts(e), ~ReleaseKey(e)
      PROVE  FALSE
  BY <1>2 DEF Acts, Start, CheckDeadline, Attempt, Enter, Exit, Fire, Renew, Rearm, TypeOK
<1>3. ASSUME NEW e \in Calls, Fails(e)
      PROVE  FALSE
  BY <1>3 DEF Fails, AttemptUnanswered, AttemptFails, RenewFails, ReleaseUnanswered,
              ReleaseFails, Finish, TypeOK
<1>4. CASE Tick \/ UNCHANGED vars \/ \E t \in Threads : Crash(t)
  BY <1>4 DEF Tick, vars, Crash
<1> QED
  BY <1>1, <1>2, <1>3, <1>4 DEF Next

\* The calls of an owner can be counted.
LEMMA UndisturbedFinite ==
    ASSUME NEW o
    PROVE  IsFiniteSet(Undisturbed(o)) /\ Cardinality(Undisturbed(o)) \in Nat
<1>1. Undisturbed(o) \subseteq Calls
  BY DEF Undisturbed
<1> QED
  BY <1>1, LockAssumption, FS_Subset, FS_CardinalityType

\* A step that leaves o's calls and their count alone.
Quiet(o) ==
    /\ lock.owner = o /\ lock'.count = lock.count
    /\ \A c \in Calls : Owner(c) = o => (pc'[c] \in Holds <=> pc[c] \in Holds)
    /\ \A c \in Calls : Owner(c) = o => intruded'[c] = intruded[c]

\* What a step without a fault may do while o has the key: leave its calls alone, let
\* one of them in or let one of them out.
LEMMA CountStep ==
    ASSUME TypeOK, Ended, [Next]_vars, NEW o \in Owners, lock'.owner = o, Faultless(o)'
    PROVE  \/ Quiet(o)
           \/ \E e \in Calls : /\ Owner(e) = o /\ Attempt(e) /\ Grants(lock, o)
           \/ \E e \in Calls : /\ Owner(e) = o /\ ReleaseKey(e)
<1> USE DEF watchdog, history, Holds
<1>a. \A c \in Calls : Owner(c) = o => result'[c] \notin {"connection_error", "crashed"} /\ resends'[c] = 0
  BY DEF Faultless, Owner
<1>b. o # None
  BY LockAssumption DEF Owners
<1>c. \A s : \A r : (s = Acquire(lock, r) /\ s.owner = o /\ r # o) => s = lock /\ ~Grants(lock, r)
  BY DEF Acquire
<1>d. \A s : \A r : (s = Release(lock, r) /\ s.owner = o /\ r # o) => s = lock
  BY <1>b DEF Release, BasicRelease, ReentrantRelease, Free, TypeOK
<1>1. ASSUME NEW e \in Calls, Start(e) \/ CheckDeadline(e) \/ Enter(e) \/ Exit(e)
      PROVE  Quiet(o)
  BY <1>1 DEF Start, CheckDeadline, Enter, Exit, Quiet, TypeOK
<1>2. ASSUME NEW e \in Calls, Fire(e) \/ Renew(e) \/ Rearm(e) \/ RenewFails(e)
      PROVE  Quiet(o)
  BY <1>2 DEF Fire, Renew, Rearm, RenewFails, Extend, Quiet, TypeOK
<1>3. ASSUME NEW e \in Calls, Attempt(e), ~(Owner(e) = o /\ Grants(lock, o))
      PROVE  Quiet(o)
  <2>1. lock' = lock /\ ~Grants(lock, Owner(e))
    BY <1>3, <1>c DEF Attempt, Acquire
  <2> QED
    BY <1>3, <2>1 DEF Attempt, Quiet, TypeOK
<1>4. ASSUME NEW e \in Calls, AttemptUnanswered(e)
      PROVE  Quiet(o)
  <2>1. Owner(e) # o
    BY <1>4, <1>a, LockAssumption DEF AttemptUnanswered, TypeOK
  <2>2. lock' = lock /\ ~Grants(lock, Owner(e))
    BY <1>4, <2>1, <1>c DEF AttemptUnanswered
  <2> QED
    BY <1>4, <2>2, IntrusionType DEF AttemptUnanswered, Quiet
<1>5. ASSUME NEW e \in Calls, AttemptFails(e)
      PROVE  Quiet(o)
  <2>1. Owner(e) # o
    BY <1>5, <1>a DEF AttemptFails, TypeOK
  <2>2. lock' = lock /\ intruded' = intruded
    BY <1>5, <2>1, <1>c, IntrusionType DEF AttemptFails
  <2> QED
    BY <1>5, <2>1, <2>2 DEF AttemptFails, Quiet, TypeOK
<1>6. ASSUME NEW e \in Calls, ReleaseUnanswered(e)
      PROVE  Quiet(o)
  <2>1. Owner(e) # o
    BY <1>6, <1>a, LockAssumption DEF ReleaseUnanswered, TypeOK
  <2>2. lock' = lock
    BY <1>6, <2>1, <1>d DEF ReleaseUnanswered
  <2> QED
    BY <1>6, <2>2 DEF ReleaseUnanswered, Quiet
<1>7. ASSUME NEW e \in Calls, ReleaseFails(e)
      PROVE  Quiet(o)
  <2>1. Owner(e) # o
    BY <1>7, <1>a DEF ReleaseFails, Finish, TypeOK
  <2>2. lock' = lock
    BY <1>7, <2>1, <1>d DEF ReleaseFails
  <2> QED
    BY <1>7, <2>1, <2>2 DEF ReleaseFails, Finish, Quiet, TypeOK
<1>8. ASSUME NEW e \in Calls, ReleaseKey(e), Owner(e) # o
      PROVE  Quiet(o)
  <2>1. lock' = lock
    BY <1>8, <1>d DEF ReleaseKey
  <2> QED
    BY <1>8, <2>1 DEF ReleaseKey, Finish, Quiet, TypeOK
<1>9. ASSUME NEW t \in Threads, Crash(t)
      PROVE  Quiet(o)
  <2>1. \A c \in Calls : Owner(c) = o /\ ThreadOf[c] = t => pc[c] = "done"
    BY <1>9, <1>a DEF Crash
  <2>2. \A c \in Calls : Owner(c) = o => pc'[c] = pc[c]
    BY <1>9, <2>1 DEF Crash
  <2> QED
    BY <1>9, <2>2 DEF Crash, Quiet
<1>10. CASE Tick \/ UNCHANGED vars
  BY <1>10, <1>b DEF Tick, Free, vars, Quiet, TypeOK
<1> QED
  BY <1>1, <1>2, <1>3, <1>4, <1>5, <1>6, <1>7, <1>8, <1>9, <1>10 DEF Next, Acts, Fails

\* An intruded call that gives the lock back has nobody of its owner inside it.
LEMMA NobodyWithin ==
    ASSUME TypeOK, Nesting, IntrusionsNested, NEW c \in Calls, pc[c] = "releasing", intruded[c]
    PROVE  Undisturbed(Owner(c)) = {}
<1> SUFFICES ASSUME NEW d \in Undisturbed(Owner(c))
             PROVE  FALSE
  OBVIOUS
<1>1. d \in Calls /\ Owner(d) = Owner(c) /\ pc[d] \in Holds /\ ~intruded[d] /\ d # c
  BY DEF Undisturbed
<1>2. ThreadOf[d] = ThreadOf[c] /\ c \in Nat /\ d \in Nat
  BY <1>1, LockAssumption DEF Owner
<1>3. CASE d < c
  BY <1>1, <1>3 DEF IntrusionsNested, Holds
<1>4. CASE c < d
  BY <1>1, <1>2, <1>4 DEF Nesting, Holds
<1> QED
  BY <1>1, <1>2, <1>3, <1>4

\* The heart of the matter: who gives back the lock counted, and who gets it counts.
LEMMA CountBoundedNext ==
    ASSUME TypeOK, Nesting, CountInv, [Next]_vars
    PROVE  CountBounded'
<1> USE DEF CountInv
<1> SUFFICES ASSUME NEW o \in Owners, lock'.owner = o, Faultless(o)'
             PROVE  lock'.count <= Cardinality(Undisturbed(o)')
  BY DEF CountBounded, Owners
<1>a. Faultless(o) /\ o # None /\ lock.count \in Nat
  BY FaultlessBefore, LockAssumption DEF Owners, TypeOK
<1>b. lock.owner = o => lock.count <= Cardinality(Undisturbed(o))
  BY <1>a DEF CountBounded
<1>c. IsFiniteSet(Undisturbed(o)) /\ Cardinality(Undisturbed(o)) \in Nat
  BY UndisturbedFinite
<1>1. CASE Quiet(o)
  <2>1. Undisturbed(o)' = Undisturbed(o)
    BY <1>1 DEF Quiet, Undisturbed, Owner
  <2> QED
    BY <1>1, <1>b, <2>1 DEF Quiet
<1>2. ASSUME NEW e \in Calls, Owner(e) = o, Attempt(e), Grants(lock, o)
      PROVE  lock'.count <= Cardinality(Undisturbed(o)')
  <2>1. lock'.count = lock.count + 1
    BY <1>2 DEF Attempt, Acquire
  <2>2. /\ pc[e] = "attempt" /\ pc'[e] = "acquired"
        /\ \A c \in Calls : c # e => pc'[c] = pc[c]
    BY <1>2 DEF Attempt, TypeOK
  <2>3. \A c \in Calls : Owner(c) = o => (intruded'[c] <=> intruded[c])
    BY <1>2, IntrusionType DEF Attempt
  <2>4. ~intruded[e]
    BY <2>2 DEF IntrusionsInside, Holds
  <2>5. Undisturbed(o)' = Undisturbed(o) \cup {e} /\ e \notin Undisturbed(o)
    BY <1>2, <2>2, <2>3, <2>4 DEF Undisturbed, Owner, Holds
  <2>6. Cardinality(Undisturbed(o)') = Cardinality(Undisturbed(o)) + 1
    BY <1>c, <2>5, FS_AddElement
  <2>7. lock.owner # o => lock.count = 0
    BY <1>2 DEF Grants, FreeUncounted
  <2> QED
    BY <1>a, <1>b, <1>c, <2>1, <2>6, <2>7
<1>3. ASSUME NEW e \in Calls, Owner(e) = o, ReleaseKey(e)
      PROVE  lock'.count <= Cardinality(Undisturbed(o)')
  <2>1. lock.owner = o
    BY <1>3, <1>a DEF ReleaseKey, Release, BasicRelease, ReentrantRelease, Free
  <2>2. lock'.count = lock.count - 1
    BY <1>3, <1>a, <2>1
    DEF ReleaseKey, Release, BasicRelease, ReentrantRelease, Free, TypeOK
  <2>3. ~intruded[e]
    <3> SUFFICES ASSUME intruded[e]
                 PROVE  FALSE
      OBVIOUS
    <3>1. Undisturbed(o) = {}
      BY <1>3, NobodyWithin DEF ReleaseKey
    <3>2. lock.count = 0
      BY <1>a, <1>b, <2>1, <3>1, FS_EmptySet
    <3> QED
      BY <1>a, <2>1, <3>2 DEF FreeUncounted
  <2>4. /\ pc[e] = "releasing" /\ pc'[e] = "done" /\ intruded' = intruded
        /\ \A c \in Calls : c # e => pc'[c] = pc[c]
    BY <1>3 DEF ReleaseKey, Finish, TypeOK
  <2>5. Undisturbed(o)' = Undisturbed(o) \ {e} /\ e \in Undisturbed(o)
    BY <1>3, <2>3, <2>4 DEF Undisturbed, Owner, Holds
  <2>6. Cardinality(Undisturbed(o)') = Cardinality(Undisturbed(o)) - 1
    BY <1>c, <2>5, FS_RemoveElement
  <2> QED
    BY <1>a, <1>b, <1>c, <2>1, <2>2, <2>6
<1> QED
  BY <1>1, <1>2, <1>3, CountStep

\* Every step keeps the invariant of the count.
LEMMA CountInvNext == TypeOK /\ Nesting /\ CountInv /\ [Next]_vars => CountInv'
BY CountBoundedNext, FreeUncountedNext, IntrusionsNext, LostForGoodNext, EndedNext DEF CountInv

\* The key is free at first, and counts nothing.
LEMMA CountInvInit == Init => CountInv
<1> SUFFICES ASSUME Init
             PROVE  CountInv
  OBVIOUS
<1>1. lock.owner = None /\ lock.count = 0
  BY DEF Init, Free
<1>2. \A o \in Owners : o # None
  BY LockAssumption DEF Owners
<1>3. CountBounded
  BY <1>1, <1>2 DEF CountBounded
<1> QED
  BY <1>1, <1>3
  DEF Init, CountInv, FreeUncounted, IntrusionsInside, IntrusionsNested, LostForGood, Ended

\* No call has begun at first.
LEMMA NestingInit == Init => Nesting
BY DEF Init, Nesting

\* The count of the key, and the nesting of calls it rests on, whatever is sent twice.
THEOREM CountSound == Spec => [](Nesting /\ CountInv)
BY NestingInit, CountInvInit, NestingNext, CountInvNext, TypeCorrect, PTL DEF Spec

\* Once a thread's calls have returned, and none of them crashed, failed or had a command
\* sent twice, the key is not its own.
THEOREM NoneLeftBehind == Spec => []NoKeyLeftBehind
<1>1. TypeOK /\ CountInv => NoKeyLeftBehind
  <2> SUFFICES ASSUME TypeOK, CountInv, NEW c \in Calls,
                      \A d \in Calls : ThreadOf[d] = ThreadOf[c] =>
                            /\ ~Active(d)
                            /\ result[d] \notin {"connection_error", "crashed"}
                            /\ resends[d] = 0
               PROVE  lock.owner # Owner(c)
    BY DEF NoKeyLeftBehind
  <2> DEFINE o == Owner(c)
  <2>1. \A d \in Calls : Owner(d) = o => ThreadOf[d] = ThreadOf[c]
    BY DEF Owner
  <2>2. Faultless(o) /\ o \in Owners /\ o # None
    BY <2>1, OwnerType, LockAssumption DEF Faultless, Owners
  <2>3. Undisturbed(o) = {}
    BY <2>1 DEF Undisturbed, Active, Holds
  <2> HIDE DEF o
  <2>4. lock.owner = o => lock.count <= 0
    BY <2>2, <2>3, FS_EmptySet DEF CountInv, CountBounded
  <2>5. lock.owner = o => lock.count # 0
    BY <2>2 DEF CountInv, FreeUncounted
  <2>6. lock.owner # o
    BY <2>4, <2>5 DEF TypeOK
  <2> QED
    BY <2>6 DEF o
<1> QED
  BY <1>1, CountSound, TypeCorrect, PTL

\* A step that ends a call cleanly ends one that was not intruded upon.
LEMMA CleanExitNext ==
    ASSUME TypeOK, Nesting, CountInv, CleanExitMeansExclusive, [Next]_vars
    PROVE  CleanExitMeansExclusive'
<1> USE DEF CountInv
<1> SUFFICES ASSUME NEW c \in Calls, result'[c] = "released", Unrepeated(Owner(c))',
                    \A d \in Calls : ThreadOf[d] = ThreadOf[c] => result'[d] # "connection_error"
             PROVE  ~intruded'[c]
  BY DEF CleanExitMeansExclusive
<1>1. \A d \in Calls : ThreadOf[d] = ThreadOf[c] => result[d] # "connection_error"
  BY FaultsStay
<1>a. Unrepeated(Owner(c))
  BY UnrepeatedBefore DEF Owner
<1>2. CASE result[c] = "released"
  <2>1. ~intruded[c] /\ pc[c] = "done"
    BY <1>1, <1>2, <1>a DEF CleanExitMeansExclusive, Ended
  <2> QED
    BY <2>1, IntrusionStep, IntrusionType DEF Holds
<1>3. CASE result[c] # "released"
  <2>1. ReleaseKey(c) /\ lock.owner = Owner(c)
    BY <1>3, ReleasedStep
  <2>2. pc[c] = "releasing" /\ intruded' = intruded
    BY <2>1 DEF ReleaseKey, Finish
  <2> SUFFICES ASSUME intruded[c]
               PROVE  FALSE
    BY <2>2
  <2>3. Reentrant
    BY <2>1, <2>2 DEF LostForGood, Holds
  <2>4. Faultless(Owner(c))
    <3>1. \A d \in Calls : Owner(d) = Owner(c) => ThreadOf[d] = ThreadOf[c]
      BY DEF Owner
    <3>2. \A d \in Calls : Owner(d) = Owner(c) => result[d] # "crashed"
      BY <2>2, <3>1 DEF Ended
    <3>3. \A d \in Calls : Owner(d) = Owner(c) => resends[d] = 0
      BY <1>a, <2>3 DEF Unrepeated
    <3> QED
      BY <1>1, <3>1, <3>2, <3>3 DEF Faultless
  <2>5. Undisturbed(Owner(c)) = {}
    BY <2>2, NobodyWithin
  <2>6. lock.count <= 0
    BY <2>1, <2>4, <2>5, OwnerType, FS_EmptySet DEF CountBounded
  <2>7. lock.count # 0
    BY <2>1, OwnerType, LockAssumption DEF FreeUncounted, Owners
  <2> QED
    BY <2>6, <2>7 DEF TypeOK
<1> QED
  BY <1>2, <1>3

\* A call that left its block without an error had the lock all along, unless its thread
\* had swallowed a connection error or, in a reentrant lock, had a script sent twice.
THEOREM CleanExit == Spec => []CleanExitMeansExclusive
<1>1. Init => CleanExitMeansExclusive
  BY DEF Init, CleanExitMeansExclusive
<1>2. TypeOK /\ Nesting /\ CountInv /\ CleanExitMeansExclusive /\ [Next]_vars
      => CleanExitMeansExclusive'
  BY CleanExitNext
<1> QED
  BY <1>1, <1>2, CountSound, TypeCorrect, PTL DEF Spec
=============================================================================
