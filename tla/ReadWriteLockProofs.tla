------------------------- MODULE ReadWriteLockProofs -------------------------
(***************************************************************************)
(* Theorems about ReadWriteLock, for every finite set of readers, every    *)
(* set of writers, any timeouts, re-sent commands and faults.              *)
(***************************************************************************)
EXTENDS ReadWriteLock, TLAPS, FiniteSetTheorems

----------------------------------------------------------------------------
(* The inductive invariant *)

\* A call that was not admitted has no lease, and one that has not ended no result.
CallsBegin ==
    \A c \in Calls :
        /\ pc[c] = "waiting" => lease[c] = 0
        /\ pc[c] # "done" => result[c] = "none"

\* The key of a writer within its lease is its own, for as long as the lease.
WriterBacked ==
    \A w \in Writers : lease[w] > 0 => writer.owner = w /\ lease[w] <= writer.ttl

\* A writer beside which a call was admitted has lost its key for good, and learns it.
IntrusionNoticed ==
    \A w \in Writers :
        /\ pc[w] = "waiting" => ~overlapped[w]
        /\ pc[w] \in {"inside", "releasing"} /\ overlapped[w] => writer.owner # w
        /\ result[w] = "released" => ~overlapped[w]

Leased == {r \in Readers : lease[r] > 0}

\* The common count and ttl cover the readers within their leases.
ReadersCovered ==
    ~undercut =>
        /\ Cardinality(Leased) <= hash.readers
        /\ \A r \in Readers : lease[r] <= hash.ttl

\* While one of them is within its lease there is no writer key at all.
ReadersAlone == ~undercut /\ Leased # {} => writer.owner = None

RWInv ==
    /\ TypeOK /\ CallsBegin
    /\ WriterBacked /\ IntrusionNoticed
    /\ ReadersCovered /\ ReadersAlone

----------------------------------------------------------------------------
(* Finite sets *)

\* The cardinality of a set of readers, and of it with a reader more or less.
LEMMA ReaderSets ==
    ASSUME NEW S \in SUBSET Readers
    PROVE  /\ IsFiniteSet(S) /\ Cardinality(S) \in Nat
           /\ Cardinality(S) = 0 <=> S = {}
           /\ \A T \in SUBSET S : Cardinality(T) <= Cardinality(S)
           /\ \A r \in Readers \ S : Cardinality(S \cup {r}) = Cardinality(S) + 1
           /\ \A r \in S : Cardinality(S \ {r}) = Cardinality(S) - 1
<1>1. IsFiniteSet(S)
  BY FS_Subset, RWAssumption
<1>2. \A r \in Readers \ S : Cardinality(S \cup {r}) = Cardinality(S) + 1
  BY <1>1, FS_AddElement
<1>3. \A r \in S : Cardinality(S \ {r}) = Cardinality(S) - 1
  BY <1>1, FS_RemoveElement
<1> QED
  BY <1>1, <1>2, <1>3, FS_CardinalityType, FS_EmptySet, FS_Subset

----------------------------------------------------------------------------
(* Types *)

\* Every step keeps the types.
LEMMA TypeStep == TypeOK /\ [Next]_vars => TypeOK'
<1> SUFFICES ASSUME TypeOK, [Next]_vars PROVE TypeOK'
  OBVIOUS
<1> USE RWAssumption DEF TypeOK, Calls, NoReaders, NoWriter
<1>1. ASSUME NEW c \in Readers, Read(c) PROVE TypeOK'
  BY <1>1 DEF Read, ReadAcquire, Overlaps, Shortens, ReaderAdmitted
<1>2. ASSUME NEW c \in Readers, ReadUnheard(c) PROVE TypeOK'
  BY <1>2 DEF ReadUnheard, ReadAcquire, Overlaps, Shortens, ReaderAdmitted, Return
<1>3. ASSUME NEW c \in Readers, ReleaseRead(c) PROVE TypeOK'
  BY <1>3 DEF ReleaseRead, ReadRelease, Return
<1>4. ASSUME NEW c \in Writers, Write(c) PROVE TypeOK'
  BY <1>4 DEF Write, WriteAcquire, Overlaps, WriterAdmitted
<1>5. ASSUME NEW c \in Writers, WriteUnheard(c) PROVE TypeOK'
  BY <1>5 DEF WriteUnheard, WriteAcquire, Overlaps, WriterAdmitted, Return
<1>6. ASSUME NEW c \in Writers, RenewWriter(c) PROVE TypeOK'
  BY <1>6 DEF RenewWriter
<1>7. ASSUME NEW c \in Writers, ReleaseWrite(c) PROVE TypeOK'
  BY <1>7 DEF ReleaseWrite, WriteRelease, Return
<1>8. ASSUME NEW c \in Calls, GiveUp(c) PROVE TypeOK'
  BY <1>8 DEF GiveUp, Return
<1>9. ASSUME NEW c \in Calls, ReleaseUnheard(c) PROVE TypeOK'
  <2>1. hash' \in [readers : Nat, ttl : 0 .. MaxTimeout]
    BY <1>9 DEF ReleaseUnheard, ReadRelease
  <2>2. writer' \in [owner : Writers \cup {None}, ttl : 0 .. MaxTimeout]
    BY <1>9 DEF ReleaseUnheard, WriteRelease
  <2>3. undercut' \in BOOLEAN
    BY <1>9, Zenon DEF ReleaseUnheard
  <2> QED
    BY <1>9, <2>1, <2>2, <2>3 DEF ReleaseUnheard, Return
<1>10. ASSUME NEW c \in Calls, Abandon(c) PROVE TypeOK'
  BY <1>10 DEF Abandon, Return
<1>11. ASSUME Tick PROVE TypeOK'
  BY <1>11 DEF Tick
<1>12. ASSUME UNCHANGED vars PROVE TypeOK'
  BY <1>12 DEF vars
<1> QED
  BY <1>1, <1>2, <1>3, <1>4, <1>5, <1>6, <1>7, <1>8, <1>9, <1>10, <1>11, <1>12 DEF Next

\* The initial state has them.
LEMMA InitTypes == Init => TypeOK
<1> SUFFICES ASSUME Init PROVE TypeOK
  OBVIOUS
<1>0. 0 \in 0 .. MaxTimeout /\ 0 \in 0 .. MaxResends
  BY RWAssumption
<1> USE <1>0 DEF Init, NoReaders, NoWriter
<1>1. hash \in [readers : Nat, ttl : 0 .. MaxTimeout]
  OBVIOUS
<1>2. writer \in [owner : Writers \cup {None}, ttl : 0 .. MaxTimeout]
  OBVIOUS
<1>3. resends \in [Calls -> 0 .. MaxResends] /\ lease \in [Calls -> 0 .. MaxTimeout]
  OBVIOUS
<1>4. pc \in [Calls -> {"waiting", "inside", "releasing", "done"}]
  OBVIOUS
<1> QED
  BY <1>1, <1>2, <1>3, <1>4 DEF TypeOK

\* The type invariant: no counter leaves its range, whatever is lost or sent again.
THEOREM TypeCorrect == Spec => []TypeOK
  BY InitTypes, TypeStep, PTL DEF Spec

----------------------------------------------------------------------------
(* The calls and the writer key *)

\* Every step keeps the form of the calls.
LEMMA CallsStep == TypeOK /\ CallsBegin /\ [Next]_vars => CallsBegin'
<1> SUFFICES ASSUME TypeOK, CallsBegin, [Next]_vars PROVE CallsBegin'
  OBVIOUS
<1> USE RWAssumption DEF TypeOK, CallsBegin, Calls
<1>1. ASSUME NEW c \in Calls, Read(c) \/ Write(c) PROVE CallsBegin'
  BY <1>1 DEF Read, Write
<1>2. ASSUME NEW c \in Calls, ReadUnheard(c) \/ WriteUnheard(c) PROVE CallsBegin'
  BY <1>2 DEF ReadUnheard, WriteUnheard, Return
<1>3. ASSUME NEW c \in Calls, ReleaseRead(c) \/ ReleaseWrite(c) PROVE CallsBegin'
  BY <1>3 DEF ReleaseRead, ReleaseWrite, Return
<1>4. ASSUME NEW c \in Writers, RenewWriter(c) PROVE CallsBegin'
  BY <1>4 DEF RenewWriter
<1>5. ASSUME NEW c \in Calls, GiveUp(c) \/ Abandon(c) PROVE CallsBegin'
  BY <1>5 DEF GiveUp, Abandon, Return
<1>6. ASSUME NEW c \in Calls, ReleaseUnheard(c) PROVE CallsBegin'
  BY <1>6 DEF ReleaseUnheard, Return
<1>7. ASSUME Tick PROVE CallsBegin'
  BY <1>7 DEF Tick
<1>8. ASSUME UNCHANGED vars PROVE CallsBegin'
  BY <1>8 DEF vars
<1> QED
  BY <1>1, <1>2, <1>3, <1>4, <1>5, <1>6, <1>7, <1>8 DEF Next

\* A writer's lease never outlasts its key: only the writer deletes it, at the end.
LEMMA WriterStep ==
    TypeOK /\ CallsBegin /\ WriterBacked /\ [Next]_vars => WriterBacked'
<1> SUFFICES ASSUME TypeOK, CallsBegin, WriterBacked, [Next]_vars PROVE WriterBacked'
  OBVIOUS
<1> USE RWAssumption DEF TypeOK, CallsBegin, WriterBacked, Calls
<1>1. ASSUME NEW c \in Readers, Read(c) \/ ReadUnheard(c) \/ ReleaseRead(c) PROVE WriterBacked'
  <2>1. UNCHANGED writer
    BY <1>1 DEF Read, ReadUnheard, ReleaseRead
  <2>2. \A w \in Writers : w # c
    OBVIOUS
  <2>3. CASE Read(c)
    BY <2>1, <2>2, <2>3 DEF Read
  <2>4. CASE ReadUnheard(c)
    BY <2>1, <2>2, <2>4 DEF ReadUnheard, Return
  <2>5. CASE ReleaseRead(c)
    BY <2>1, <2>2, <2>5 DEF ReleaseRead, Return
  <2> QED
    BY <1>1, <2>3, <2>4, <2>5
<1>2. ASSUME NEW c \in Writers, Write(c) PROVE WriterBacked'
  BY <1>2 DEF Write, WriteAcquire, WriterAdmitted
<1>3. ASSUME NEW c \in Writers, WriteUnheard(c) PROVE WriterBacked'
  BY <1>3 DEF WriteUnheard, WriteAcquire, WriterAdmitted, Return
<1>4. ASSUME NEW c \in Writers, RenewWriter(c) PROVE WriterBacked'
  BY <1>4 DEF RenewWriter
<1>5. ASSUME NEW c \in Writers, ReleaseWrite(c) PROVE WriterBacked'
  BY <1>5 DEF ReleaseWrite, WriteRelease, Return
<1>6. ASSUME NEW c \in Calls, ReleaseUnheard(c) PROVE WriterBacked'
  BY <1>6 DEF ReleaseUnheard, WriteRelease, Return
<1>7. ASSUME NEW c \in Calls, GiveUp(c) \/ Abandon(c) PROVE WriterBacked'
  BY <1>7 DEF GiveUp, Abandon, Return
<1>8. ASSUME Tick PROVE WriterBacked'
  BY <1>8 DEF Tick
<1>9. ASSUME UNCHANGED vars PROVE WriterBacked'
  BY <1>9 DEF vars
<1> QED
  BY <1>1, <1>2, <1>3, <1>4, <1>5, <1>6, <1>7, <1>8, <1>9 DEF Next

\* A key that was lost does not come back: its owner, which nobody else has, does not
\* ask for it again.
LEMMA IntrusionStep ==
    TypeOK /\ CallsBegin /\ IntrusionNoticed /\ [Next]_vars => IntrusionNoticed'
<1> SUFFICES ASSUME TypeOK, CallsBegin, IntrusionNoticed, [Next]_vars
             PROVE  IntrusionNoticed'
  OBVIOUS
<1> USE RWAssumption DEF TypeOK, CallsBegin, IntrusionNoticed, Calls
<1>1. ASSUME NEW c \in Readers, Read(c) PROVE IntrusionNoticed'
  BY <1>1 DEF Read, Overlaps, ReaderAdmitted
<1>2. ASSUME NEW c \in Readers, ReadUnheard(c) PROVE IntrusionNoticed'
  BY <1>2 DEF ReadUnheard, Overlaps, ReaderAdmitted, Return
<1>3. ASSUME NEW c \in Readers, ReleaseRead(c) PROVE IntrusionNoticed'
  BY <1>3 DEF ReleaseRead, Return
<1>4. ASSUME NEW c \in Writers, Write(c) PROVE IntrusionNoticed'
  BY <1>4 DEF Write, WriteAcquire, WriterAdmitted, Overlaps
<1>5. ASSUME NEW c \in Writers, WriteUnheard(c) PROVE IntrusionNoticed'
  BY <1>5 DEF WriteUnheard, WriteAcquire, WriterAdmitted, Overlaps, Return
<1>6. ASSUME NEW c \in Writers, RenewWriter(c) PROVE IntrusionNoticed'
  BY <1>6 DEF RenewWriter
<1>7. ASSUME NEW c \in Writers, ReleaseWrite(c) PROVE IntrusionNoticed'
  BY <1>7 DEF ReleaseWrite, WriteRelease, NoWriter, Return
<1>8. ASSUME NEW c \in Calls, ReleaseUnheard(c) PROVE IntrusionNoticed'
  BY <1>8 DEF ReleaseUnheard, WriteRelease, NoWriter, Return
<1>9. ASSUME NEW c \in Calls, GiveUp(c) \/ Abandon(c) PROVE IntrusionNoticed'
  BY <1>9 DEF GiveUp, Abandon, Return
<1>10. ASSUME Tick PROVE IntrusionNoticed'
  BY <1>10 DEF Tick, NoWriter
<1>11. ASSUME UNCHANGED vars PROVE IntrusionNoticed'
  BY <1>11 DEF vars
<1> QED
  BY <1>1, <1>2, <1>3, <1>4, <1>5, <1>6, <1>7, <1>8, <1>9, <1>10, <1>11 DEF Next

----------------------------------------------------------------------------
(* The readers' hash *)

\* Where no reader gets a lease, those with one become no more.
LEMMA FewerLeased ==
    ASSUME TypeOK, \A r \in Readers : lease'[r] <= lease[r], lease' \in [Calls -> Nat]
    PROVE  Leased' \subseteq Leased /\ Cardinality(Leased') <= Cardinality(Leased)
<1>1. Leased' \subseteq Leased
  BY DEF Leased, TypeOK, Calls
<1> QED
  BY <1>1, ReaderSets DEF Leased

\* Every step either notes that the count or the ttl were reduced too early or keeps
\* them sufficient.
LEMMA CoverStep ==
    TypeOK /\ CallsBegin /\ ReadersCovered /\ [Next]_vars => ReadersCovered'
<1> SUFFICES ASSUME TypeOK, CallsBegin, ReadersCovered, [Next]_vars, ~undercut'
             PROVE  /\ Cardinality(Leased') <= hash'.readers
                    /\ \A r \in Readers : lease'[r] <= hash'.ttl
  BY DEF ReadersCovered
<1> DEFINE Covered == /\ Cardinality(Leased') <= hash'.readers
                      /\ \A r \in Readers : lease'[r] <= hash'.ttl
<1>a. hash \in [readers : Nat, ttl : 0 .. MaxTimeout] /\ lease \in [Calls -> 0 .. MaxTimeout]
  BY DEF TypeOK
<1>b. hash' \in [readers : Nat, ttl : 0 .. MaxTimeout] /\ lease' \in [Calls -> 0 .. MaxTimeout]
  BY TypeStep DEF TypeOK
<1>c. Cardinality(Leased) \in Nat /\ Cardinality(Leased') \in Nat
  BY ReaderSets DEF Leased
<1>d. Readers \subseteq Calls /\ Writers \subseteq Calls /\ \A w \in Writers : w \notin Readers
  BY RWAssumption DEF Calls
<1>e. TimeoutOf \in [Calls -> 1 .. MaxTimeout] /\ MaxTimeout \in Nat
  BY RWAssumption
<1>0. ASSUME ~undercut
      PROVE  Cardinality(Leased) <= hash.readers /\ \A r \in Readers : lease[r] <= hash.ttl
  BY <1>0 DEF ReadersCovered
<1>1. ASSUME hash' = hash, undercut' = undercut, \A r \in Readers : lease'[r] <= lease[r]
      PROVE  Covered
  <2>1. Cardinality(Leased') <= Cardinality(Leased)
    BY <1>1, <1>b, FewerLeased
  <2> QED
    BY <1>0, <1>1, <1>a, <1>b, <1>c, <1>d, <2>1
<1>2. ASSUME NEW c \in Readers, ReaderAdmitted, hash' = ReadAcquire(TimeoutOf[c]),
             undercut' = (undercut \/ Shortens(TimeoutOf[c])), lease[c] = 0,
             \/ lease' = [lease EXCEPT ![c] = TimeoutOf[c]]
             \/ \A r \in Readers : lease'[r] <= lease[r]
      PROVE  Covered
  <2>1. ~undercut /\ ~(hash.readers > 0 /\ TimeoutOf[c] < hash.ttl)
    BY <1>2 DEF Shortens
  <2>2. hash' = [readers |-> hash.readers + 1, ttl |-> TimeoutOf[c]]
    BY <1>2 DEF ReadAcquire
  <2>3. \A r \in Readers : lease[r] <= TimeoutOf[c]
    <3>1. CASE hash.readers > 0
      BY <3>1, <1>0, <2>1, <1>a, <1>d, <1>e
    <3>2. CASE hash.readers = 0
      <4>1. Leased = {}
        BY <3>2, <1>0, <1>c, <2>1, ReaderSets DEF Leased
      <4> QED
        BY <4>1, <1>a, <1>d, <1>e DEF Leased
    <3> QED
      BY <3>1, <3>2, <1>a
  <2>4. CASE lease' = [lease EXCEPT ![c] = TimeoutOf[c]]
    <3>1. Leased' = Leased \cup {c} /\ c \notin Leased
      BY <2>4, <1>2, <1>a, <1>d, <1>e DEF Leased
    <3>2. Cardinality(Leased') = Cardinality(Leased) + 1
      BY <3>1, ReaderSets DEF Leased
    <3>3. hash'.readers = hash.readers + 1 /\ hash'.ttl = TimeoutOf[c]
      BY <2>2
    <3>4. \A r \in Readers : lease'[r] <= TimeoutOf[c]
      BY <2>3, <2>4, <1>a, <1>d, <1>e
    <3> QED
      BY <3>2, <3>3, <3>4, <2>1, <1>0, <1>a, <1>c
  <2>5. CASE \A r \in Readers : lease'[r] <= lease[r]
    <3>1. Cardinality(Leased') <= Cardinality(Leased)
      BY <2>5, <1>b, FewerLeased
    <3> QED
      BY <3>1, <2>1, <2>2, <2>3, <2>5, <1>0, <1>a, <1>b, <1>c, <1>d, <1>e
  <2> QED
    BY <1>2, <2>4, <2>5
<1>3. ASSUME NEW c \in Readers, hash' = ReadRelease,
             undercut' = (undercut \/ lease[c] = 0), lease' = [lease EXCEPT ![c] = 0]
      PROVE  Covered
  <2>0. ~undercut /\ lease[c] # 0
    BY <1>3, Zenon
  <2>1. ~undercut /\ lease[c] > 0
    BY <2>0, <1>a, <1>d
  <2>2. Leased' = Leased \ {c} /\ c \in Leased
    BY <2>1, <1>3, <1>a, <1>d DEF Leased
  <2>3. Cardinality(Leased') = Cardinality(Leased) - 1
    BY <2>2, ReaderSets DEF Leased
  <2>4. CASE hash.readers > 1
    BY <2>1, <2>3, <2>4, <1>0, <1>3, <1>a, <1>c, <1>d DEF ReadRelease
  <2>5. CASE ~(hash.readers > 1)
    <3>1. Cardinality(Leased') = 0
      BY <2>1, <2>3, <2>5, <1>0, <1>a, <1>c
    <3>2. Leased' = {}
      BY <3>1, ReaderSets DEF Leased
    <3> QED
      BY <3>1, <3>2, <2>5, <1>3, <1>b, <1>d DEF ReadRelease, NoReaders, Leased
  <2> QED
    BY <2>4, <2>5
<1>4. ASSUME Tick PROVE Covered
  <2>1. /\ \A r \in Readers : lease'[r] = IF lease[r] > 0 THEN lease[r] - 1 ELSE 0
        /\ ~undercut
    BY <1>4, <1>d DEF Tick
  <2>2. Cardinality(Leased') <= Cardinality(Leased)
    BY <2>1, <1>a, <1>b, <1>d, FewerLeased
  <2>3. CASE hash.ttl = 1
    <3>1. \A r \in Readers : lease'[r] = 0
      BY <2>1, <2>3, <1>0, <1>a, <1>d
    <3>2. Leased' = {}
      BY <3>1 DEF Leased
    <3> QED
      BY <3>1, <3>2, <2>3, <1>4, <1>c, FS_EmptySet DEF Tick, NoReaders
  <2>4. CASE hash.ttl # 1
    <3>1. hash' = [hash EXCEPT !.ttl = IF hash.ttl > 0 THEN hash.ttl - 1 ELSE 0]
      BY <2>4, <1>4 DEF Tick
    <3> QED
      BY <3>1, <2>1, <2>2, <2>4, <1>0, <1>a, <1>c, <1>d
  <2> QED
    BY <2>3, <2>4
<1> HIDE DEF Covered
<1>5. ASSUME NEW c \in Readers, Read(c) PROVE Covered
  <2>1. lease[c] = 0
    BY <1>5, <1>d DEF Read, CallsBegin
  <2> QED
    BY <1>2, <1>5, <2>1 DEF Read
<1>6. ASSUME NEW c \in Calls, lease' = [lease EXCEPT ![c] = 0] \/ lease' = lease
      PROVE  \A r \in Readers : lease'[r] <= lease[r]
  BY <1>6, <1>a, <1>d
<1>7. ASSUME NEW c \in Readers, ReadUnheard(c) PROVE Covered
  <2>1. lease[c] = 0
    BY <1>7, <1>d DEF ReadUnheard, CallsBegin
  <2>2. lease' = [lease EXCEPT ![c] = 0] \/ lease' = lease
    BY <1>7 DEF ReadUnheard, Return
  <2>3. \A r \in Readers : lease'[r] <= lease[r]
    BY <2>2, <1>6, <1>d
  <2>4. CASE ReaderAdmitted
    BY <1>2, <1>7, <2>1, <2>3, <2>4 DEF ReadUnheard
  <2>5. CASE ~ReaderAdmitted
    BY <1>1, <1>7, <2>3, <2>5 DEF ReadUnheard, ReadAcquire, Shortens, TypeOK
  <2> QED
    BY <2>4, <2>5
<1>8. ASSUME NEW c \in Readers, ReleaseRead(c) PROVE Covered
  BY <1>3, <1>8 DEF ReleaseRead, Return
<1>9. ASSUME NEW c \in Calls, ReleaseUnheard(c) PROVE Covered
  <2>1. lease' = [lease EXCEPT ![c] = 0]
    BY <1>9 DEF ReleaseUnheard, Return
  <2>2. CASE c \in Readers
    BY <1>3, <1>9, <2>1, <2>2 DEF ReleaseUnheard
  <2>3. CASE c \notin Readers
    BY <1>1, <1>6, <1>9, <2>1, <2>3 DEF ReleaseUnheard
  <2> QED
    BY <2>2, <2>3
<1>10. ASSUME NEW c \in Writers, Write(c) \/ RenewWriter(c) PROVE Covered
  <2>1. UNCHANGED <<hash, undercut>> /\ \A r \in Readers : lease'[r] = lease[r]
    BY <1>10, <1>a, <1>d DEF Write, RenewWriter
  <2> QED
    BY <1>1, <1>a, <1>d, <2>1
<1>11. ASSUME NEW c \in Writers, WriteUnheard(c) \/ ReleaseWrite(c) PROVE Covered
  <2>1. UNCHANGED <<hash, undercut>>
    BY <1>11 DEF WriteUnheard, ReleaseWrite
  <2>2. lease' = [lease EXCEPT ![c] = 0] \/ lease' = lease
    BY <1>11 DEF WriteUnheard, ReleaseWrite, Return
  <2> QED
    BY <1>1, <1>6, <1>d, <2>1, <2>2
<1>12. ASSUME NEW c \in Calls, GiveUp(c) \/ Abandon(c) PROVE Covered
  <2>1. UNCHANGED <<hash, undercut>> /\ lease' = [lease EXCEPT ![c] = 0]
    BY <1>12 DEF GiveUp, Abandon, Return
  <2> QED
    BY <1>1, <1>6, <2>1
<1>13. ASSUME UNCHANGED vars PROVE Covered
  BY <1>1, <1>13, <1>a, <1>d DEF vars
<1>14. Covered
  BY <1>4, <1>5, <1>7, <1>8, <1>9, <1>10, <1>11, <1>12, <1>13 DEF Next
<1> QED
  BY <1>14 DEF Covered

\* A writer is admitted when the count is 0, a reader when there is no writer key.
LEMMA AloneStep ==
    TypeOK /\ CallsBegin /\ ReadersCovered /\ ReadersAlone /\ [Next]_vars => ReadersAlone'
<1> SUFFICES ASSUME TypeOK, CallsBegin, ReadersCovered, ReadersAlone, [Next]_vars,
                    ~undercut', Leased' # {}
             PROVE  writer'.owner = None
  BY DEF ReadersAlone
<1>a. lease \in [Calls -> 0 .. MaxTimeout] /\ hash \in [readers : Nat, ttl : 0 .. MaxTimeout]
  BY DEF TypeOK
<1>d. Readers \subseteq Calls /\ Writers \subseteq Calls /\ \A w \in Writers : w \notin Readers
  BY RWAssumption DEF Calls
<1>b. lease' \in [Calls -> 0 .. MaxTimeout]
  BY TypeStep DEF TypeOK
<1>1. ASSUME ~undercut, \A r \in Readers : lease'[r] <= lease[r],
             writer'.owner \in {writer.owner, None}
      PROVE  writer'.owner = None
  <2>1. Leased # {}
    BY <1>1, <1>a, <1>b, <1>d DEF Leased
  <2> QED
    BY <1>1, <2>1 DEF ReadersAlone
<1>2. ASSUME NEW c \in Calls, lease' = [lease EXCEPT ![c] = 0] \/ lease' = lease
      PROVE  \A r \in Readers : lease'[r] <= lease[r]
  BY <1>2, <1>a, <1>d
<1>3. ASSUME NEW c \in Readers, Read(c) \/ ReadUnheard(c) PROVE writer'.owner = None
  <2>1. CASE ReaderAdmitted
    BY <1>3, <2>1 DEF Read, ReadUnheard, ReaderAdmitted
  <2>2. CASE ~ReaderAdmitted
    <3>1. ReadUnheard(c)
      BY <1>3, <2>2 DEF Read
    <3>2. ~undercut /\ UNCHANGED writer
      BY <3>1 DEF ReadUnheard
    <3>3. lease' = [lease EXCEPT ![c] = 0] \/ lease' = lease
      BY <3>1 DEF ReadUnheard, Return
    <3> QED
      BY <3>2, <3>3, <1>1, <1>2, <1>d
  <2> QED
    BY <2>1, <2>2
<1>4. ASSUME NEW c \in Readers, ReleaseRead(c) PROVE writer'.owner = None
  <2>1. ~undercut /\ UNCHANGED writer /\ lease' = [lease EXCEPT ![c] = 0]
    BY <1>4 DEF ReleaseRead, Return
  <2> QED
    BY <2>1, <1>1, <1>2, <1>d
<1>5. ASSUME NEW c \in Writers, WriterAdmitted, UNCHANGED undercut,
             \A r \in Readers : lease'[r] = lease[r]
      PROVE  FALSE
  <2>0. ~undercut
    BY <1>5, Zenon
  <2>1. Cardinality(Leased) <= 0
    BY <2>0, <1>5 DEF ReadersCovered, WriterAdmitted
  <2>2. Cardinality(Leased) \in Nat /\ (Cardinality(Leased) = 0 <=> Leased = {})
    BY ReaderSets DEF Leased
  <2>3. Leased = {}
    BY <2>1, <2>2
  <2> QED
    BY <2>3, <1>5, <1>a, <1>d DEF Leased
<1>6. ASSUME NEW c \in Writers, Write(c) PROVE writer'.owner = None
  <2>1. \A r \in Readers : lease'[r] = lease[r]
    BY <1>6, <1>a, <1>d DEF Write
  <2> QED
    BY <1>5, <1>6, <2>1 DEF Write
<1>7. ASSUME NEW c \in Writers, WriteUnheard(c) PROVE writer'.owner = None
  <2>1. UNCHANGED undercut
    BY <1>7 DEF WriteUnheard
  <2>2. lease' = [lease EXCEPT ![c] = 0] \/ lease' = lease
    BY <1>7 DEF WriteUnheard, Return
  <2>3. CASE WriterAdmitted
    <3>1. \A r \in Readers : lease'[r] = lease[r]
      BY <2>2, <1>a, <1>d
    <3> QED
      BY <3>1, <1>5, <2>1, <2>3
  <2>4. CASE ~WriterAdmitted
    <3>1. UNCHANGED writer
      BY <1>7, <2>4 DEF WriteUnheard, WriteAcquire
    <3> QED
      BY <3>1, <2>1, <2>2, <1>1, <1>2, <1>d
  <2> QED
    BY <2>3, <2>4
<1>8. ASSUME NEW c \in Writers, RenewWriter(c) PROVE writer'.owner = None
  <2>1. ~undercut /\ \A r \in Readers : lease'[r] = lease[r]
    BY <1>8, <1>a, <1>d DEF RenewWriter
  <2>2. writer'.owner = writer.owner
    BY <1>8 DEF RenewWriter, TypeOK
  <2> QED
    BY <2>1, <2>2, <1>1, <1>a, <1>d
<1>9. ASSUME NEW c \in Writers, ReleaseWrite(c) PROVE writer'.owner = None
  <2>1. ~undercut /\ lease' = [lease EXCEPT ![c] = 0]
    BY <1>9 DEF ReleaseWrite, Return
  <2>2. writer'.owner \in {writer.owner, None}
    BY <1>9 DEF ReleaseWrite, WriteRelease, NoWriter
  <2> QED
    BY <2>1, <2>2, <1>1, <1>2, <1>d
<1>10. ASSUME NEW c \in Calls, ReleaseUnheard(c) PROVE writer'.owner = None
  <2>1. lease' = [lease EXCEPT ![c] = 0]
    BY <1>10 DEF ReleaseUnheard, Return
  <2>2. writer'.owner \in {writer.owner, None}
    BY <1>10 DEF ReleaseUnheard, WriteRelease, NoWriter
  <2>3. ~undercut
    BY <1>10, Zenon DEF ReleaseUnheard
  <2> QED
    BY <2>1, <2>2, <2>3, <1>1, <1>2
<1>11. ASSUME NEW c \in Calls, GiveUp(c) \/ Abandon(c) PROVE writer'.owner = None
  <2>1. ~undercut /\ UNCHANGED writer /\ lease' = [lease EXCEPT ![c] = 0]
    BY <1>11 DEF GiveUp, Abandon, Return
  <2> QED
    BY <2>1, <1>1, <1>2
<1>12. ASSUME Tick PROVE writer'.owner = None
  <2>1. ~undercut /\ writer'.owner \in {writer.owner, None}
    BY <1>12 DEF Tick, NoWriter, TypeOK
  <2>2. \A r \in Readers : lease'[r] <= lease[r]
    BY <1>12, <1>a, <1>d DEF Tick
  <2> QED
    BY <2>1, <2>2, <1>1
<1>13. ASSUME UNCHANGED vars PROVE writer'.owner = None
  BY <1>13, <1>1, <1>a, <1>d DEF vars
<1> QED
  BY <1>3, <1>4, <1>6, <1>7, <1>8, <1>9, <1>10, <1>11, <1>12, <1>13 DEF Next

----------------------------------------------------------------------------
(* Phantom readers *)

\* No command of a reader was lost or sent again, so far.
ReadersUndisturbed == \A c \in Readers : resends[c] = 0 /\ result[c] # "broken"

Counted == {c \in Readers : pc[c] \in {"inside", "releasing"}}

\* Once disturbed, always disturbed.
LEMMA DisturbanceStays ==
    TypeOK /\ CallsBegin /\ [Next]_vars /\ ReadersUndisturbed' => ReadersUndisturbed
<1> SUFFICES ASSUME TypeOK, CallsBegin, [Next]_vars,
                    NEW r \in Readers, resends'[r] = 0, result'[r] # "broken"
             PROVE  resends[r] = 0 /\ result[r] # "broken"
  BY DEF ReadersUndisturbed
<1>d. /\ r \in Calls /\ Readers \subseteq Calls /\ Writers \subseteq Calls
      /\ resends \in [Calls -> Nat]
      /\ result \in [Calls -> {"none", "released", "body_error", "acquire_error",
                               "release_error", "broken"}]
  BY RWAssumption DEF TypeOK, Calls
<1>1. resends[r] = 0
  <2>1. \/ UNCHANGED resends
        \/ \E c \in Calls : resends' = [resends EXCEPT ![c] = @ + 1]
    BY <1>d DEF Next, Read, ReadUnheard, ReleaseRead, Write, WriteUnheard, RenewWriter,
                ReleaseWrite, GiveUp, ReleaseUnheard, Abandon, Tick, vars
  <2> QED
    BY <2>1, <1>d
<1>2. result[r] # "broken"
  <2>1. \/ UNCHANGED result
        \/ \E c \in Calls : pc[c] # "done" /\ \E x : result' = [result EXCEPT ![c] = x]
    BY <1>d DEF Next, Read, ReadUnheard, ReleaseRead, Write, WriteUnheard, RenewWriter,
                ReleaseWrite, GiveUp, ReleaseUnheard, Abandon, Tick, vars, Return
  <2> QED
    BY <2>1, <1>d DEF CallsBegin
<1> QED
  BY <1>1, <1>2

\* Every step keeps the count within the readers that will still release.
LEMMA PhantomStep == TypeOK /\ CallsBegin /\ NoPhantomReader /\ [Next]_vars => NoPhantomReader'
<1> SUFFICES ASSUME TypeOK, CallsBegin, NoPhantomReader, [Next]_vars, ReadersUndisturbed'
             PROVE  hash'.readers <= Cardinality(Counted')
  BY DEF NoPhantomReader, ReadersUndisturbed, Counted
<1>a. ReadersUndisturbed /\ hash.readers <= Cardinality(Counted)
  BY DisturbanceStays DEF NoPhantomReader, ReadersUndisturbed, Counted
<1>b. /\ hash \in [readers : Nat, ttl : 0 .. MaxTimeout]
      /\ hash' \in [readers : Nat, ttl : 0 .. MaxTimeout]
      /\ pc \in [Calls -> {"waiting", "inside", "releasing", "done"}]
      /\ resends \in [Calls -> Nat]
      /\ result \in [Calls -> {"none", "released", "body_error", "acquire_error",
                               "release_error", "broken"}]
  BY RWAssumption, TypeStep DEF TypeOK
<1>c. Cardinality(Counted) \in Nat /\ Cardinality(Counted') \in Nat
  BY ReaderSets DEF Counted
<1>d. Readers \subseteq Calls /\ Writers \subseteq Calls /\ \A w \in Writers : w \notin Readers
  BY RWAssumption DEF Calls
<1> DEFINE Bounded == hash'.readers <= Cardinality(Counted')
<1>1. ASSUME hash'.readers \in {0, hash.readers}, Counted' = Counted
      PROVE  Bounded
  BY <1>1, <1>a, <1>b, <1>c
<1>2. ASSUME NEW c \in Readers, Read(c) PROVE Bounded
  <2>1. Counted' = Counted \cup {c} /\ c \notin Counted
    BY <1>2, <1>b, <1>d DEF Read, Counted
  <2>2. Cardinality(Counted') = Cardinality(Counted) + 1
    BY <2>1, ReaderSets DEF Counted
  <2>3. hash'.readers = hash.readers + 1
    BY <1>2 DEF Read, ReadAcquire
  <2> QED
    BY <2>2, <2>3, <1>a, <1>b, <1>c
<1>3. ASSUME NEW c \in Readers, ReleaseRead(c) PROVE Bounded
  <2>1. Counted' = Counted \ {c} /\ c \in Counted
    BY <1>3, <1>b, <1>d DEF ReleaseRead, Return, Counted
  <2>2. Cardinality(Counted') = Cardinality(Counted) - 1
    BY <2>1, ReaderSets DEF Counted
  <2>3. hash'.readers = IF hash.readers > 1 THEN hash.readers - 1 ELSE 0
    BY <1>3, <1>b DEF ReleaseRead, ReadRelease, NoReaders
  <2> QED
    BY <2>2, <2>3, <1>a, <1>b, <1>c
<1>4. ASSUME NEW c \in Readers, ReadUnheard(c) \/ ReleaseUnheard(c) \/ Abandon(c)
      PROVE  FALSE
  <2>1. resends'[c] = resends[c] + 1 \/ result'[c] = "broken"
    BY <1>4, <1>b, <1>d DEF ReadUnheard, ReleaseUnheard, Abandon, Return
  <2> QED
    BY <2>1, <1>b, <1>d DEF ReadersUndisturbed
<1>5. ASSUME NEW c \in Calls, GiveUp(c) PROVE Bounded
  <2>1. Counted' = Counted
    BY <1>5, <1>b, <1>d DEF GiveUp, Return, Counted
  <2> QED
    BY <2>1, <1>1, <1>5 DEF GiveUp
<1>6. ASSUME NEW w \in Writers,
             Write(w) \/ WriteUnheard(w) \/ RenewWriter(w) \/ ReleaseWrite(w)
             \/ ReleaseUnheard(w) \/ Abandon(w)
      PROVE  Bounded
  <2>1. UNCHANGED hash
    BY <1>6, <1>d DEF Write, WriteUnheard, RenewWriter, ReleaseWrite, ReleaseUnheard, Abandon
  <2>2. \A r \in Readers : pc'[r] = pc[r]
    BY <1>6, <1>b, <1>d DEF Write, WriteUnheard, RenewWriter, ReleaseWrite, ReleaseUnheard,
                            Abandon, Return
  <2>3. Counted' = Counted
    BY <2>2 DEF Counted
  <2> QED
    BY <2>1, <2>3, <1>1
<1>7. ASSUME Tick PROVE Bounded
  <2>1. hash'.readers \in {0, hash.readers} /\ Counted' = Counted
    BY <1>7, <1>b DEF Tick, NoReaders, Counted
  <2> QED
    BY <2>1, <1>1
<1>8. ASSUME UNCHANGED vars PROVE Bounded
  BY <1>8, <1>1 DEF vars, Counted
<1> HIDE DEF Bounded
<1>9. Bounded
  BY <1>2, <1>3, <1>4, <1>5, <1>6, <1>7, <1>8 DEF Next, Calls
<1> QED
  BY <1>9 DEF Bounded

----------------------------------------------------------------------------
(* The theorems *)

\* The invariant holds in every state of every behaviour.
LEMMA RWInvariance == Spec => []RWInv
<1>1. Init => RWInv
  <2> SUFFICES ASSUME Init PROVE RWInv
    OBVIOUS
  <2>1. TypeOK
    BY InitTypes
  <2>2. CallsBegin /\ WriterBacked /\ IntrusionNoticed
    BY RWAssumption DEF Init, CallsBegin, WriterBacked, IntrusionNoticed, Calls
  <2>3. Leased = {} /\ Cardinality(Leased) = 0
    BY FS_EmptySet DEF Init, Leased, Calls
  <2>4. ReadersCovered /\ ReadersAlone
    BY <2>3 DEF Init, ReadersCovered, ReadersAlone, NoReaders, Calls
  <2> QED
    BY <2>1, <2>2, <2>4 DEF RWInv
<1>2. RWInv /\ [Next]_vars => RWInv'
  BY TypeStep, CallsStep, WriterStep, IntrusionStep, CoverStep, AloneStep DEF RWInv
<1> QED
  BY <1>1, <1>2, PTL DEF Spec

\* No two writers are within their leases at the same time, however late a release or a
\* renewal comes: a writer's lease is backed by a key that names it.
THEOREM WritersExclude == Spec => []WritersExcludeWriters
<1>1. RWInv => WritersExcludeWriters
  BY DEF RWInv, WriterBacked, WritersExcludeWriters, Within
<1> QED
  BY <1>1, RWInvariance, PTL

\* As long as nothing has reduced the readers' count or ttl too early no writer runs
\* within a reader's lease.
THEOREM ReadersExclude == Spec => []PunctualReadersExcludeWriters
<1>1. RWInv => PunctualReadersExcludeWriters
  <2> SUFFICES ASSUME RWInv, ~undercut, NEW r \in Readers, NEW w \in Writers,
                      Within(r), Within(w)
               PROVE  FALSE
    BY DEF PunctualReadersExcludeWriters, WriteExcludesReaders
  <2>1. writer.owner = None
    BY DEF RWInv, ReadersAlone, Leased, Within
  <2>2. writer.owner = w
    BY DEF RWInv, WriterBacked, Within
  <2> QED
    BY <2>1, <2>2, RWAssumption
<1> QED
  BY <1>1, RWInvariance, PTL

\* During a write section that ends without an error no other call was admitted, as its
\* release finds the key gone otherwise; calls admitted before it may still be inside.
THEOREM CleanWrite == Spec => []CleanWriteIsExclusive
<1>1. RWInv => CleanWriteIsExclusive
  BY DEF RWInv, IntrusionNoticed, CleanWriteIsExclusive
<1> QED
  BY <1>1, RWInvariance, PTL

\* Without lost replies and crashes the hash never counts a reader that has ended.
THEOREM PhantomFree == Spec => []NoPhantomReader
<1>1. Init => NoPhantomReader
  <2> SUFFICES ASSUME Init PROVE hash.readers <= Cardinality(Counted)
    BY DEF NoPhantomReader, Counted
  <2>1. Counted = {} /\ hash.readers = 0
    BY DEF Init, Counted, NoReaders, Calls
  <2> QED
    BY <2>1, FS_EmptySet
<1>2. RWInv => TypeOK /\ CallsBegin
  BY DEF RWInv
<1> QED
  BY <1>1, <1>2, RWInvariance, PhantomStep, PTL DEF Spec
=============================================================================
