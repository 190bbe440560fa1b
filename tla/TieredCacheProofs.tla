--------------------------- MODULE TieredCacheProofs ---------------------------
(***************************************************************************)
(* Theorems about TieredCache, for any keys, threads, sizes, policies,     *)
(* ttls and bounds: the types, with the size and the order of L1; how      *)
(* stale L1 may be; and that a process sees its own writes.                *)
(***************************************************************************)
EXTENDS TieredCache, TLAPS, FiniteSetTheorems, WellFoundedInduction

----------------------------------------------------------------------------
(* The dictionary *)

Dictionaries == [data : [Keys -> Entries \cup {Nothing}], before : SUBSET (Keys \X Keys)]

\* A dictionary as it is between two operations.
Sound(c) == c \in Dictionaries /\ IsFiniteSet(Cached(c)) /\ Ordered(c)

\* Nothing is neither an entry nor a value, and the three marks differ.
LEMMA Marks ==
    /\ Nothing \notin Entries /\ Nothing \notin Values /\ Negative \notin Values
    /\ Fallback \notin Values /\ Nothing # Negative /\ Nothing # Fallback
    /\ Negative # Fallback /\ Values \subseteq Nat
BY TieredAssumption DEF Values

\* What is dropped from a dictionary leaves the rest in order.
LEMMA DroppedSound ==
    ASSUME NEW c, Sound(c), NEW D
    PROVE  /\ Sound(Dropped(c, D)) /\ Cached(Dropped(c, D)) = Cached(c) \ D
           /\ \A k \in Keys : Dropped(c, D).data[k] = IF k \in D THEN Nothing ELSE c.data[k]
<1> DEFINE d == Dropped(c, D)
<1>a. c.data \in [Keys -> Entries \cup {Nothing}] /\ c.before \subseteq Keys \X Keys
  BY DEF Sound, Dictionaries
<1>1. /\ d.data = [k \in Keys |-> IF k \in D THEN Nothing ELSE c.data[k]]
      /\ d.before = {p \in c.before : p[1] \notin D /\ p[2] \notin D}
  BY DEF Dropped
<1>2. d \in Dictionaries
  <2>1. [k \in Keys |-> IF k \in D THEN Nothing ELSE c.data[k]] \in [Keys -> Entries \cup {Nothing}]
    BY <1>a
  <2>2. {p \in c.before : p[1] \notin D /\ p[2] \notin D} \in SUBSET (Keys \X Keys)
    BY <1>a
  <2> QED
    BY <2>1, <2>2 DEF Dropped, Dictionaries
<1> HIDE DEF d
<1>3. Cached(d) = Cached(c) \ D
  BY <1>1 DEF Cached
<1>4. IsFiniteSet(Cached(d))
  BY <1>3, FS_Subset DEF Sound
<1>5. \A j, k \in Cached(d) : <<j, k>> \in d.before <=> <<j, k>> \in c.before
  BY <1>1, <1>3
<1>6. d.before \subseteq Cached(d) \X Cached(d)
  <2>1. c.before \subseteq Cached(c) \X Cached(c)
    BY DEF Sound, Ordered
  <2> QED
    BY <1>1, <1>3, <2>1
<1>7. Ordered(d)
  <2>1. Cached(d) \subseteq Cached(c)
    BY <1>3
  <2> QED
    BY <1>5, <1>6, <2>1 DEF Sound, Ordered
<1>8. \A k \in Keys : d.data[k] = IF k \in D THEN Nothing ELSE c.data[k]
  BY <1>1
<1> QED
  BY <1>2, <1>3, <1>4, <1>7, <1>8 DEF Sound, d

\* A key that is cached goes to the end, whatever its place was or if it had none.
LEMMA ToEndSound ==
    ASSUME NEW b, Sound(b), NEW c \in Dictionaries, NEW k \in Cached(c),
           c.before = b.before, Cached(c) = Cached(b) \cup {k}
    PROVE  Sound(ToEnd(c, k)) /\ ToEnd(c, k).data = c.data /\ Cached(ToEnd(c, k)) = Cached(c)
<1> DEFINE d == ToEnd(c, k)
           S == {p \in c.before : k \notin {p[1], p[2]}} \cup {<<j, k>> : j \in Cached(c) \ {k}}
<1>a. c.data \in [Keys -> Entries \cup {Nothing}] /\ c.before \subseteq Keys \X Keys
  BY DEF Dictionaries
<1>b. Cached(c) \subseteq Keys
  BY DEF Cached
<1>c. c.before \subseteq Cached(c) \X Cached(c)
  BY DEF Sound, Ordered
<1>1. S \in SUBSET (Keys \X Keys)
  BY <1>a, <1>b
<1>2. d.before = S /\ d.data = c.data /\ d \in Dictionaries
  BY <1>1 DEF ToEnd, Dictionaries
<1>3. Cached(d) = Cached(c)
  BY <1>2 DEF Cached
<1>4. IsFiniteSet(Cached(d))
  BY <1>3, FS_AddElement DEF Sound
<1>5. \A i, j \in Cached(c) :
        /\ (i # k /\ j # k) => (<<i, j>> \in S <=> <<i, j>> \in b.before)
        /\ j = k => (<<i, j>> \in S <=> i # k)
        /\ i = k => <<i, j>> \notin S
  <2> SUFFICES ASSUME NEW i \in Cached(c), NEW j \in Cached(c)
               PROVE  /\ (i # k /\ j # k) => (<<i, j>> \in S <=> <<i, j>> \in b.before)
                      /\ j = k => (<<i, j>> \in S <=> i # k)
                      /\ i = k => <<i, j>> \notin S
    OBVIOUS
  <2>1. <<i, j>> \in S <=> \/ <<i, j>> \in c.before /\ k \notin {i, j}
                           \/ j = k /\ i # k
    OBVIOUS
  <2> QED
    BY <2>1
<1>6. S \subseteq Cached(c) \X Cached(c)
  BY <1>c
<1> HIDE DEF d, S
<1>7. Ordered(d)
  <2>1. \A j \in Cached(c) : j # k => j \in Cached(b)
    OBVIOUS
  <2>2. \A i, j \in Cached(c) : <<i, j>> \in S <=> (i # j /\ <<j, i>> \notin S)
    BY <1>5, <2>1 DEF Sound, Ordered
  <2>3. \A h, i, j \in Cached(c) : (<<h, i>> \in S /\ <<i, j>> \in S) => <<h, j>> \in S
    <3> SUFFICES ASSUME NEW h \in Cached(c), NEW i \in Cached(c), NEW j \in Cached(c),
                        <<h, i>> \in S, <<i, j>> \in S
                 PROVE  <<h, j>> \in S
      OBVIOUS
    <3>1. h # k /\ i # k
      BY <1>5
    <3>2. CASE j = k
      BY <1>5, <3>1, <3>2
    <3>3. CASE j # k
      BY <1>5, <2>1, <3>1, <3>3 DEF Sound, Ordered
    <3> QED
      BY <3>2, <3>3
  <2> QED
    BY <1>2, <1>3, <1>6, <2>2, <2>3 DEF Ordered
<1> QED
  BY <1>2, <1>3, <1>4, <1>7 DEF Sound, d

\* A set of natural numbers that is not empty has a least one.
LEMMA Least ==
    ASSUME NEW T \in SUBSET Nat, T # {}
    PROVE  \E x \in T : \A y \in T : x <= y
<1>1. PICK R : IsWellFoundedOn(R, Nat) /\ \A x, y \in Nat : x < y => <<x, y>> \in R
  <2> DEFINE S == OpToRel(<, Nat)
  <2>1. IsWellFoundedOn(S, Nat)
    BY NatLessThanWellFounded
  <2>2. \A x, y \in Nat : x < y => <<x, y>> \in S
    BY DEF OpToRel
  <2> HIDE DEF S
  <2> QED
    BY <2>1, <2>2
<1>2. PICK x \in T : \A y \in T : ~(<<y, x>> \in R)
  <2>1. IsWellFoundedOn(R, Nat) /\ T \subseteq Nat /\ T # {}
    BY <1>1
  <2>2. \E x \in T : \A y \in T : ~(<<y, x>> \in R)
    BY <2>1, WFMin, Zenon
  <2> QED
    BY <2>2
<1>3. ASSUME NEW y \in T PROVE x <= y
  <2>1. x \in Nat /\ y \in Nat /\ ~(y < x)
    BY <1>1, <1>2
  <2> QED
    BY <2>1
<1> QED
  BY <1>3

\* An order of finitely many keys has a first.
LEMMA OldestThere ==
    ASSUME NEW c, Sound(c), Cached(c) # {}
    PROVE  Oldest(c) \in Cached(c)
<1> DEFINE Behind(k) == {j \in Cached(c) : <<j, k>> \in c.before}
           Sizes == {Cardinality(Behind(k)) : k \in Cached(c)}
<1>1. \A k \in Cached(c) : IsFiniteSet(Behind(k)) /\ Cardinality(Behind(k)) \in Nat
  <2> SUFFICES ASSUME NEW k \in Cached(c)
               PROVE  IsFiniteSet(Behind(k)) /\ Cardinality(Behind(k)) \in Nat
    OBVIOUS
  <2>1. Behind(k) \subseteq Cached(c) /\ IsFiniteSet(Cached(c))
    BY DEF Sound
  <2> HIDE DEF Behind
  <2> QED
    BY <2>1, FS_Subset, FS_CardinalityType
<1>2. PICK n \in Sizes : \A m \in Sizes : n <= m
  <2>1. Sizes \in SUBSET Nat /\ Sizes # {}
    BY <1>1
  <2> HIDE DEF Sizes
  <2> QED
    BY <2>1, Least
<1>3. PICK k \in Cached(c) : n = Cardinality(Behind(k))
  OBVIOUS
<1>4. \A j \in Cached(c) : n <= Cardinality(Behind(j))
  BY <1>2
<1>5. ASSUME NEW j \in Cached(c), <<j, k>> \in c.before
      PROVE  FALSE
  <2>1. Behind(j) \subseteq Behind(k) /\ j \in Behind(k) /\ j \notin Behind(j)
    BY <1>5 DEF Sound, Ordered
  <2> HIDE DEF Behind
  <2>2. Cardinality(Behind(j)) < Cardinality(Behind(k))
    <3>1. Behind(j) # Behind(k)
      BY <2>1
    <3> QED
      BY <1>1, <2>1, <3>1, FS_Subset
  <2> QED
    BY <1>1, <1>3, <1>4, <2>2
<1>6. \E i \in Cached(c) : \A j \in Cached(c) : <<j, i>> \notin c.before
  BY <1>5
<1> QED
  BY <1>6 DEF Oldest

\* get() drops the entry, or puts it at the end.
LEMMA LocalGetSound ==
    ASSUME NEW c, Sound(c), NEW k \in Keys
    PROVE  /\ Sound(LocalGet(c, k)) /\ Cached(LocalGet(c, k)) \subseteq Cached(c)
           /\ \A j \in Keys : LocalGet(c, k).data[j] \in {c.data[j], Nothing}
<1>1. CASE c.data[k] = Nothing
  BY <1>1 DEF LocalGet
<1>2. CASE c.data[k] # Nothing /\ Expired(c.data[k])
  <2>1. LocalGet(c, k) = Dropped(c, {k})
    BY <1>2 DEF LocalGet
  <2> QED
    BY <2>1, DroppedSound
<1>3. CASE c.data[k] # Nothing /\ ~Expired(c.data[k])
  <2>1. LocalGet(c, k) = ToEnd(c, k)
    BY <1>3 DEF LocalGet
  <2>2. k \in Cached(c) /\ c \in Dictionaries /\ Cached(c) = Cached(c) \cup {k}
    BY <1>3 DEF Cached, Sound
  <2>3. Sound(ToEnd(c, k)) /\ ToEnd(c, k).data = c.data /\ Cached(ToEnd(c, k)) = Cached(c)
    BY <2>2, ToEndSound
  <2> QED
    BY <2>1, <2>3
<1> QED
  BY <1>1, <1>2, <1>3

\* set() makes the entry, or there is no room even for it, and takes none of the others
\* but the oldest; it leaves no more than local_maxsize.
LEMMA LocalSetSound ==
    ASSUME NEW c, Sound(c), Cardinality(Cached(c)) <= use.maxsize, use.maxsize \in Nat,
           NEW k \in Keys, NEW e \in Entries
    PROVE  /\ Sound(LocalSet(c, k, e)) /\ Cardinality(Cached(LocalSet(c, k, e))) <= use.maxsize
           /\ LocalSet(c, k, e).data[k] \in {e, Nothing}
           /\ \A j \in Keys \ {k} : LocalSet(c, k, e).data[j] \in {c.data[j], Nothing}
<1> DEFINE c1 == [c EXCEPT !.data[k] = e]
           d == ToEnd(c1, k)
<1>a. /\ c.data \in [Keys -> Entries \cup {Nothing}] /\ c.before \in SUBSET (Keys \X Keys)
      /\ IsFiniteSet(Cached(c)) /\ Cardinality(Cached(c)) \in Nat
  BY FS_CardinalityType DEF Sound, Dictionaries
<1>b. e # Nothing
  BY Marks
<1>1. /\ c1.data = [c.data EXCEPT ![k] = e] /\ c1.before = c.before
      /\ c1 \in Dictionaries
  <2>1. [c.data EXCEPT ![k] = e] \in [Keys -> Entries \cup {Nothing}]
    BY <1>a
  <2> QED
    BY <1>a, <2>1 DEF Sound, Dictionaries
<1>2. c1.data[k] = e /\ \A j \in Keys \ {k} : c1.data[j] = c.data[j]
  BY <1>1, <1>a
<1> HIDE DEF c1
<1>3. Cached(c1) = Cached(c) \cup {k} /\ k \in Cached(c1)
  BY <1>2, <1>b DEF Cached
<1>4. Sound(d) /\ d.data = c1.data /\ Cached(d) = Cached(c) \cup {k}
  BY <1>1, <1>3, ToEndSound
<1>5. /\ Cardinality(Cached(d)) \in Nat
      /\ Cardinality(Cached(d)) <= Cardinality(Cached(c)) + 1
  <2>1. /\ IsFiniteSet(Cached(c) \cup {k})
        /\ \/ Cardinality(Cached(c) \cup {k}) = Cardinality(Cached(c))
           \/ Cardinality(Cached(c) \cup {k}) = Cardinality(Cached(c)) + 1
    BY <1>a, FS_AddElement
  <2>2. Cardinality(Cached(d)) = Cardinality(Cached(c) \cup {k})
    BY <1>4
  <2> QED
    BY <1>a, <2>1, <2>2
<1>6. LocalSet(c, k, e) = IF Cardinality(Cached(c) \cup {k}) > use.maxsize
                          THEN Dropped(d, {Oldest(d)}) ELSE d
  BY DEF LocalSet, d, c1
<1> HIDE DEF d
<1>7. CASE Cardinality(Cached(d)) > use.maxsize
  <2>1. LocalSet(c, k, e) = Dropped(d, {Oldest(d)})
    BY <1>4, <1>6, <1>7
  <2>2. Oldest(d) \in Cached(d)
    BY <1>4, OldestThere
  <2>3. /\ Sound(Dropped(d, {Oldest(d)}))
        /\ Cached(Dropped(d, {Oldest(d)})) = Cached(d) \ {Oldest(d)}
        /\ \A j \in Keys : Dropped(d, {Oldest(d)}).data[j] \in {d.data[j], Nothing}
    BY <1>4, DroppedSound
  <2>4. Cardinality(Cached(d) \ {Oldest(d)}) = Cardinality(Cached(d)) - 1
    BY <1>4, <2>2, FS_RemoveElement DEF Sound
  <2>5. Cardinality(Cached(LocalSet(c, k, e))) <= use.maxsize
    <3>1. Cardinality(Cached(LocalSet(c, k, e))) = Cardinality(Cached(d)) - 1
      BY <2>1, <2>3, <2>4
    <3>2. \A m, n \in Nat : m <= n + 1 /\ n <= use.maxsize => m - 1 <= use.maxsize
      OBVIOUS
    <3> QED
      BY <1>5, <1>a, <3>1, <3>2
  <2> QED
    BY <1>2, <1>4, <2>1, <2>3, <2>5
<1>8. CASE ~(Cardinality(Cached(d)) > use.maxsize)
  <2>1. LocalSet(c, k, e) = d
    BY <1>4, <1>6, <1>8
  <2> QED
    BY <1>2, <1>4, <1>5, <1>8, <2>1
<1> QED
  BY <1>7, <1>8

\* The sweep only drops entries.
LEMMA SweptSound ==
    ASSUME NEW c, Sound(c), NEW d \in Swept(c)
    PROVE  /\ Sound(d) /\ Cached(d) \subseteq Cached(c)
           /\ \A k \in Keys : d.data[k] \in {c.data[k], Nothing}
<1>1. CASE d = c
  BY <1>1
<1>2. CASE d # c
  <2>1. PICK D : d = Dropped(c, D)
    BY <1>2 DEF Swept
  <2> QED
    BY <2>1, DroppedSound
<1> QED
  BY <1>1, <1>2

----------------------------------------------------------------------------
(* Types *)

Tasks == [pc : {"reading", "storing", "filling", "deleting"},
          op : {"get", "remember", "set", "delete"}, key : Keys,
          value : Values \cup {Nothing, Negative, Fallback}, wait : 0 .. MaxDelay]

\* What the types say, for use below.
LEMMA TypeFacts ==
    ASSUME TypeOK
    PROVE  /\ Sound(l1) /\ Cardinality(Cached(l1)) <= use.maxsize /\ Cardinality(Cached(l1)) \in Nat
           /\ use.maxsize \in Nat /\ use.threads \subseteq Threads /\ use.keys \subseteq Keys
           /\ task \in [Threads -> {Idle} \cup Tasks]
           /\ \A t \in Threads : task[t].pc # "idle" => task[t] \in Tasks
           /\ LocalTtl \in Nat /\ NegativeTtl \in Nat /\ MaxDelay \in Nat /\ MaxWrites \in Nat
           /\ writes \in Nat /\ faults \in Nat
<1>1. /\ use.maxsize \in Nat /\ use.threads \subseteq Threads /\ use.keys \subseteq Keys
      /\ LocalTtl \in Nat /\ NegativeTtl \in Nat /\ MaxDelay \in Nat /\ MaxWrites \in Nat
      /\ MaxFaults \in Nat
  BY TieredAssumption DEF TypeOK
<1>2. Sound(l1) /\ Cardinality(Cached(l1)) \in Nat
  BY FS_CardinalityType DEF TypeOK, Sound, Dictionaries
<1>3. task \in [Threads -> {Idle} \cup Tasks]
  BY DEF TypeOK, Tasks
<1>4. \A t \in Threads : task[t].pc # "idle" => task[t] \in Tasks
  BY <1>3 DEF Idle
<1> QED
  BY <1>1, <1>2, <1>3, <1>4 DEF TypeOK

\* What a thread goes on with.
LEMMA BecomeType ==
    ASSUME TypeOK, NEW t \in Threads, NEW pc \in {"reading", "storing", "filling", "deleting"},
           NEW op \in {"get", "remember", "set", "delete"}, NEW k \in Keys,
           NEW v \in Values \cup {Nothing, Negative, Fallback}, Become(t, pc, op, k, v)
    PROVE  /\ task' \in [Threads -> {Idle} \cup Tasks]
           /\ task'[t] = [pc |-> pc, op |-> op, key |-> k, value |-> v, wait |-> 0]
           /\ \A u \in Threads \ {t} : task'[u] = task[u]
<1>1. [pc |-> pc, op |-> op, key |-> k, value |-> v, wait |-> 0] \in Tasks
  BY TypeFacts DEF Tasks
<1> QED
  BY <1>1, TypeFacts DEF Become

\* Or that it is done.
LEMMA ReturnType ==
    ASSUME TypeOK, NEW t \in Threads, Return(t)
    PROVE  /\ task' \in [Threads -> {Idle} \cup Tasks] /\ task'[t] = Idle
           /\ \A u \in Threads \ {t} : task'[u] = task[u]
BY TypeFacts DEF Return

\* They hold at the start.
LEMMA InitType == Init => TypeOK
<1> SUFFICES ASSUME Init PROVE TypeOK
  OBVIOUS
<1>1. use \in Uses /\ use.maxsize \in Nat
  BY TieredAssumption DEF Init
<1>2. /\ l1.data = [k \in Keys |-> Nothing] /\ l1.before = {}
      /\ l1 \in [data : [Keys -> Entries \cup {Nothing}], before : SUBSET (Keys \X Keys)]
  BY DEF Init
<1>3. Cached(l1) = {}
  BY <1>2 DEF Cached
<1>4. IsFiniteSet(Cached(l1)) /\ Cardinality(Cached(l1)) = 0
  BY <1>3, FS_EmptySet
<1>5. Ordered(l1)
  BY <1>2, <1>3 DEF Ordered
<1>6. /\ LongSince \in Nat /\ LongAbsent \in Nat
      /\ MaxWrites \in Nat /\ MaxFaults \in Nat
  BY TieredAssumption DEF LongSince, LongAbsent
<1> QED
  BY <1>1, <1>2, <1>4, <1>5, <1>6 DEF Init, TypeOK

----------------------------------------------------------------------------
(* The type invariant *)

Filling(t) == task[t].pc = "filling"
OfSet(t) == Filling(t) /\ task[t].op = "set"

\* A fill has something to bring to L1, and that of a set() a value; set() reads nothing.
HasValue(r) ==
    /\ r.pc = "filling" =>
        r.value \in IF r.op = "set" THEN Values ELSE Values \cup {Negative, Fallback}
    /\ r.pc = "reading" => r.op # "set"
FillsHaveValues == \A t \in Threads : HasValue(task[t])

TypeInv == TypeOK /\ FillsHaveValues

DictionaryOK == Sound(l1) /\ Cardinality(Cached(l1)) <= use.maxsize
TasksOK == task \in [Threads -> {Idle} \cup Tasks]
RestOK ==
    /\ l2 \in [Keys -> Values \cup {Nothing}]
    /\ writes \in 0 .. MaxWrites /\ faults \in 0 .. MaxFaults
    /\ since \in [Values -> 0 .. LongSince] /\ absent \in [Keys -> 0 .. LongAbsent]
    /\ own \in [Keys -> 0 .. MaxWrites + 1]
    /\ crossed \subseteq Threads \cup Keys

\* The parts of TypeOK: the dictionary, the threads' operations, and the rest.
LEMMA TypeParts == TypeOK <=> use \in Uses /\ DictionaryOK /\ TasksOK /\ RestOK
BY DEF TypeOK, DictionaryOK, TasksOK, RestOK, Sound, Dictionaries, Tasks

\* The steps by whose they are: a thread's, or the process's or others' at no thread's.
Moves(t) ==
    \/ \E k \in use.keys : LookUp(t, "get", k) \/ LookUp(t, "remember", k)
    \/ \E k \in use.keys : BeginSet(t, k) \/ BeginDelete(t, k)
    \/ ReadRedis(t) \/ ReadFails(t)
    \/ Store(t) \/ StoreFails(t) \/ FactoryRaises(t)
    \/ Fill(t)
    \/ DeleteRedis(t) \/ DeleteFails(t)
Outside ==
    \/ InvalidateLocal(Keys) \/ \E k \in use.keys : InvalidateLocal({k})
    \/ \E k \in use.keys : Elsewhere(k) \/ Lapse(k)

\* There are no other steps.
LEMMA StepKinds ==
    ASSUME [Next]_vars
    PROVE  (\E t \in use.threads : Moves(t)) \/ Outside \/ Tick \/ UNCHANGED vars
BY Zenon DEF Next, Moves, Outside

\* The steps by what they do to L1: nothing, to drop or look up some of it, to fill it,
\* or to let its time pass.
LEMMA LocalSteps ==
    ASSUME TypeOK, [Next]_vars
    PROVE  \/ l1' = l1
           \/ \E k \in Keys : l1' = LocalGet(l1, k)
           \/ \E D : l1' = Dropped(l1, D)
           \/ \E t \in use.threads : Fill(t)
           \/ Tick
<1> USE DEF history
<1>1. ASSUME NEW t \in use.threads, NEW k \in use.keys,
             \/ LookUp(t, "get", k) \/ LookUp(t, "remember", k) \/ BeginSet(t, k)
             \/ BeginDelete(t, k)
      PROVE  \/ l1' = l1
             \/ \E j \in Keys : l1' = LocalGet(l1, j)
             \/ \E D : l1' = Dropped(l1, D)
  BY <1>1, TypeFacts DEF LookUp, BeginSet, BeginDelete
<1>2. ASSUME NEW t \in use.threads,
             \/ ReadRedis(t) \/ ReadFails(t) \/ Store(t) \/ StoreFails(t) \/ FactoryRaises(t)
             \/ DeleteRedis(t) \/ DeleteFails(t)
      PROVE  l1' = l1
  BY <1>2 DEF ReadRedis, ReadFails, Store, StoreFails, FactoryRaises, DeleteRedis, DeleteFails
<1>3. ASSUME NEW k \in use.keys, Elsewhere(k) \/ Lapse(k)
      PROVE  l1' = l1
  BY <1>3 DEF Elsewhere, Lapse
<1>4. ASSUME NEW D, InvalidateLocal(D)
      PROVE  l1' = Dropped(l1, D)
  BY <1>4 DEF InvalidateLocal
<1>5. CASE UNCHANGED vars
  BY <1>5 DEF vars
<1> QED
  BY <1>1, <1>2, <1>3, <1>4, <1>5 DEF Next

\* What a fill does to L1.
LEMMA FillStep ==
    ASSUME TypeInv, NEW t \in Threads, Fill(t)
    PROVE  \E e \in Entries :
             /\ task[t].pc = "filling" /\ task[t] \in Tasks
             /\ e.value = task[t].value
             /\ e.ttl = IF task[t].value = Negative THEN NegativeTtl ELSE LocalTtl
             /\ l1' \in Swept(LocalSet(l1, task[t].key, e))
<1> DEFINE ttl == IF task[t].value = Negative THEN NegativeTtl ELSE LocalTtl
           e == [value |-> task[t].value, ttl |-> ttl]
<1>1. task[t].pc = "filling" /\ task[t] \in Tasks
  BY TypeFacts DEF Fill, FillFor, TypeInv
<1>2. l1' \in Swept(LocalSet(l1, task[t].key, e))
  BY DEF Fill, FillFor
<1>3. task[t].value \in Values \cup {Negative, Fallback}
  BY <1>1 DEF TypeInv, FillsHaveValues, HasValue
<1>4. e \in Entries
  BY <1>3, TypeFacts DEF Entries, TypeInv
<1> QED
  BY <1>1, <1>2, <1>4

\* Every step leaves L1 in order and no larger than local_maxsize.
LEMMA DictionaryNext ==
    ASSUME TypeInv, [Next]_vars
    PROVE  DictionaryOK'
<1>a. DictionaryOK /\ Cardinality(Cached(l1)) \in Nat /\ use.maxsize \in Nat /\ TypeOK
  BY TypeFacts DEF DictionaryOK, TypeInv
<1>b. use' = use
  BY DEF Next, vars, history, LookUp, BeginSet, BeginDelete, ReadRedis, ReadFails, Store,
         StoreFails, FactoryRaises, Fill, FillFor, DeleteRedis, DeleteFails, InvalidateLocal,
         Elsewhere, Lapse, Tick
<1>c. ASSUME Sound(l1'), Cached(l1') \subseteq Cached(l1)
      PROVE  DictionaryOK'
  <2>1. Cardinality(Cached(l1')) <= Cardinality(Cached(l1)) /\ Cardinality(Cached(l1')) \in Nat
    BY <1>a, <1>c, FS_Subset, FS_CardinalityType DEF DictionaryOK, Sound
  <2>2. Cardinality(Cached(l1')) <= use.maxsize
    BY <1>a, <2>1 DEF DictionaryOK
  <2> QED
    BY <1>b, <1>c, <2>2 DEF DictionaryOK
<1>1. CASE l1' = l1
  BY <1>1, <1>a, <1>c DEF DictionaryOK
<1>2. ASSUME NEW k \in Keys, l1' = LocalGet(l1, k)
      PROVE  DictionaryOK'
  BY <1>2, <1>a, <1>c, LocalGetSound DEF DictionaryOK
<1>3. ASSUME NEW D, l1' = Dropped(l1, D)
      PROVE  DictionaryOK'
  <2>1. Sound(Dropped(l1, D)) /\ Cached(Dropped(l1, D)) \subseteq Cached(l1)
    BY <1>a, DroppedSound DEF DictionaryOK
  <2> QED
    BY <1>3, <1>c, <2>1
<1>4. ASSUME NEW t \in use.threads, Fill(t)
      PROVE  DictionaryOK'
  <2>0. t \in Threads
    BY <1>a, TypeFacts
  <2>1. PICK e \in Entries : /\ task[t] \in Tasks
                             /\ l1' \in Swept(LocalSet(l1, task[t].key, e))
    BY <1>4, <2>0, FillStep
  <2> DEFINE c == LocalSet(l1, task[t].key, e)
  <2>2. task[t].key \in Keys
    BY <2>1 DEF Tasks
  <2>3. Sound(c) /\ Cardinality(Cached(c)) <= use.maxsize
    BY <1>a, <2>2, LocalSetSound DEF DictionaryOK
  <2> HIDE DEF c
  <2>4. Sound(l1') /\ Cached(l1') \subseteq Cached(c)
    BY <2>1, <2>3, SweptSound DEF c
  <2>5. /\ Cardinality(Cached(l1')) <= Cardinality(Cached(c))
        /\ Cardinality(Cached(l1')) \in Nat /\ Cardinality(Cached(c)) \in Nat
    BY <2>3, <2>4, FS_Subset, FS_CardinalityType DEF Sound
  <2>6. Cardinality(Cached(l1')) <= use.maxsize
    BY <1>a, <2>3, <2>5
  <2> QED
    BY <1>b, <2>4, <2>6 DEF DictionaryOK
<1>5. CASE Tick
  <2> DEFINE f == [k \in Keys |-> IF l1.data[k] = Nothing THEN Nothing
                   ELSE [value |-> l1.data[k].value,
                         ttl |-> IF l1.data[k].ttl >= 0 THEN l1.data[k].ttl - 1 ELSE -1]]
  <2>1. /\ l1.data \in [Keys -> Entries \cup {Nothing}] /\ l1.before \in SUBSET (Keys \X Keys)
        /\ l1 \in Dictionaries
    BY <1>a DEF DictionaryOK, Sound, Dictionaries
  <2>2. ASSUME NEW k \in Keys, l1.data[k] # Nothing
        PROVE  f[k] \in Entries
    <3>1. l1.data[k] \in Entries
      BY <2>1, <2>2
    <3>2. /\ l1.data[k].value \in Values \cup {Negative, Fallback} /\ l1.data[k].ttl \in Int
          /\ -1 <= l1.data[k].ttl
          /\ l1.data[k].ttl <= IF LocalTtl > NegativeTtl THEN LocalTtl ELSE NegativeTtl
      BY <3>1, <1>a, TypeFacts DEF Entries
    <3>3. (IF l1.data[k].ttl >= 0 THEN l1.data[k].ttl - 1 ELSE -1)
            \in -1 .. (IF LocalTtl > NegativeTtl THEN LocalTtl ELSE NegativeTtl)
      BY <3>2, <1>a, TypeFacts
    <3> QED
      BY <2>2, <3>2, <3>3 DEF Entries
  <2>3. f \in [Keys -> Entries \cup {Nothing}]
    BY <2>2
  <2>4. l1' = [l1 EXCEPT !.data = f]
    BY <1>5 DEF Tick
  <2>5. l1'.data = f /\ l1'.before = l1.before /\ l1' \in Dictionaries
    BY <2>1, <2>3, <2>4 DEF Dictionaries
  <2>6. \A k \in Keys : f[k] = Nothing <=> l1.data[k] = Nothing
    BY <2>2, Marks
  <2> HIDE DEF f
  <2>7. Cached(l1') = Cached(l1)
    BY <2>5, <2>6 DEF Cached
  <2>8. Sound(l1')
    BY <1>a, <2>5, <2>7 DEF DictionaryOK, Sound, Ordered
  <2> QED
    BY <1>c, <2>7, <2>8
<1> QED
  BY <1>a, <1>1, <1>2, <1>3, <1>4, <1>5, LocalSteps

\* What a step may do to the threads' operations.
LEMMA TaskSteps ==
    ASSUME TypeInv, [Next]_vars
    PROVE  \/ task' = task
           \/ Tick
           \/ \E t \in Threads : Return(t)
           \/ \E t \in Threads : \E r \in Tasks :
                HasValue(r) /\ r.wait = 0 /\ task' = [task EXCEPT ![t] = r]
<1> USE DEF history
<1>a. /\ TypeOK /\ use.threads \subseteq Threads /\ use.keys \subseteq Keys /\ 0 \in 0 .. MaxDelay
      /\ \A t \in Threads : task[t].pc # "idle" => task[t] \in Tasks
      /\ \A t \in Threads : HasValue(task[t])
  BY TypeFacts DEF TypeInv, FillsHaveValues
<1>b. ASSUME NEW t \in Threads, NEW pc \in {"reading", "storing", "filling", "deleting"},
             NEW op \in {"get", "remember", "set", "delete"}, NEW k \in Keys,
             NEW v \in Values \cup {Nothing, Negative, Fallback}, Become(t, pc, op, k, v),
             pc = "filling" => v \in IF op = "set" THEN Values
                                     ELSE Values \cup {Negative, Fallback},
             pc = "reading" => op # "set"
      PROVE  \E r \in Tasks : HasValue(r) /\ r.wait = 0 /\ task' = [task EXCEPT ![t] = r]
  <2> DEFINE r == [pc |-> pc, op |-> op, key |-> k, value |-> v, wait |-> 0]
  <2>1. r \in Tasks /\ HasValue(r) /\ r.wait = 0
    BY <1>a, <1>b DEF Tasks, HasValue
  <2>2. task' = [task EXCEPT ![t] = r]
    BY <1>b DEF Become
  <2> QED
    BY <2>1, <2>2
<1> DEFINE Goes(t) == \E r \in Tasks : HasValue(r) /\ r.wait = 0 /\ task' = [task EXCEPT ![t] = r]
<1> HIDE DEF Goes
<1>c. ASSUME NEW t \in Threads, NEW pc \in {"storing", "filling", "deleting"},
             NEW v \in Values \cup {Nothing, Negative, Fallback}, Advance(t, pc, v),
             task[t].pc # "idle",
             pc = "filling" => v \in IF task[t].op = "set" THEN Values
                                     ELSE Values \cup {Negative, Fallback}
      PROVE  Goes(t)
  <2>1. task[t].op \in {"get", "remember", "set", "delete"} /\ task[t].key \in Keys
    BY <1>a, <1>c DEF Tasks
  <2>2. Become(t, pc, task[t].op, task[t].key, v)
    BY <1>c DEF Advance
  <2> QED
    BY <1>b, <1>c, <2>1, <2>2 DEF Goes
<1>d. ASSUME NEW t \in Threads, task[t].pc = "reading", Missed(t)
      PROVE  Goes(t)
  <2>1. task[t].op # "set"
    BY <1>a, <1>d DEF HasValue
  <2> QED
    BY <1>c, <1>d, <2>1 DEF Missed
<1>1. ASSUME NEW t \in Threads, NEW k \in Keys, NEW op \in {"get", "remember"}, LookUp(t, op, k)
      PROVE  task' = task \/ Goes(t)
  BY <1>1, <1>b DEF LookUp, Goes
<1>2. ASSUME NEW t \in Threads, NEW k \in Keys, BeginSet(t, k) \/ BeginDelete(t, k)
      PROVE  Goes(t)
  BY <1>2, <1>b DEF BeginSet, BeginDelete, Goes
<1>3. ASSUME NEW t \in Threads, ReadRedis(t)
      PROVE  Goes(t)
  <2>1. task[t].pc = "reading" /\ task[t].op # "set" /\ task[t].key \in Keys
    BY <1>a, <1>3 DEF ReadRedis, HasValue, Tasks
  <2>2. CASE l2[task[t].key] = Nothing
    BY <1>3, <1>d, <2>1, <2>2 DEF ReadRedis
  <2>3. CASE l2[task[t].key] # Nothing
    <3>1. l2[task[t].key] \in Values
      BY <1>a, <2>1, <2>3 DEF TypeOK
    <3> QED
      BY <1>3, <1>c, <2>1, <2>3, <3>1 DEF ReadRedis
  <2> QED
    BY <2>2, <2>3
<1>4. ASSUME NEW t \in Threads, ReadFails(t)
      PROVE  Return(t) \/ Goes(t)
  <2>1. task[t].pc = "reading" /\ task[t].op # "set"
    BY <1>a, <1>4 DEF ReadFails, HasValue
  <2> QED
    BY <1>4, <1>c, <1>d, <2>1 DEF ReadFails
<1>5. ASSUME NEW t \in Threads, Store(t) \/ StoreFails(t)
      PROVE  Return(t) \/ Goes(t)
  <2>1. task[t].key \in Keys
    BY <1>a, <1>5 DEF Store, StoreFails, Tasks
  <2>2. writes + 1 \in Values
    BY <1>a, <1>5, TieredAssumption DEF Store, StoreFails, NewWrite, TypeOK, Values
  <2> QED
    BY <1>5, <1>b, <2>1, <2>2 DEF Store, StoreFails, Goes
<1>6. ASSUME NEW t \in Threads, FactoryRaises(t) \/ Fill(t) \/ DeleteRedis(t) \/ DeleteFails(t)
      PROVE  Return(t)
  BY <1>6 DEF FactoryRaises, Fill, FillFor, DeleteRedis, DeleteFails
<1>7. ASSUME NEW D, NEW k, InvalidateLocal(D) \/ Elsewhere(k) \/ Lapse(k)
      PROVE  task' = task
  BY <1>7 DEF InvalidateLocal, Elsewhere, Lapse
<1>8. ASSUME UNCHANGED vars
      PROVE  task' = task
  BY <1>8 DEF vars
<1>9. ASSUME NEW t \in use.threads, Moves(t)
      PROVE  task' = task \/ Return(t) \/ Goes(t)
  <2>1. t \in Threads
    BY <1>a
  <2>2. ASSUME NEW k \in use.keys,
               \/ LookUp(t, "get", k) \/ LookUp(t, "remember", k)
               \/ BeginSet(t, k) \/ BeginDelete(t, k)
        PROVE  task' = task \/ Return(t) \/ Goes(t)
    <3>1. k \in Keys
      BY <1>a
    <3> QED
      BY <2>1, <2>2, <3>1, <1>1, <1>2
  <2> QED
    BY <1>9, <2>1, <2>2, <1>3, <1>4, <1>5, <1>6 DEF Moves
<1>10. ASSUME Outside
       PROVE  task' = task
  BY <1>10, <1>7 DEF Outside
<1>11. \/ task' = task \/ Tick \/ \E t \in Threads : Return(t) \/ Goes(t)
  <2>1. \A t \in use.threads : t \in Threads
    BY <1>a
  <2>2. CASE \E t \in use.threads : Moves(t)
    BY <1>9, <2>1, <2>2
  <2> QED
    BY <1>8, <1>10, <2>2, StepKinds
<1> QED
  BY <1>11 DEF Goes

\* The operations under way stay ones that the code can have.
LEMMA TasksNext ==
    ASSUME TypeInv, [Next]_vars
    PROVE  TasksOK' /\ FillsHaveValues'
<1>a. TypeOK /\ task \in [Threads -> {Idle} \cup Tasks] /\ \A t \in Threads : HasValue(task[t])
  BY TypeFacts DEF TypeInv, FillsHaveValues
<1>b. HasValue(Idle)
  BY DEF HasValue, Idle
<1>1. CASE task' = task
  BY <1>a, <1>1 DEF TasksOK, FillsHaveValues
<1>2. ASSUME NEW t \in Threads, Return(t)
      PROVE  TasksOK' /\ FillsHaveValues'
  <2>1. /\ task' \in [Threads -> {Idle} \cup Tasks] /\ task'[t] = Idle
        /\ \A u \in Threads \ {t} : task'[u] = task[u]
    BY <1>a, <1>2, ReturnType
  <2> QED
    BY <1>a, <1>b, <2>1 DEF TasksOK, FillsHaveValues
<1>3. ASSUME NEW t \in Threads, NEW r \in Tasks, HasValue(r), task' = [task EXCEPT ![t] = r]
      PROVE  TasksOK' /\ FillsHaveValues'
  <2>1. /\ task' \in [Threads -> {Idle} \cup Tasks] /\ task'[t] = r
        /\ \A u \in Threads \ {t} : task'[u] = task[u]
    BY <1>a, <1>3
  <2> QED
    BY <1>a, <1>3, <2>1 DEF TasksOK, FillsHaveValues
<1>4. CASE Tick
  <2>1. ASSUME NEW t \in Threads
        PROVE  task'[t] \in {Idle} \cup Tasks /\ HasValue(task'[t])
    <3>1. CASE task[t].pc # "filling"
      <4>1. task'[t] = task[t]
        BY <1>4, <3>1 DEF Tick
      <4> QED
        BY <1>a, <4>1
    <3>2. CASE task[t].pc = "filling"
      <4>1. task[t] \in Tasks /\ task[t].wait < MaxDelay
        BY <1>4, <1>a, <3>2, TypeFacts DEF Tick
      <4>2. task'[t] = [task[t] EXCEPT !.wait = task[t].wait + 1]
        BY <1>4, <3>2 DEF Tick
      <4>3. task[t].wait + 1 \in 0 .. MaxDelay
        BY <1>a, <4>1, TypeFacts DEF Tasks
      <4>4. /\ task'[t] \in Tasks
            /\ task'[t].pc = task[t].pc /\ task'[t].op = task[t].op
            /\ task'[t].value = task[t].value
        BY <4>1, <4>2, <4>3 DEF Tasks
      <4> QED
        BY <1>a, <4>4 DEF HasValue
    <3> QED
      BY <3>1, <3>2
  <2>2. task' = [t \in Threads |-> task'[t]]
    BY <1>4 DEF Tick
  <2>3. task' \in [Threads -> {Idle} \cup Tasks]
    BY <2>1, <2>2
  <2> QED
    BY <2>1, <2>3 DEF TasksOK, FillsHaveValues
<1> QED
  BY <1>1, <1>2, <1>3, <1>4, TaskSteps

\* Typing of the other variables: the counters, Redis and the history.
LEMMA RestNext ==
    ASSUME TypeInv, [Next]_vars
    PROVE  RestOK'
<1> USE DEF history
<1>a. /\ TypeOK /\ RestOK /\ use.threads \subseteq Threads /\ use.keys \subseteq Keys
      /\ MaxWrites \in Nat /\ MaxFaults \in Nat /\ LongSince \in Nat /\ LongAbsent \in Nat
      /\ writes \in Nat
      /\ \A t \in Threads : task[t].pc # "idle" => task[t].key \in Keys
      /\ \A t \in Threads : HasValue(task[t])
  BY TypeFacts, TypeParts, TieredAssumption
     DEF TypeInv, FillsHaveValues, Tasks, LongSince, LongAbsent
<1>b. ASSUME NEW k \in Keys, NewWrite, Put(k)
      PROVE  /\ l2' \in [Keys -> Values \cup {Nothing}]
             /\ since' \in [Values -> 0 .. LongSince]
             /\ writes' \in 0 .. MaxWrites
  BY <1>a, <1>b DEF NewWrite, Put, RestOK, Values
<1>c. ASSUME NEW k \in Keys, Erase(k)
      PROVE  /\ l2' \in [Keys -> Values \cup {Nothing}]
             /\ absent' \in [Keys -> 0 .. LongAbsent]
  BY <1>a, <1>c DEF Erase, RestOK
<1>d. ASSUME Fault
      PROVE  faults' \in 0 .. MaxFaults
  BY <1>a, <1>d DEF Fault, RestOK
<1>e. \A t, k : Siblings(t, k) \subseteq Threads
  BY DEF Siblings
<1>f. NewWrite => writes' \in 0 .. MaxWrites
  BY <1>a DEF NewWrite
<1>1. ASSUME NEW t \in Threads, NEW k \in Keys, NEW op,
             LookUp(t, op, k) \/ BeginSet(t, k) \/ BeginDelete(t, k)
      PROVE  RestOK'
  BY <1>1, <1>a DEF LookUp, BeginSet, BeginDelete, RestOK
<1>0. ASSUME NEW t \in Threads, ReadRedis(t) \/ FactoryRaises(t)
      PROVE  RestOK'
  BY <1>0, <1>a DEF ReadRedis, FactoryRaises, RestOK
<1>2. ASSUME NEW t \in Threads, ReadFails(t)
      PROVE  RestOK'
  BY <1>2, <1>a, <1>d DEF ReadFails, RestOK
<1>3. ASSUME NEW t \in Threads, Store(t)
      PROVE  RestOK'
  <2>1. task[t].key \in Keys
    BY <1>3, <1>a DEF Store
  <2> QED
    BY <1>3, <1>a, <1>b, <1>e, <2>1 DEF Store, RestOK
<1>4. ASSUME NEW t \in Threads, StoreFails(t)
      PROVE  RestOK'
  <2>1. task[t].key \in Keys
    BY <1>4, <1>a DEF StoreFails
  <2>2. /\ l2' \in [Keys -> Values \cup {Nothing}]
        /\ since' \in [Values -> 0 .. LongSince]
    BY <1>4, <1>a, <1>b, <2>1 DEF StoreFails, RestOK
  <2> QED
    BY <1>4, <1>a, <1>d, <1>f, <2>2 DEF StoreFails, RestOK
<1>5. ASSUME NEW t \in Threads, Fill(t)
      PROVE  RestOK'
  <2>1. task[t].key \in Keys
    BY <1>5, <1>a DEF Fill, FillFor
  <2>2. \/ own' = own
        \/ task[t].value \in Values /\ own' = [own EXCEPT ![task[t].key] = task[t].value]
    BY <1>5, <1>a DEF Fill, FillFor, HasValue
  <2>3. own' \in [Keys -> 0 .. MaxWrites + 1]
    BY <1>a, <2>1, <2>2 DEF RestOK, Values
  <2>4. crossed' \subseteq Threads \cup Keys
    BY <1>5, <1>a, <2>1 DEF Fill, FillFor, RestOK
  <2> QED
    BY <1>5, <1>a, <2>3, <2>4 DEF Fill, FillFor, RestOK
<1>6. ASSUME NEW t \in Threads, DeleteRedis(t)
      PROVE  RestOK'
  <2>1. task[t].key \in Keys
    BY <1>6, <1>a DEF DeleteRedis
  <2>2. own' \in [Keys -> 0 .. MaxWrites + 1]
    BY <1>6, <1>a, <2>1 DEF DeleteRedis, RestOK
  <2> QED
    BY <1>6, <1>a, <1>c, <1>e, <2>1, <2>2 DEF DeleteRedis, RestOK
<1>7. ASSUME NEW t \in Threads, DeleteFails(t)
      PROVE  RestOK'
  <2>1. task[t].key \in Keys
    BY <1>7, <1>a DEF DeleteFails
  <2>2. /\ l2' \in [Keys -> Values \cup {Nothing}]
        /\ absent' \in [Keys -> 0 .. LongAbsent]
    BY <1>7, <1>a, <1>c, <2>1 DEF DeleteFails, RestOK
  <2> QED
    BY <1>7, <1>a, <1>d, <2>2 DEF DeleteFails, RestOK
<1>8. ASSUME NEW D, InvalidateLocal(D)
      PROVE  RestOK'
  BY <1>8, <1>a DEF InvalidateLocal, RestOK
<1>9. ASSUME NEW k \in Keys, Elsewhere(k)
      PROVE  RestOK'
  BY <1>9, <1>a, <1>b DEF Elsewhere, RestOK
<1>10. ASSUME NEW k \in Keys, Lapse(k)
      PROVE  RestOK'
  BY <1>10, <1>a, <1>c DEF Lapse, RestOK
<1>11. CASE Tick
  <2>1. \A n, bound \in Nat : n <= bound => Later(n, bound) \in 0 .. bound
    BY DEF Later
  <2>2. since' \in [Values -> 0 .. LongSince] /\ absent' \in [Keys -> 0 .. LongAbsent]
    BY <1>11, <1>a, <2>1 DEF Tick, RestOK
  <2> QED
    BY <1>11, <1>a, <2>2 DEF Tick, RestOK
<1>12. CASE UNCHANGED vars
  BY <1>12, <1>a DEF vars, RestOK
<1>13. ASSUME NEW t \in use.threads, Moves(t)
       PROVE  RestOK'
  <2>1. t \in Threads
    BY <1>a
  <2>2. ASSUME NEW k \in use.keys,
               \/ LookUp(t, "get", k) \/ LookUp(t, "remember", k)
               \/ BeginSet(t, k) \/ BeginDelete(t, k)
        PROVE  RestOK'
    <3>1. k \in Keys
      BY <1>a
    <3> QED
      BY <2>1, <2>2, <3>1, <1>1
  <2> QED
    BY <1>13, <2>1, <2>2, <1>0, <1>2, <1>3, <1>4, <1>5, <1>6, <1>7 DEF Moves
<1>14. CASE Outside
  <2>1. ASSUME NEW k \in use.keys, Elsewhere(k) \/ Lapse(k)
        PROVE  RestOK'
    <3>1. k \in Keys
      BY <1>a
    <3> QED
      BY <2>1, <3>1, <1>9, <1>10
  <2> QED
    BY <1>14, <2>1, <1>8 DEF Outside
<1> QED
  BY <1>11, <1>12, <1>13, <1>14, StepKinds

\* A process stays what it is.
LEMMA UseKept == [Next]_vars => use' = use
BY DEF Next, vars, history, LookUp, BeginSet, BeginDelete, ReadRedis, ReadFails, Store,
       StoreFails, FactoryRaises, Fill, FillFor, DeleteRedis, DeleteFails, InvalidateLocal,
       Elsewhere, Lapse, Tick

\* The type invariant is inductive.
LEMMA TypeInvNext == TypeInv /\ [Next]_vars => TypeInv'
<1> SUFFICES ASSUME TypeInv, [Next]_vars PROVE TypeInv'
  OBVIOUS
<1>1. use' = use /\ use \in Uses
  BY UseKept DEF TypeInv, TypeOK
<1>2. DictionaryOK' /\ TasksOK' /\ RestOK' /\ FillsHaveValues'
  BY DictionaryNext, TasksNext, RestNext
<1>3. TypeOK'
  BY <1>1, <1>2
     DEF TypeOK, DictionaryOK, TasksOK, RestOK, Sound, Dictionaries, Tasks, Entries, Values,
         LongSince, LongAbsent, Idle
<1> QED
  BY <1>2, <1>3 DEF TypeInv

\* So it always holds.
LEMMA TypeInvariant == Spec => []TypeInv
<1>1. Init => TypeInv
  BY InitType DEF Init, TypeInv, FillsHaveValues, HasValue, Idle
<1> QED
  BY <1>1, TypeInvNext, PTL DEF Spec

\* The types hold, and L1 stays within its size and in order, for any keys, threads,
\* sizes and policies.
THEOREM TypeCorrect == Spec => []TypeOK
<1>1. TypeInv => TypeOK
  BY DEF TypeInv
<1> QED
  BY <1>1, TypeInvariant, PTL

----------------------------------------------------------------------------
(* What steps do to the entries and to the fills *)

\* A fill leaves its own entry for its key, if any, and takes from the others.
LEMMA FillEntry ==
    ASSUME TypeInv, NEW t \in Threads, Fill(t), NEW k \in Cached(l1')
    PROVE  IF k = task[t].key
           THEN /\ l1'.data[k].value = task[t].value
                /\ l1'.data[k].ttl = IF task[t].value = Negative THEN NegativeTtl ELSE LocalTtl
           ELSE k \in Cached(l1) /\ l1'.data[k] = l1.data[k]
<1>1. PICK e \in Entries :
        /\ task[t] \in Tasks /\ e.value = task[t].value
        /\ e.ttl = IF task[t].value = Negative THEN NegativeTtl ELSE LocalTtl
        /\ l1' \in Swept(LocalSet(l1, task[t].key, e))
  BY FillStep
<1> DEFINE c == LocalSet(l1, task[t].key, e)
<1>2. task[t].key \in Keys /\ k \in Keys /\ l1'.data[k] # Nothing
  BY <1>1 DEF Tasks, Cached
<1>3. /\ Sound(c) /\ c.data[task[t].key] \in {e, Nothing}
      /\ \A j \in Keys \ {task[t].key} : c.data[j] \in {l1.data[j], Nothing}
  BY <1>2, LocalSetSound, TypeFacts DEF TypeInv
<1> HIDE DEF c
<1>4. l1'.data[k] \in {c.data[k], Nothing}
  BY <1>1, <1>2, <1>3, SweptSound DEF c
<1> QED
  BY <1>1, <1>2, <1>3, <1>4 DEF Cached

\* An entry that is there after a step was there before it, or a fill made it; and it
\* says the same, with the time that a tick leaves it.
LEMMA EntryStep ==
    ASSUME TypeInv, [Next]_vars, NEW k \in Cached(l1')
    PROVE  \/ \E t \in Threads : Fill(t) /\ k = task[t].key
           \/ k \in Cached(l1) /\ ~Tick /\ l1'.data[k] = l1.data[k]
           \/ /\ k \in Cached(l1) /\ Tick /\ l1'.data[k].value = l1.data[k].value
              /\ l1.data[k].ttl \in Int
              /\ l1'.data[k].ttl = IF l1.data[k].ttl >= 0 THEN l1.data[k].ttl - 1 ELSE -1
<1>a. /\ Sound(l1) /\ use.threads \subseteq Threads /\ k \in Keys /\ l1'.data[k] # Nothing
      /\ l1 \in Dictionaries
  BY TypeFacts DEF TypeInv, Cached, Sound
<1>1. CASE Tick
  <2> DEFINE f == [j \in Keys |-> IF l1.data[j] = Nothing THEN Nothing
                   ELSE [value |-> l1.data[j].value,
                         ttl |-> IF l1.data[j].ttl >= 0 THEN l1.data[j].ttl - 1 ELSE -1]]
  <2>1. l1' = [l1 EXCEPT !.data = f]
    BY <1>1 DEF Tick
  <2>2. l1'.data[k] = f[k]
    BY <1>a, <2>1 DEF Dictionaries
  <2>3. k \in Cached(l1)
    BY <1>a, <2>2 DEF Cached
  <2>4. l1.data[k] \in Entries
    BY <1>a, <2>3 DEF Dictionaries, Cached
  <2>5. l1.data[k].ttl \in Int
    BY <2>4, TypeFacts DEF Entries, TypeInv
  <2> QED
    BY <1>a, <1>1, <2>2, <2>3, <2>5 DEF Cached
<1>2. CASE ~Tick
  <2>1. CASE l1' = l1
    BY <1>2, <2>1
  <2>2. ASSUME NEW j \in Keys, l1' = LocalGet(l1, j)
        PROVE  k \in Cached(l1) /\ l1'.data[k] = l1.data[k]
    BY <1>a, <2>2, LocalGetSound DEF Cached
  <2>3. ASSUME NEW D, l1' = Dropped(l1, D)
        PROVE  k \in Cached(l1) /\ l1'.data[k] = l1.data[k]
    BY <1>a, <2>3, DroppedSound DEF Cached
  <2>4. ASSUME NEW t \in use.threads, Fill(t)
        PROVE  \/ Fill(t) /\ k = task[t].key
               \/ k \in Cached(l1) /\ l1'.data[k] = l1.data[k]
    BY <1>a, <2>4, FillEntry
  <2> QED
    BY <1>a, <1>2, <2>1, <2>2, <2>3, <2>4, LocalSteps DEF TypeInv
<1> QED
  BY <1>1, <1>2

\* A fill that is under way after a step was so before it, or is a read's or a write's.
LEMMA FillsBegin ==
    ASSUME TypeInv, [Next]_vars, NEW t \in Threads, task'[t].pc = "filling"
    PROVE  \/ ReadRedis(t) \/ ReadFails(t) \/ Store(t) \/ StoreFails(t)
           \/ Filling(t) /\ ~Tick /\ task'[t] = task[t]
           \/ /\ Filling(t) /\ Tick /\ task[t].wait \in Nat /\ task'[t].wait = task[t].wait + 1
              /\ task'[t].op = task[t].op /\ task'[t].key = task[t].key
              /\ task'[t].value = task[t].value
<1> USE DEF history
<1>a. /\ TypeOK /\ use.threads \subseteq Threads /\ task \in [Threads -> {Idle} \cup Tasks]
      /\ \A u \in Threads : task[u].pc # "idle" => task[u] \in Tasks
  BY TypeFacts DEF TypeInv
<1>1. CASE Tick
  <2>1. task'[t] = IF task[t].pc = "filling" THEN [task[t] EXCEPT !.wait = @ + 1] ELSE task[t]
    BY <1>1 DEF Tick
  <2>2. Filling(t) /\ task[t] \in Tasks
    BY <1>a, <2>1 DEF Filling
  <2>3. /\ task'[t].wait = task[t].wait + 1 /\ task'[t].op = task[t].op
        /\ task'[t].key = task[t].key /\ task'[t].value = task[t].value /\ task[t].wait \in Nat
    BY <2>1, <2>2, TypeFacts DEF Tasks, Filling, TypeInv
  <2> QED
    BY <1>1, <2>2, <2>3
<1>2. CASE ~Tick
  <2>1. ASSUME NEW u \in Threads, NEW r, task' = [task EXCEPT ![u] = r], r.pc # "filling"
        PROVE  Filling(t) /\ task'[t] = task[t]
    BY <1>a, <2>1 DEF Filling
  <2>2. CASE task' = task
    BY <1>2, <2>2 DEF Filling
  <2>3. ASSUME NEW u \in Threads, Return(u)
        PROVE  Filling(t) /\ task'[t] = task[t]
    <3>1. Idle.pc # "filling"
      BY DEF Idle
    <3> QED
      BY <2>1, <2>3, <3>1 DEF Return
  <2>4. ASSUME NEW u \in Threads, NEW k \in Keys, NEW op,
               LookUp(u, op, k) \/ BeginSet(u, k) \/ BeginDelete(u, k)
        PROVE  Filling(t) /\ task'[t] = task[t]
    BY <2>1, <2>4 DEF LookUp, BeginSet, BeginDelete, Become, Filling
  <2>5. ASSUME NEW u \in Threads, FactoryRaises(u) \/ Fill(u) \/ DeleteRedis(u) \/ DeleteFails(u)
        PROVE  Filling(t) /\ task'[t] = task[t]
    BY <2>3, <2>5 DEF FactoryRaises, Fill, FillFor, DeleteRedis, DeleteFails
  <2>6. ASSUME NEW u \in Threads, ReadRedis(u) \/ ReadFails(u) \/ Store(u) \/ StoreFails(u)
        PROVE  \/ ReadRedis(t) \/ ReadFails(t) \/ Store(t) \/ StoreFails(t)
               \/ Filling(t) /\ task'[t] = task[t]
    <3>1. CASE u = t
      BY <2>6, <3>1
    <3>2. CASE u # t
      <4>1. task'[t] = task[t]
        BY <1>a, <2>6, <3>2
        DEF ReadRedis, ReadFails, Store, StoreFails, Missed, Advance, Become, Return
      <4> QED
        BY <4>1 DEF Filling
    <3> QED
      BY <3>1, <3>2
  <2>7. ASSUME NEW u \in use.threads, Moves(u)
        PROVE  \/ ReadRedis(t) \/ ReadFails(t) \/ Store(t) \/ StoreFails(t)
               \/ Filling(t) /\ task'[t] = task[t]
    <3>1. u \in Threads /\ use.keys \subseteq Keys
      BY <1>a, TypeFacts
    <3>2. ASSUME NEW k \in use.keys,
                 \/ LookUp(u, "get", k) \/ LookUp(u, "remember", k)
                 \/ BeginSet(u, k) \/ BeginDelete(u, k)
          PROVE  Filling(t) /\ task'[t] = task[t]
      BY <2>4, <3>1, <3>2
    <3> QED
      BY <2>5, <2>6, <2>7, <3>1, <3>2 DEF Moves
  <2>8. ASSUME Outside \/ UNCHANGED vars
        PROVE  task' = task
    BY <2>8 DEF Outside, InvalidateLocal, Elsewhere, Lapse, vars
  <2> QED
    BY <1>2, <2>2, <2>7, <2>8, StepKinds
<1> QED
  BY <1>1, <1>2

\* What has been seen stays seen, except that a tick makes it one tick older.
LEMMA AgesStep ==
    ASSUME TypeInv, [Next]_vars
    PROVE  /\ \A v \in Values : /\ since[v] \in Nat /\ since'[v] \in Nat
                                /\ since'[v] <= since[v] + 1
                                /\ ~Tick => since'[v] <= since[v]
           /\ \A k \in Keys : /\ absent[k] \in Nat /\ absent'[k] \in Nat
                              /\ absent'[k] <= absent[k] + 1
                              /\ ~Tick => absent'[k] <= absent[k]
<1> USE DEF history
<1>a. /\ LongSince \in Nat /\ LongAbsent \in Nat
      /\ since \in [Values -> 0 .. LongSince] /\ absent \in [Keys -> 0 .. LongAbsent]
      /\ \A v \in Values : since[v] \in Nat
      /\ \A k \in Keys : absent[k] \in Nat
  BY TieredAssumption DEF TypeInv, TypeOK, LongSince, LongAbsent
<1>b. /\ since' \in [Values -> 0 .. LongSince] /\ absent' \in [Keys -> 0 .. LongAbsent]
  BY TypeInvNext DEF TypeInv, TypeOK, LongSince, LongAbsent, Values
<1>c. \A v \in Values : since'[v] \in Nat
  BY <1>a, <1>b
<1>d. \A k \in Keys : absent'[k] \in Nat
  BY <1>a, <1>b
<1>1. CASE Tick
  <2>1. \A n, bound \in Nat : Later(n, bound) <= n + 1
    BY DEF Later
  <2> QED
    BY <1>1, <1>a, <1>c, <1>d, <2>1 DEF Tick
<1>2. CASE ~Tick
  <2>1. ASSUME NEW k, Put(k)
        PROVE  \A v \in Values : since'[v] <= since[v]
    BY <1>a, <2>1 DEF Put
  <2>2. ASSUME NEW k, Erase(k)
        PROVE  \A j \in Keys : absent'[j] <= absent[j]
    BY <1>a, <2>2 DEF Erase
  <2>3. \/ since' = since
        \/ \E k : Put(k)
    BY <1>2 DEF Next, vars, LookUp, BeginSet, BeginDelete, ReadRedis, ReadFails, Store,
         StoreFails, FactoryRaises, Fill, FillFor, DeleteRedis, DeleteFails, InvalidateLocal,
         Elsewhere, Lapse
  <2>4. \/ absent' = absent
        \/ \E k : Erase(k)
    BY <1>2 DEF Next, vars, LookUp, BeginSet, BeginDelete, ReadRedis, ReadFails, Store,
         StoreFails, FactoryRaises, Fill, FillFor, DeleteRedis, DeleteFails, InvalidateLocal,
         Elsewhere, Lapse
  <2>5. \A v \in Values : since'[v] <= since[v]
    BY <1>a, <2>1, <2>3
  <2>6. \A j \in Keys : absent'[j] <= absent[j]
    BY <1>a, <2>2, <2>4
  <2> QED
    BY <1>2, <1>a, <1>c, <1>d, <2>5, <2>6
<1> QED
  BY <1>1, <1>2

\* Redis changes by a write, by a deletion, and not otherwise.
LEMMA StoreStep ==
    ASSUME TypeInv, [Next]_vars
    PROVE  \/ l2' = l2 /\ since' = since /\ absent' = absent
           \/ Tick
           \/ absent' = absent /\ \E k \in Keys : NewWrite /\ Put(k)
           \/ since' = since /\ \E k \in Keys : Erase(k)
<1> USE DEF history
<1>a. /\ use.threads \subseteq Threads /\ use.keys \subseteq Keys
      /\ \A t \in Threads : task[t].pc # "idle" => task[t].key \in Keys
  BY TypeFacts DEF TypeInv, Tasks
<1> DEFINE Goal == \/ l2' = l2 /\ since' = since /\ absent' = absent
                   \/ absent' = absent /\ \E k \in Keys : NewWrite /\ Put(k)
                   \/ since' = since /\ \E k \in Keys : Erase(k)
<1>1. ASSUME NEW t \in Threads, Store(t) \/ StoreFails(t)
      PROVE  Goal
  <2>1. task[t].key \in Keys
    BY <1>a, <1>1 DEF Store, StoreFails
  <2> QED
    BY <1>1, <2>1 DEF Store, StoreFails
<1>2. ASSUME NEW t \in Threads, DeleteRedis(t) \/ DeleteFails(t)
      PROVE  Goal
  <2>1. task[t].key \in Keys
    BY <1>a, <1>2 DEF DeleteRedis, DeleteFails
  <2> QED
    BY <1>2, <2>1 DEF DeleteRedis, DeleteFails
<1>3. ASSUME NEW t \in Threads, ReadRedis(t) \/ ReadFails(t) \/ FactoryRaises(t) \/ Fill(t)
      PROVE  Goal
  BY <1>3 DEF ReadRedis, ReadFails, FactoryRaises, Fill, FillFor
<1>4. ASSUME NEW t, NEW k, NEW op, LookUp(t, op, k) \/ BeginSet(t, k) \/ BeginDelete(t, k)
      PROVE  Goal
  BY <1>4 DEF LookUp, BeginSet, BeginDelete
<1>5. ASSUME NEW k \in use.keys, Elsewhere(k) \/ Lapse(k)
      PROVE  Goal
  BY <1>a, <1>5 DEF Elsewhere, Lapse
<1>6. ASSUME NEW D, InvalidateLocal(D)
      PROVE  Goal
  BY <1>6 DEF InvalidateLocal
<1>7. ASSUME UNCHANGED vars
      PROVE  Goal
  BY <1>7 DEF vars
<1> HIDE DEF Goal
<1>8. ASSUME NEW t \in use.threads, Moves(t)
      PROVE  Goal
  <2>1. t \in Threads
    BY <1>a
  <2> QED
    BY <1>8, <2>1, <1>1, <1>2, <1>3, <1>4 DEF Moves
<1>9. ASSUME Outside
      PROVE  Goal
  BY <1>9, <1>5, <1>6 DEF Outside
<1>10. Goal \/ Tick
  BY <1>7, <1>8, <1>9, StepKinds
<1> QED
  BY <1>10 DEF Goal

----------------------------------------------------------------------------
(* How stale L1 may be *)

\* What Redis has now counts as seen now.
StoreCurrent ==
    \A k \in Keys : IF l2[k] = Nothing THEN absent[k] = 0 ELSE since[l2[k]] = 0

\* A fill carries what Redis had when it began, its wait ago.
FillsRecent ==
    Raises => \A t \in Threads : Filling(t) =>
        LET v == task[t].value IN
        /\ v \in Values \cup {Negative}
        /\ v \in Values => since[v] <= task[t].wait
        /\ v = Negative => absent[task[t].key] <= task[t].wait

\* What is left of an entry's time and the age of what it says are bounded together.
EntriesRecent ==
    Raises => \A k \in Cached(l1) :
        LET e == l1.data[k] IN
        e.ttl >= 0 =>
            /\ e.value \in Values => since[e.value] + e.ttl <= LocalTtl + MaxDelay
            /\ e.value = Negative => absent[k] + e.ttl <= NegativeTtl + MaxDelay

RecentInv == StoreCurrent /\ FillsRecent /\ EntriesRecent

\* It stays so: a write sets the age of its value to nothing, a loss that of the absence.
LEMMA StoreCurrentNext ==
    ASSUME TypeInv, StoreCurrent, [Next]_vars
    PROVE  StoreCurrent'
<1>a. /\ l2 \in [Keys -> Values \cup {Nothing}] /\ since \in [Values -> 0 .. LongSince]
      /\ absent \in [Keys -> 0 .. LongAbsent] /\ Nothing \notin Values
      /\ writes \in Nat /\ MaxWrites \in Nat
  BY Marks, TypeFacts DEF TypeInv, TypeOK
<1> SUFFICES ASSUME NEW k \in Keys
             PROVE  IF l2'[k] = Nothing THEN absent'[k] = 0 ELSE since'[l2'[k]] = 0
  BY DEF StoreCurrent
<1>b. IF l2[k] = Nothing THEN absent[k] = 0 ELSE since[l2[k]] = 0 /\ l2[k] \in Values
  BY <1>a DEF StoreCurrent
<1>1. CASE l2' = l2 /\ since' = since /\ absent' = absent
  BY <1>1, <1>b
<1>2. CASE Tick
  BY <1>2, <1>a, <1>b DEF Tick
<1>3. ASSUME NEW j \in Keys, absent' = absent, NewWrite, Put(j)
      PROVE  IF l2'[k] = Nothing THEN absent'[k] = 0 ELSE since'[l2'[k]] = 0
  <2>1. writes + 1 \in Values
    BY <1>3, <1>a DEF NewWrite, Values
  <2>2. /\ l2'[k] = IF k = j THEN writes + 1 ELSE l2[k]
        /\ \A v \in Values : since'[v] = IF v = writes + 1 THEN 0 ELSE since[v]
    BY <1>3, <1>a DEF Put
  <2> QED
    BY <1>3, <1>a, <1>b, <2>1, <2>2
<1>4. ASSUME NEW j \in Keys, since' = since, Erase(j)
      PROVE  IF l2'[k] = Nothing THEN absent'[k] = 0 ELSE since'[l2'[k]] = 0
  BY <1>4, <1>a, <1>b DEF Erase
<1> QED
  BY <1>1, <1>2, <1>3, <1>4, StoreStep

\* A fill's value grows no older than the fill, which waits MaxDelay at most.
LEMMA FillsRecentNext ==
    ASSUME TypeInv, StoreCurrent, FillsRecent, [Next]_vars
    PROVE  FillsRecent'
<1> SUFFICES ASSUME Raises, NEW t \in Threads, task'[t].pc = "filling"
             PROVE  /\ task'[t].value \in Values \cup {Negative}
                    /\ task'[t].value \in Values => since'[task'[t].value] <= task'[t].wait
                    /\ task'[t].value = Negative => absent'[task'[t].key] <= task'[t].wait
  <2>1. Raises' => Raises
    BY UseKept DEF Raises
  <2> QED
    BY <2>1 DEF FillsRecent, Filling
<1>a. /\ Nothing \notin Values /\ Negative \notin Values /\ Values' = Values
      /\ \A u \in Threads : task[u].pc # "idle" => task[u] \in Tasks
      /\ TypeOK /\ l2 \in [Keys -> Values \cup {Nothing}]
  BY Marks, TypeFacts DEF TypeInv, TypeOK, Values
<1>1. CASE ReadRedis(t)
  <2>1. task[t].pc = "reading" /\ task[t].key \in Keys
    BY <1>1, <1>a DEF ReadRedis, Tasks
  <2>2. since' = since /\ absent' = absent
    BY <1>1 DEF ReadRedis, history
  <2>3. CASE l2[task[t].key] = Nothing
    <3>1. Missed(t)
      BY <1>1, <2>3 DEF ReadRedis
    <3>2. task'[t].value = Negative /\ task'[t].key = task[t].key /\ task'[t].wait = 0
      BY <1>a, <2>1, <3>1, TypeFacts DEF Missed, Advance, Become
    <3>3. absent[task[t].key] = 0
      BY <2>1, <2>3 DEF StoreCurrent
    <3> QED
      BY <1>a, <2>2, <3>2, <3>3
  <2>4. CASE l2[task[t].key] # Nothing
    <3>1. Advance(t, "filling", l2[task[t].key])
      BY <1>1, <2>4 DEF ReadRedis
    <3>2. task'[t].value = l2[task[t].key] /\ task'[t].key = task[t].key /\ task'[t].wait = 0
      BY <1>a, <2>1, <3>1, TypeFacts DEF Advance, Become
    <3>3. since[l2[task[t].key]] = 0 /\ l2[task[t].key] \in Values
      BY <1>a, <2>1, <2>4 DEF StoreCurrent
    <3> QED
      BY <1>a, <2>2, <3>2, <3>3
  <2> QED
    BY <2>3, <2>4
<1>2. CASE ReadFails(t)
  <2>1. Return(t)
    BY <1>2 DEF ReadFails, Raises
  <2>2. task'[t] = Idle
    BY <1>a, <2>1, ReturnType
  <2> QED
    BY <2>2 DEF Idle
<1>3. CASE Store(t)
  <2>1. task[t].key \in Keys /\ task[t].pc = "storing"
    BY <1>3, <1>a DEF Store, Tasks
  <2>2. writes + 1 \in Values
    BY <1>3, TypeFacts DEF Store, NewWrite, Values, TypeInv
  <2>3. since'[writes + 1] = 0
    BY <1>3, <1>a, <2>2 DEF Store, Put, TypeOK
  <2>4. task'[t].value = writes + 1 /\ task'[t].wait = 0
    BY <1>3, <1>a, TypeFacts DEF Store, Become
  <2> QED
    BY <1>a, <2>2, <2>3, <2>4
<1>4. CASE StoreFails(t)
  <2>1. Return(t)
    BY <1>4 DEF StoreFails
  <2>2. task'[t] = Idle
    BY <1>a, <2>1, ReturnType
  <2> QED
    BY <2>2 DEF Idle
<1>5. CASE Filling(t) /\ ~Tick /\ task'[t] = task[t]
  <2>1. task[t].key \in Keys /\ task[t].wait \in Nat
    BY <1>5, <1>a, TypeFacts DEF Filling, Tasks, TypeInv
  <2>2. /\ task[t].value \in Values \cup {Negative}
        /\ task[t].value \in Values => since[task[t].value] <= task[t].wait
        /\ task[t].value = Negative => absent[task[t].key] <= task[t].wait
    BY <1>5 DEF FillsRecent
  <2>3. task[t].value \in Values => since'[task[t].value] <= task[t].wait
    <3> SUFFICES ASSUME task[t].value \in Values
                 PROVE  since'[task[t].value] <= task[t].wait
      OBVIOUS
    <3>1. /\ since[task[t].value] \in Nat /\ since'[task[t].value] \in Nat
          /\ since'[task[t].value] <= since[task[t].value]
      BY <1>5, AgesStep
    <3> QED
      BY <2>1, <2>2, <3>1
  <2>4. task[t].value = Negative => absent'[task[t].key] <= task[t].wait
    <3>1. /\ absent[task[t].key] \in Nat /\ absent'[task[t].key] \in Nat
          /\ absent'[task[t].key] <= absent[task[t].key]
      BY <1>5, <2>1, AgesStep
    <3> QED
      BY <2>1, <2>2, <3>1
  <2> QED
    BY <1>5, <1>a, <2>2, <2>3, <2>4
<1>6. CASE /\ Filling(t) /\ Tick /\ task[t].wait \in Nat /\ task'[t].wait = task[t].wait + 1
           /\ task'[t].op = task[t].op /\ task'[t].key = task[t].key
           /\ task'[t].value = task[t].value
  <2>1. task[t].key \in Keys
    BY <1>6, <1>a DEF Filling, Tasks
  <2>2. /\ task[t].value \in Values \cup {Negative}
        /\ task[t].value \in Values => since[task[t].value] <= task[t].wait
        /\ task[t].value = Negative => absent[task[t].key] <= task[t].wait
    BY <1>6 DEF FillsRecent
  <2>3. task[t].value \in Values => since'[task[t].value] <= task[t].wait + 1
    <3> SUFFICES ASSUME task[t].value \in Values
                 PROVE  since'[task[t].value] <= task[t].wait + 1
      OBVIOUS
    <3>1. /\ since[task[t].value] \in Nat /\ since'[task[t].value] \in Nat
          /\ since'[task[t].value] <= since[task[t].value] + 1
      BY AgesStep
    <3> QED
      BY <1>6, <2>2, <3>1
  <2>4. task[t].value = Negative => absent'[task[t].key] <= task[t].wait + 1
    <3>1. /\ absent[task[t].key] \in Nat /\ absent'[task[t].key] \in Nat
          /\ absent'[task[t].key] <= absent[task[t].key] + 1
      BY <2>1, AgesStep
    <3> QED
      BY <1>6, <2>2, <3>1
  <2> QED
    BY <1>6, <1>a, <2>2, <2>3, <2>4
<1> QED
  BY <1>1, <1>2, <1>3, <1>4, <1>5, <1>6, FillsBegin

\* An entry loses of its time what its value gains in age.
LEMMA EntriesRecentNext ==
    ASSUME TypeInv, FillsRecent, EntriesRecent, [Next]_vars
    PROVE  EntriesRecent'
<1> SUFFICES ASSUME Raises, NEW k \in Cached(l1'), l1'.data[k].ttl >= 0
             PROVE  /\ l1'.data[k].value \in Values =>
                            since'[l1'.data[k].value] + l1'.data[k].ttl <= LocalTtl + MaxDelay
                    /\ l1'.data[k].value = Negative =>
                            absent'[k] + l1'.data[k].ttl <= NegativeTtl + MaxDelay
  <2>1. Raises' => Raises
    BY UseKept DEF Raises
  <2>2. Cached(l1)' = Cached(l1') /\ Values' = Values
    BY DEF Cached, Values
  <2> QED
    BY <2>1, <2>2 DEF EntriesRecent
<1>a. /\ Nothing \notin Values /\ Negative \notin Values
      /\ \A u \in Threads : task[u].pc # "idle" => task[u] \in Tasks
      /\ TypeOK /\ LocalTtl \in Nat /\ NegativeTtl \in Nat /\ MaxDelay \in Nat /\ k \in Keys
  BY Marks, TypeFacts DEF TypeInv, Cached
<1>b. /\ absent[k] \in Nat /\ absent'[k] \in Nat /\ absent'[k] <= absent[k] + 1
      /\ ~Tick => absent'[k] <= absent[k]
  BY <1>a, AgesStep
<1>c. ASSUME NEW v \in Values
      PROVE  /\ since[v] \in Nat /\ since'[v] \in Nat /\ since'[v] <= since[v] + 1
             /\ ~Tick => since'[v] <= since[v]
  BY AgesStep
<1>1. ASSUME NEW t \in Threads, Fill(t), k = task[t].key
      PROVE  /\ l1'.data[k].value \in Values =>
                    since'[l1'.data[k].value] + l1'.data[k].ttl <= LocalTtl + MaxDelay
             /\ l1'.data[k].value = Negative =>
                    absent'[k] + l1'.data[k].ttl <= NegativeTtl + MaxDelay
  <2>1. /\ Filling(t) /\ since' = since /\ absent' = absent
    BY <1>1 DEF Fill, FillFor, Filling
  <2>2. task[t].wait \in 0 .. MaxDelay
    BY <1>a, <2>1 DEF Filling, Tasks
  <2>3. /\ l1'.data[k].value = task[t].value
        /\ l1'.data[k].ttl = IF task[t].value = Negative THEN NegativeTtl ELSE LocalTtl
    BY <1>1, FillEntry
  <2>4. /\ task[t].value \in Values => since[task[t].value] <= task[t].wait
        /\ task[t].value = Negative => absent[k] <= task[t].wait
    BY <1>1, <2>1 DEF FillsRecent
  <2>5. ASSUME task[t].value \in Values
        PROVE  since[task[t].value] + LocalTtl <= LocalTtl + MaxDelay
    BY <2>2, <2>4, <2>5, <1>a, <1>c
  <2>6. ASSUME task[t].value = Negative
        PROVE  absent[k] + NegativeTtl <= NegativeTtl + MaxDelay
    BY <2>2, <2>4, <2>6, <1>a, <1>b
  <2> QED
    BY <1>a, <2>1, <2>3, <2>5, <2>6
<1>2. CASE k \in Cached(l1) /\ ~Tick /\ l1'.data[k] = l1.data[k]
  <2> DEFINE e == l1.data[k]
  <2>1. /\ e.value \in Values => since[e.value] + e.ttl <= LocalTtl + MaxDelay
        /\ e.value = Negative => absent[k] + e.ttl <= NegativeTtl + MaxDelay
    BY <1>2 DEF EntriesRecent
  <2>2. e.ttl \in Int
    BY <1>2, <1>a DEF TypeOK, Cached, Entries
  <2> HIDE DEF e
  <2>3. ASSUME e.value \in Values
        PROVE  since'[e.value] + e.ttl <= LocalTtl + MaxDelay
    BY <1>2, <1>c, <2>1, <2>2, <2>3, <1>a
  <2>4. ASSUME e.value = Negative
        PROVE  absent'[k] + e.ttl <= NegativeTtl + MaxDelay
    BY <1>2, <1>b, <2>1, <2>2, <2>4, <1>a
  <2> QED
    BY <1>2, <2>3, <2>4 DEF e
<1>3. CASE /\ k \in Cached(l1) /\ Tick /\ l1'.data[k].value = l1.data[k].value
           /\ l1.data[k].ttl \in Int
           /\ l1'.data[k].ttl = IF l1.data[k].ttl >= 0 THEN l1.data[k].ttl - 1 ELSE -1
  <2> DEFINE e == l1.data[k]
  <2>0. e.ttl \in Int /\ e.ttl >= 0 /\ l1'.data[k].ttl = e.ttl - 1 /\ l1'.data[k].value = e.value
    BY <1>3
  <2>1. /\ e.value \in Values => since[e.value] + e.ttl <= LocalTtl + MaxDelay
        /\ e.value = Negative => absent[k] + e.ttl <= NegativeTtl + MaxDelay
    BY <1>3, <2>0 DEF EntriesRecent
  <2> HIDE DEF e
  <2>3. ASSUME e.value \in Values
        PROVE  since'[e.value] + (e.ttl - 1) <= LocalTtl + MaxDelay
    BY <1>c, <2>0, <2>1, <2>3, <1>a
  <2>4. ASSUME e.value = Negative
        PROVE  absent'[k] + (e.ttl - 1) <= NegativeTtl + MaxDelay
    BY <1>b, <2>0, <2>1, <2>4, <1>a
  <2> QED
    BY <2>0, <2>3, <2>4
<1> QED
  BY <1>1, <1>2, <1>3, EntryStep

\* What L1 serves was true of Redis no longer ago than the entry's ttl and the delay of
\* one fill, for any keys, threads and ttls, when errors are raised.
THEOREM StalenessBound == Spec => []StalenessBounded
<1>1. Init => RecentInv
  <2> SUFFICES ASSUME Init PROVE RecentInv
    OBVIOUS
  <2>1. Cached(l1) = {}
    BY DEF Init, Cached
  <2>2. \A t \in Threads : ~Filling(t)
    BY DEF Init, Filling, Idle
  <2> QED
    BY <2>1, <2>2 DEF Init, RecentInv, StoreCurrent, FillsRecent, EntriesRecent
<1>2. TypeInv /\ RecentInv /\ [Next]_vars => RecentInv'
  BY StoreCurrentNext, FillsRecentNext, EntriesRecentNext DEF RecentInv
<1>3. TypeInv /\ RecentInv => StalenessBounded
  <2> SUFFICES ASSUME TypeInv, RecentInv, Raises, NEW k \in Keys
               PROVE  /\ Served(k) \in Values => since[Served(k)] <= LocalTtl + MaxDelay
                      /\ Served(k) = Negative => absent[k] <= NegativeTtl + MaxDelay
    BY DEF StalenessBounded
  <2>a. /\ Nothing \notin Values /\ Nothing # Negative
        /\ LocalTtl \in Nat /\ NegativeTtl \in Nat /\ MaxDelay \in Nat /\ TypeOK
    BY Marks, TypeFacts DEF TypeInv
  <2>1. CASE l1.data[k] = Nothing
    BY <2>1, <2>a DEF Served
  <2>2. CASE l1.data[k] # Nothing
    <3> DEFINE e == l1.data[k]
    <3>1. k \in Cached(l1) /\ e \in Entries
      BY <2>2, <2>a DEF Cached, TypeOK
    <3>2. e.ttl \in Int /\ Served(k) = IF e.ttl < 0 THEN Nothing ELSE e.value
      BY <2>2, <3>1 DEF Served, Expired, Entries
    <3>3. e.ttl >= 0 =>
            /\ e.value \in Values => since[e.value] + e.ttl <= LocalTtl + MaxDelay
            /\ e.value = Negative => absent[k] + e.ttl <= NegativeTtl + MaxDelay
      BY <3>1 DEF RecentInv, EntriesRecent
    <3>4. absent[k] \in Nat /\ (e.value \in Values => since[e.value] \in Nat)
      BY <2>a DEF TypeOK
    <3> HIDE DEF e
    <3>5. CASE e.ttl < 0
      BY <2>a, <3>2, <3>5
    <3>6. CASE e.ttl >= 0
      <4>1. Served(k) = e.value
        BY <3>2, <3>6
      <4> QED
        BY <2>a, <3>2, <3>3, <3>4, <3>6, <4>1
    <3> QED
      BY <3>2, <3>5, <3>6
  <2> QED
    BY <2>1, <2>2
<1>4. Spec => []TypeInv
  BY TypeInvariant
<1> QED
  BY <1>1, <1>2, <1>3, <1>4, PTL DEF Spec

----------------------------------------------------------------------------
(* A process sees its own writes *)

\* No value is newer than the last write, and what a delete is ahead of is the next one.
Numbered ==
    /\ \A k \in Keys : own[k] <= writes + 1 /\ (l2[k] # Nothing => l2[k] <= writes)
    /\ \A t \in Threads : Filling(t) /\ task[t].value \in Values => task[t].value <= writes
    /\ \A k \in Cached(l1) : l1.data[k].value \in Values => l1.data[k].value <= writes

\* Redis has nothing older than what this process has set, or is about to have in L1.
StoreAhead ==
    \A k \in Keys : l2[k] # Nothing =>
        /\ l2[k] >= own[k]
        /\ \A t \in Threads : OfSet(t) /\ task[t].key = k => l2[k] >= task[t].value

\* Nor has a fill that no set() or delete() overlapped.
FillsAhead ==
    \A t \in Threads :
        (Filling(t) /\ t \notin crossed /\ task[t].value \in Values) =>
            /\ task[t].value >= own[task[t].key]
            /\ \A u \in Threads :
                OfSet(u) /\ task[u].key = task[t].key => task[t].value >= task[u].value

\* Nor an entry that such a fill made; and none of those is there during a delete().
EntriesAhead ==
    \A k \in Cached(l1) \ crossed :
        l1.data[k].value \in Values =>
            /\ l1.data[k].value >= own[k]
            /\ \A t \in Threads : ~(task[t].pc = "deleting" /\ task[t].key = k)

Ahead == Numbered /\ StoreAhead /\ FillsAhead /\ EntriesAhead
AheadInv == Raises => Ahead

\* A step that begins no fill and makes no entry; it may take the next number for a write
\* of Redis, lose what Redis has, end operations, drop entries, or begin a deletion.
Quiet ==
    /\ own' = own /\ crossed' = crossed
    /\ writes' = writes \/ writes' = writes + 1
    /\ \A k \in Keys : l2'[k] \in {l2[k], Nothing} \/ (l2'[k] = writes + 1 /\ writes' = writes + 1)
    /\ \A t \in Threads : task'[t].pc = "filling" =>
            /\ Filling(t) /\ task'[t].op = task[t].op
            /\ task'[t].key = task[t].key /\ task'[t].value = task[t].value
    /\ \A t \in Threads : task'[t].pc = "deleting" =>
            \/ task'[t].key \notin Cached(l1')
            \/ task[t].pc = "deleting" /\ task'[t].key = task[t].key
    /\ \A k \in Cached(l1') : k \in Cached(l1) /\ l1'.data[k].value = l1.data[k].value

\* The types that the comparisons below need.
LEMMA AheadTypes ==
    ASSUME TypeInv
    PROVE  /\ writes \in Nat /\ Values \subseteq Nat /\ Nothing \notin Values
           /\ l2 \in [Keys -> Values \cup {Nothing}] /\ own \in [Keys -> Nat]
           /\ task \in [Threads -> {Idle} \cup Tasks]
           /\ \A k \in Keys : l2[k] # Nothing => l2[k] \in Nat
           /\ \A t \in Threads : task[t].pc # "idle" => task[t].key \in Keys
           /\ \A t \in Threads : OfSet(t) => task[t].value \in Values
           /\ use.threads \subseteq Threads /\ use.keys \subseteq Keys
           /\ Keys \cap Threads = {} /\ crossed \subseteq Threads \cup Keys
           /\ \A k \in Cached(l1) : k \in Keys
<1>1. own \in [Keys -> Nat]
  BY TieredAssumption DEF TypeInv, TypeOK
<1>2. \A t \in Threads : OfSet(t) => task[t].value \in Values
  BY DEF TypeInv, FillsHaveValues, HasValue, OfSet, Filling
<1>3. l2 \in [Keys -> Values \cup {Nothing}] /\ crossed \subseteq Threads \cup Keys
  BY DEF TypeInv, TypeOK
<1>4. Values \subseteq Nat /\ Nothing \notin Values
  BY Marks
<1>5. \A t \in Threads : task[t].pc # "idle" => task[t].key \in Keys
  BY TypeFacts DEF TypeInv, Tasks
<1> QED
  BY <1>1, <1>2, <1>3, <1>4, <1>5, TypeFacts, TieredAssumption DEF TypeInv, Cached

\* A quiet step brings nothing older to where it was not.
LEMMA QuietAhead ==
    ASSUME TypeInv, Ahead, Quiet
    PROVE  Ahead'
<1>a. /\ writes \in Nat /\ Values \subseteq Nat /\ Values' = Values
      /\ \A k \in Keys : own[k] \in Nat
      /\ \A k \in Keys : l2[k] # Nothing => l2[k] \in Nat
      /\ \A t \in Threads : OfSet(t) => task[t].value \in Values
      /\ \A t \in Threads : task[t].pc # "idle" => task[t].key \in Keys
  BY AheadTypes DEF Values
<1>1. Numbered'
  <2>1. \A k \in Keys : own'[k] <= writes' + 1 /\ (l2'[k] # Nothing => l2'[k] <= writes')
    BY <1>a DEF Ahead, Numbered, Quiet
  <2>2. ASSUME NEW t \in Threads, task'[t].pc = "filling", task'[t].value \in Values
        PROVE  task'[t].value <= writes'
    <3>1. task[t].value <= writes /\ task[t].value \in Nat /\ task'[t].value = task[t].value
      BY <1>a, <2>2 DEF Ahead, Numbered, Quiet
    <3> QED
      BY <1>a, <3>1 DEF Quiet
  <2>3. ASSUME NEW k \in Cached(l1'), l1'.data[k].value \in Values
        PROVE  l1'.data[k].value <= writes'
    <3>1. /\ l1.data[k].value <= writes /\ l1.data[k].value \in Nat
          /\ l1'.data[k].value = l1.data[k].value
      BY <1>a, <2>3 DEF Ahead, Numbered, Quiet
    <3> QED
      BY <1>a, <3>1 DEF Quiet
  <2>4. Cached(l1)' = Cached(l1')
    BY DEF Cached
  <2> QED
    BY <1>a, <2>1, <2>2, <2>3, <2>4 DEF Numbered, Filling
<1>2. StoreAhead'
  <2> SUFFICES ASSUME NEW k \in Keys, l2'[k] # Nothing
               PROVE  /\ l2'[k] >= own'[k]
                      /\ \A t \in Threads :
                            OfSet(t)' /\ task'[t].key = k => l2'[k] >= task'[t].value
    BY DEF StoreAhead
  <2>1. own'[k] = own[k] /\ own[k] \in Nat
    BY <1>a DEF Quiet
  <2>2. ASSUME NEW t \in Threads, OfSet(t)', task'[t].key = k
        PROVE  /\ OfSet(t) /\ task[t].key = k /\ task'[t].value = task[t].value
               /\ task[t].value \in Nat
    BY <1>a, <2>2 DEF Quiet, OfSet, Filling
  <2>3. CASE l2'[k] = l2[k]
    BY <2>1, <2>2, <2>3 DEF Ahead, StoreAhead
  <2>4. CASE l2'[k] = writes + 1
    <3>1. own[k] <= writes + 1
      BY DEF Ahead, Numbered
    <3>2. ASSUME NEW t \in Threads, OfSet(t)
          PROVE  task[t].value <= writes /\ task[t].value \in Nat
      BY <1>a, <3>2 DEF Ahead, Numbered, OfSet
    <3> QED
      BY <1>a, <2>1, <2>2, <2>4, <3>1, <3>2
  <2> QED
    BY <2>3, <2>4 DEF Quiet
<1>3. FillsAhead'
  <2> SUFFICES ASSUME NEW t \in Threads, Filling(t)', t \notin crossed', task'[t].value \in Values
               PROVE  /\ task'[t].value >= own'[task'[t].key]
                      /\ \A u \in Threads : OfSet(u)' /\ task'[u].key = task'[t].key
                                                => task'[t].value >= task'[u].value
    BY <1>a DEF FillsAhead
  <2>1. /\ Filling(t) /\ t \notin crossed /\ task[t].value \in Values
        /\ task'[t].key = task[t].key /\ task'[t].value = task[t].value /\ own' = own
    BY DEF Quiet, Filling
  <2>2. ASSUME NEW u \in Threads, OfSet(u)'
        PROVE  OfSet(u) /\ task'[u].key = task[u].key /\ task'[u].value = task[u].value
    BY <2>2 DEF Quiet, OfSet, Filling
  <2> QED
    BY <2>1, <2>2 DEF Ahead, FillsAhead
<1>4. EntriesAhead'
  <2> SUFFICES ASSUME NEW k \in Cached(l1') \ crossed', l1'.data[k].value \in Values
               PROVE  /\ l1'.data[k].value >= own'[k]
                      /\ \A t \in Threads : ~(task'[t].pc = "deleting" /\ task'[t].key = k)
    <3>1. Cached(l1)' = Cached(l1')
      BY DEF Cached
    <3> QED
      BY <1>a, <3>1 DEF EntriesAhead
  <2>1. /\ k \in Cached(l1) \ crossed /\ l1'.data[k].value = l1.data[k].value /\ own' = own
    BY DEF Quiet
  <2> QED
    BY <2>1 DEF Ahead, EntriesAhead, Quiet
<1> QED
  BY <1>1, <1>2, <1>3, <1>4 DEF Ahead

\* A deletion that is under way after a step was so before it, or begins with the step.
LEMMA DeletesBegin ==
    ASSUME TypeInv, [Next]_vars, NEW t \in Threads, task'[t].pc = "deleting"
    PROVE  \/ \E k \in Keys : BeginDelete(t, k)
           \/ task[t].pc = "deleting" /\ task'[t] = task[t]
<1> USE DEF history
<1>a. /\ TypeOK /\ task \in [Threads -> {Idle} \cup Tasks]
      /\ use.threads \subseteq Threads /\ use.keys \subseteq Keys
      /\ \A u \in Threads : task[u].pc # "idle" => task[u] \in Tasks
  BY TypeFacts DEF TypeInv
<1>1. CASE Tick
  <2>1. task'[t] = IF task[t].pc = "filling" THEN [task[t] EXCEPT !.wait = @ + 1] ELSE task[t]
    BY <1>1 DEF Tick
  <2>2. task[t].pc # "filling"
    BY <1>a, <2>1 DEF Tasks
  <2> QED
    BY <2>1, <2>2
<1>2. CASE ~Tick
  <2>1. ASSUME NEW u \in Threads, NEW r, task' = [task EXCEPT ![u] = r], r.pc # "deleting"
        PROVE  task[t].pc = "deleting" /\ task'[t] = task[t]
    BY <1>a, <2>1
  <2>2. CASE task' = task
    BY <2>2
  <2>3. ASSUME NEW u \in Threads, Return(u)
        PROVE  task[t].pc = "deleting" /\ task'[t] = task[t]
    <3>1. Idle.pc # "deleting"
      BY DEF Idle
    <3> QED
      BY <2>1, <2>3, <3>1 DEF Return
  <2>4. ASSUME NEW u \in Threads, NEW k \in Keys, NEW op, LookUp(u, op, k) \/ BeginSet(u, k)
        PROVE  task[t].pc = "deleting" /\ task'[t] = task[t]
    BY <2>1, <2>4 DEF LookUp, BeginSet, Become
  <2>5. ASSUME NEW u \in Threads,
               \/ ReadRedis(u) \/ ReadFails(u) \/ Store(u) \/ StoreFails(u)
               \/ FactoryRaises(u) \/ Fill(u) \/ DeleteRedis(u) \/ DeleteFails(u)
        PROVE  task[t].pc = "deleting" /\ task'[t] = task[t]
    BY <2>1, <2>3, <2>5
       DEF ReadRedis, ReadFails, Store, StoreFails, Missed, Advance, Become, FactoryRaises, Fill,
           FillFor, DeleteRedis, DeleteFails
  <2>6. ASSUME NEW u \in Threads, NEW k \in Keys, BeginDelete(u, k)
        PROVE  BeginDelete(t, k) \/ (task[t].pc = "deleting" /\ task'[t] = task[t])
    <3>1. CASE u = t
      BY <2>6, <3>1
    <3>2. CASE u # t
      BY <1>a, <2>6, <3>2 DEF BeginDelete, Become
    <3> QED
      BY <3>1, <3>2
  <2>7. ASSUME NEW u \in use.threads, Moves(u)
        PROVE  \/ \E k \in Keys : BeginDelete(t, k)
               \/ task[t].pc = "deleting" /\ task'[t] = task[t]
    <3>1. u \in Threads
      BY <1>a
    <3>2. ASSUME NEW k \in use.keys,
                 \/ LookUp(u, "get", k) \/ LookUp(u, "remember", k)
                 \/ BeginSet(u, k) \/ BeginDelete(u, k)
          PROVE  \/ \E j \in Keys : BeginDelete(t, j)
                 \/ task[t].pc = "deleting" /\ task'[t] = task[t]
      <4>1. k \in Keys
        BY <1>a
      <4> QED
        BY <2>4, <2>6, <3>1, <3>2, <4>1
    <3> QED
      BY <2>5, <2>7, <3>1, <3>2 DEF Moves
  <2>8. ASSUME Outside \/ UNCHANGED vars
        PROVE  task' = task
    BY <2>8 DEF Outside, InvalidateLocal, Elsewhere, Lapse, vars
  <2> QED
    BY <1>2, <2>2, <2>7, <2>8, StepKinds
<1> QED
  BY <1>1, <1>2

\* Four steps are not quiet: those that bring a value into the process or to L1, and a
\* deletion of this process.
LEMMA QuietSteps ==
    ASSUME TypeInv, Raises, [Next]_vars
    PROVE  \/ Quiet
           \/ \E t \in Threads : ReadRedis(t) \/ Store(t) \/ Fill(t) \/ DeleteRedis(t)
<1> SUFFICES ASSUME \A t \in Threads : /\ ~ReadRedis(t) /\ ~Store(t)
                                       /\ ~Fill(t) /\ ~DeleteRedis(t)
             PROVE  Quiet
  OBVIOUS
<1> USE DEF history
<1>a. /\ writes \in Nat /\ l2 \in [Keys -> Values \cup {Nothing}]
      /\ \A u \in use.threads : u \in Threads
  BY AheadTypes
<1>1. own' = own /\ crossed' = crossed /\ (writes' = writes \/ writes' = writes + 1)
  <2>1. ASSUME NEW u \in use.threads, Moves(u)
        PROVE  own' = own /\ crossed' = crossed /\ (writes' = writes \/ writes' = writes + 1)
    BY <1>a, <2>1 DEF Moves, LookUp, BeginSet, BeginDelete, ReadFails, StoreFails, NewWrite,
         FactoryRaises, DeleteFails
  <2>2. ASSUME Outside \/ Tick \/ UNCHANGED vars
        PROVE  own' = own /\ crossed' = crossed /\ (writes' = writes \/ writes' = writes + 1)
    BY <2>2 DEF Outside, InvalidateLocal, Elsewhere, NewWrite, Lapse, Tick, vars
  <2> QED
    BY <2>1, <2>2, StepKinds
<1>2. ASSUME NEW k \in Keys
      PROVE  l2'[k] \in {l2[k], Nothing} \/ (l2'[k] = writes + 1 /\ writes' = writes + 1)
  <2>1. CASE l2' = l2
    BY <2>1
  <2>2. CASE Tick
    BY <2>2 DEF Tick
  <2>3. ASSUME NEW j \in Keys, NewWrite, Put(j)
        PROVE  l2'[k] = l2[k] \/ (l2'[k] = writes + 1 /\ writes' = writes + 1)
    BY <1>a, <2>3 DEF NewWrite, Put
  <2>4. ASSUME NEW j \in Keys, Erase(j)
        PROVE  l2'[k] \in {l2[k], Nothing}
    BY <1>a, <2>4 DEF Erase
  <2> QED
    BY <2>1, <2>2, <2>3, <2>4, StoreStep
<1>3. ASSUME NEW t \in Threads, task'[t].pc = "filling"
      PROVE  /\ Filling(t) /\ task'[t].op = task[t].op
             /\ task'[t].key = task[t].key /\ task'[t].value = task[t].value
  <2>1. ~ReadFails(t) /\ ~StoreFails(t)
    <3>1. ASSUME Return(t) PROVE FALSE
      <4>1. task'[t] = Idle
        BY <3>1, ReturnType DEF TypeInv
      <4> QED
        BY <1>3, <4>1 DEF Idle
    <3> QED
      BY <3>1 DEF ReadFails, StoreFails, Raises
  <2> QED
    BY <1>3, <2>1, FillsBegin
<1>4. ASSUME NEW t \in Threads, task'[t].pc = "deleting"
      PROVE  \/ task'[t].key \notin Cached(l1')
             \/ task[t].pc = "deleting" /\ task'[t].key = task[t].key
  <2>1. ASSUME NEW k \in Keys, BeginDelete(t, k)
        PROVE  task'[t].key \notin Cached(l1')
    <3>1. task'[t].key = k
      BY <2>1, AheadTypes DEF BeginDelete, Become
    <3>2. l1'.data[k] = Nothing
      BY <2>1, DroppedSound, TypeFacts DEF BeginDelete, TypeInv
    <3> QED
      BY <3>1, <3>2 DEF Cached
  <2> QED
    BY <1>4, <2>1, DeletesBegin
<1>5. ASSUME NEW k \in Cached(l1')
      PROVE  k \in Cached(l1) /\ l1'.data[k].value = l1.data[k].value
  BY EntryStep
<1> QED
  BY <1>1, <1>2, <1>3, <1>4, <1>5 DEF Quiet

\* What Redis has becomes a fill, with nothing newer set or on its way.
LEMMA ReadAhead ==
    ASSUME TypeInv, Ahead, NEW t \in Threads, ReadRedis(t)
    PROVE  Ahead'
<1>a. /\ task \in [Threads -> {Idle} \cup Tasks] /\ Values' = Values /\ Cached(l1)' = Cached(l1)
      /\ task[t].pc = "reading" /\ task[t].key \in Keys
      /\ l2[task[t].key] # Nothing => l2[task[t].key] \in Values
      /\ UNCHANGED <<l2, l1, writes, own, crossed>>
  BY AheadTypes DEF ReadRedis, Values, Cached, history
<1>b. task[t].op # "set" /\ Negative \notin Values
  BY <1>a, Marks DEF TypeInv, FillsHaveValues, HasValue
<1>1. \A u \in Threads \ {t} : task'[u] = task[u]
  BY <1>a DEF ReadRedis, Missed, Advance, Become
<1>2. /\ task'[t].op = task[t].op /\ task'[t].key = task[t].key /\ task'[t].pc # "deleting"
      /\ task'[t].pc = "filling" => task'[t].value \in {l2[task[t].key], Negative}
      /\ l2[task[t].key] = Nothing => task'[t].value \in {Nothing, Negative}
  BY <1>a DEF ReadRedis, Missed, Advance, Become
<1>3. \A u \in Threads : OfSet(u)' => u # t /\ OfSet(u) /\ task'[u] = task[u]
  BY <1>b, <1>1, <1>2 DEF OfSet, Filling
<1>4. ASSUME Filling(t)', task'[t].value \in Values
      PROVE  /\ task'[t].value = l2[task[t].key] /\ l2[task[t].key] # Nothing
  BY <1>2, <1>4, <1>b, Marks DEF Filling
<1>5. Numbered'
  BY <1>a, <1>1, <1>4 DEF Ahead, Numbered, Filling
<1>6. StoreAhead'
  BY <1>a, <1>3 DEF Ahead, StoreAhead
<1>7. FillsAhead'
  <2> SUFFICES ASSUME NEW u \in Threads, Filling(u)', u \notin crossed', task'[u].value \in Values
               PROVE  /\ task'[u].value >= own'[task'[u].key]
                      /\ \A w \in Threads : OfSet(w)' /\ task'[w].key = task'[u].key
                                                => task'[u].value >= task'[w].value
    BY <1>a DEF FillsAhead
  <2>1. CASE u = t
    BY <1>a, <1>2, <1>3, <1>4, <2>1 DEF Ahead, StoreAhead
  <2>2. CASE u # t
    BY <1>a, <1>1, <1>3, <2>2 DEF Ahead, FillsAhead, Filling
  <2> QED
    BY <2>1, <2>2
<1>8. EntriesAhead'
  BY <1>a, <1>1, <1>2 DEF Ahead, EntriesAhead
<1> QED
  BY <1>5, <1>6, <1>7, <1>8 DEF Ahead

\* A write is newer than all there is; the fills of its key under way are marked.
LEMMA StoreStepAhead ==
    ASSUME TypeInv, Ahead, NEW t \in Threads, Store(t)
    PROVE  Ahead'
<1> DEFINE k == task[t].key
<1>a. /\ task \in [Threads -> {Idle} \cup Tasks] /\ Values' = Values /\ Cached(l1)' = Cached(l1)
      /\ k \in Keys /\ writes \in Nat /\ Values \subseteq Nat /\ own \in [Keys -> Nat]
      /\ \A j \in Keys : l2[j] # Nothing => l2[j] \in Nat
      /\ \A u \in Threads : OfSet(u) => task[u].value \in Values
      /\ l1' = l1 /\ own' = own /\ writes' = writes + 1
      /\ \A j \in Cached(l1) : j \in Keys /\ j \notin Threads
  BY AheadTypes DEF Store, NewWrite, Values, Cached
<1>1. \A j \in Keys : l2'[j] = IF j = k THEN writes + 1 ELSE l2[j]
  BY <1>a, AheadTypes DEF Store, Put
<1>2. /\ \A u \in Threads \ {t} : task'[u] = task[u]
      /\ task'[t].pc = "filling" /\ task'[t].op = "set" /\ task'[t].key = k
      /\ task'[t].value = writes + 1
  BY <1>a DEF Store, Become
<1>3. crossed' = crossed \cup Siblings(t, k)
  BY DEF Store
<1> HIDE DEF k
<1>4. ASSUME NEW u \in Threads, OfSet(u)
      PROVE  task[u].value \in Nat /\ task[u].value <= writes
  BY <1>a, <1>4 DEF Ahead, Numbered, OfSet
<1>5. \A u \in Threads : OfSet(u)' => u = t \/ (OfSet(u) /\ task'[u] = task[u])
  BY <1>2 DEF OfSet, Filling
<1>6. \A u \in Threads : OfSet(u)' => task'[u].value \in Nat /\ task'[u].value <= writes + 1
  BY <1>a, <1>2, <1>4, <1>5
<1>7. Numbered'
  <2>1. \A j \in Keys : own'[j] <= writes' + 1 /\ (l2'[j] # Nothing => l2'[j] <= writes')
    <3> SUFFICES ASSUME NEW j \in Keys
                 PROVE  own'[j] <= writes' + 1 /\ (l2'[j] # Nothing => l2'[j] <= writes')
      OBVIOUS
    <3>1. own[j] \in Nat /\ own[j] <= writes + 1 /\ (l2[j] # Nothing => l2[j] <= writes)
      BY <1>a DEF Ahead, Numbered
    <3> QED
      BY <1>a, <1>1, <3>1
  <2>2. ASSUME NEW u \in Threads, Filling(u)', task'[u].value \in Values
        PROVE  task'[u].value <= writes'
    <3>1. CASE u = t
      BY <1>a, <1>2, <3>1
    <3>2. CASE u # t
      <4>1. task[u].value <= writes /\ task[u].value \in Nat /\ task'[u].value = task[u].value
        BY <1>a, <1>2, <2>2, <3>2 DEF Ahead, Numbered, Filling
      <4> QED
        BY <1>a, <4>1
    <3> QED
      BY <3>1, <3>2
  <2>3. ASSUME NEW j \in Cached(l1), l1.data[j].value \in Values
        PROVE  l1.data[j].value <= writes'
    <3>1. l1.data[j].value <= writes /\ l1.data[j].value \in Nat
      BY <1>a, <2>3 DEF Ahead, Numbered
    <3> QED
      BY <1>a, <3>1
  <2> QED
    BY <1>a, <2>1, <2>2, <2>3 DEF Numbered
<1>8. StoreAhead'
  <2> SUFFICES ASSUME NEW j \in Keys, l2'[j] # Nothing
               PROVE  /\ l2'[j] >= own'[j]
                      /\ \A u \in Threads :
                            OfSet(u)' /\ task'[u].key = j => l2'[j] >= task'[u].value
    BY DEF StoreAhead
  <2>1. CASE j = k
    <3>1. own[j] \in Nat /\ own[j] <= writes + 1
      BY <1>a DEF Ahead, Numbered
    <3> QED
      BY <1>a, <1>1, <1>6, <2>1, <3>1
  <2>2. CASE j # k
    BY <1>a, <1>1, <1>2, <1>5, <2>2 DEF Ahead, StoreAhead
  <2> QED
    BY <2>1, <2>2
<1>9. FillsAhead'
  <2> SUFFICES ASSUME NEW u \in Threads, Filling(u)', u \notin crossed', task'[u].value \in Values
               PROVE  /\ task'[u].value >= own'[task'[u].key]
                      /\ \A w \in Threads : OfSet(w)' /\ task'[w].key = task'[u].key
                                                => task'[u].value >= task'[w].value
    BY <1>a DEF FillsAhead
  <2>1. CASE u = t
    <3>1. own[k] \in Nat /\ own[k] <= writes + 1
      BY <1>a DEF Ahead, Numbered
    <3> QED
      BY <1>a, <1>2, <1>6, <2>1, <3>1
  <2>2. CASE u # t
    <3>1. Filling(u) /\ u \notin crossed /\ task'[u] = task[u] /\ task[u].key # k
      BY <1>2, <1>3, <2>2 DEF Filling, Siblings
    <3> QED
      BY <1>a, <1>2, <1>5, <3>1 DEF Ahead, FillsAhead
  <2> QED
    BY <2>1, <2>2
<1>10. EntriesAhead'
  <2> SUFFICES ASSUME NEW j \in Cached(l1) \ crossed', l1.data[j].value \in Values
               PROVE  /\ l1.data[j].value >= own[j]
                      /\ \A u \in Threads : ~(task'[u].pc = "deleting" /\ task'[u].key = j)
    BY <1>a DEF EntriesAhead
  <2> QED
    BY <1>2, <1>3 DEF Ahead, EntriesAhead
<1> QED
  BY <1>7, <1>8, <1>9, <1>10 DEF Ahead

\* A fill that nothing overlapped leaves an entry as new as all this process has set.
LEMMA FillAhead ==
    ASSUME TypeInv, Ahead, NEW t \in Threads, Fill(t)
    PROVE  Ahead'
<1> DEFINE k == task[t].key
           v == task[t].value
<1>a. /\ task \in [Threads -> {Idle} \cup Tasks] /\ Values' = Values /\ Cached(l1)' = Cached(l1')
      /\ k \in Keys /\ writes \in Nat /\ Values \subseteq Nat /\ own \in [Keys -> Nat]
      /\ \A j \in Keys : l2[j] # Nothing => l2[j] \in Nat
      /\ \A u \in Threads : OfSet(u) => task[u].value \in Values
      /\ l2' = l2 /\ writes' = writes /\ Filling(t)
      /\ \A j \in Cached(l1) : j \in Keys
      /\ Keys \cap Threads = {} /\ t \notin Keys
  BY AheadTypes DEF Fill, FillFor, Values, Cached, Filling
<1>1. task'[t] = Idle /\ \A u \in Threads \ {t} : task'[u] = task[u]
  BY <1>a DEF Fill, FillFor, Return
<1>2. own' = IF task[t].op # "set" \/ own[k] > v THEN own ELSE [own EXCEPT ![k] = v]
  BY DEF Fill, FillFor
<1>3. crossed' = (crossed \ {t, k}) \cup
                 (IF t \in crossed \/ \E u \in Threads : task[u].pc = "deleting" /\ task[u].key = k
                  THEN {k} ELSE {})
  BY DEF Fill, FillFor
<1>4. \A j \in Cached(l1') : IF j = k THEN l1'.data[j].value = v
                             ELSE j \in Cached(l1) /\ l1'.data[j] = l1.data[j]
  BY FillEntry
<1> HIDE DEF k, v
<1>5. \A j \in Cached(l1') : j \in Keys
  BY DEF Cached
<1>6. \A u \in Threads : task'[u].pc # "idle" => u # t /\ task'[u] = task[u]
  BY <1>1 DEF Idle
<1>7. /\ \A j \in Keys \ {k} : own'[j] = own[j]
      /\ ~OfSet(t) => own' = own
      /\ OfSet(t) => v \in Nat /\ v <= writes /\ own'[k] = IF own[k] > v THEN own[k] ELSE v
  <2>1. OfSet(t) => v \in Nat /\ v <= writes
    BY <1>a DEF Ahead, Numbered, OfSet, v
  <2> QED
    BY <1>a, <1>2, <2>1 DEF OfSet
<1>8. \A j \in Keys : own[j] \in Nat /\ own[j] <= writes + 1
  BY <1>a DEF Ahead, Numbered
<1>9. Numbered'
  <2>1. \A j \in Keys : own'[j] <= writes + 1
    <3> SUFFICES ASSUME NEW j \in Keys PROVE own'[j] <= writes + 1
      OBVIOUS
    <3>1. CASE j # k \/ ~OfSet(t)
      BY <1>7, <1>8, <3>1
    <3>2. CASE j = k /\ OfSet(t)
      <4>1. v \in Nat /\ v <= writes /\ own'[k] \in {own[k], v}
        BY <1>7, <3>2
      <4>2. v <= writes + 1
        BY <1>a, <4>1
      <4> QED
        BY <1>8, <3>2, <4>1, <4>2
    <3> QED
      BY <3>1, <3>2
  <2>2. \A u \in Threads : Filling(u)' /\ task'[u].value \in Values => task'[u].value <= writes
    BY <1>6 DEF Ahead, Numbered, Filling
  <2>3. \A j \in Cached(l1') : l1'.data[j].value \in Values => l1'.data[j].value <= writes
    BY <1>a, <1>4 DEF Ahead, Numbered, v
  <2>4. \A j \in Keys : l2[j] # Nothing => l2[j] <= writes
    BY DEF Ahead, Numbered
  <2> QED
    BY <1>a, <2>1, <2>2, <2>3, <2>4 DEF Numbered
<1>10. StoreAhead'
  <2> SUFFICES ASSUME NEW j \in Keys, l2[j] # Nothing
               PROVE  /\ l2[j] >= own'[j]
                      /\ \A u \in Threads :
                            OfSet(u)' /\ task'[u].key = j => l2[j] >= task'[u].value
    BY <1>a DEF StoreAhead
  <2>1. /\ l2[j] >= own[j]
        /\ \A u \in Threads : OfSet(u) /\ task[u].key = j => l2[j] >= task[u].value
    BY DEF Ahead, StoreAhead
  <2>2. l2[j] >= own'[j]
    <3>1. CASE j # k \/ ~OfSet(t)
      BY <1>7, <2>1, <3>1
    <3>2. CASE j = k /\ OfSet(t)
      <4>1. own'[j] \in {own[j], v} /\ l2[j] >= v
        BY <1>7, <2>1, <3>2 DEF k, v
      <4> QED
        BY <2>1, <4>1
    <3> QED
      BY <3>1, <3>2
  <2>3. \A u \in Threads : OfSet(u)' => OfSet(u) /\ task'[u] = task[u]
    BY <1>6 DEF OfSet, Filling
  <2> QED
    BY <2>1, <2>2, <2>3
<1>11. FillsAhead'
  <2> SUFFICES ASSUME NEW u \in Threads, Filling(u)', u \notin crossed', task'[u].value \in Values
               PROVE  /\ task'[u].value >= own'[task'[u].key]
                      /\ \A w \in Threads : OfSet(w)' /\ task'[w].key = task'[u].key
                                                => task'[u].value >= task'[w].value
    BY <1>a DEF FillsAhead
  <2>1. u # t /\ Filling(u) /\ task'[u] = task[u] /\ u \notin Keys
    BY <1>a, <1>6 DEF Filling
  <2>2. u \notin crossed
    BY <1>a, <1>3, <2>1
  <2>3. /\ task[u].value >= own[task[u].key]
        /\ \A w \in Threads :
              OfSet(w) /\ task[w].key = task[u].key => task[u].value >= task[w].value
    BY <2>1, <2>2 DEF Ahead, FillsAhead
  <2>4. \A w \in Threads : OfSet(w)' => OfSet(w) /\ task'[w] = task[w]
    BY <1>6 DEF OfSet, Filling
  <2>5. task[u].value >= own'[task[u].key]
    <3>0. task[u].key \in Keys
      BY <2>1, AheadTypes DEF Filling
    <3>1. CASE task[u].key # k \/ ~OfSet(t)
      BY <1>7, <2>3, <3>0, <3>1
    <3>2. CASE task[u].key = k /\ OfSet(t)
      <4>1. own'[k] \in {own[k], v} /\ task[u].value >= v
        BY <1>7, <2>3, <3>2 DEF k, v
      <4> QED
        BY <2>3, <3>2, <4>1
    <3> QED
      BY <3>1, <3>2
  <2> QED
    BY <2>1, <2>3, <2>4, <2>5
<1>12. EntriesAhead'
  <2> SUFFICES ASSUME NEW j \in Cached(l1') \ crossed', l1'.data[j].value \in Values
               PROVE  /\ l1'.data[j].value >= own'[j]
                      /\ \A u \in Threads : ~(task'[u].pc = "deleting" /\ task'[u].key = j)
    BY <1>a DEF EntriesAhead
  <2>1. \A u \in Threads : task'[u].pc = "deleting" => task[u].pc = "deleting" /\ task'[u] = task[u]
    BY <1>6
  <2>2. CASE j # k
    <3>1. j \in Cached(l1) \ crossed /\ l1'.data[j] = l1.data[j] /\ own'[j] = own[j]
      BY <1>a, <1>3, <1>4, <1>5, <1>7, <2>2
    <3> QED
      BY <2>1, <3>1 DEF Ahead, EntriesAhead
  <2>3. CASE j = k
    <3>1. /\ t \notin crossed /\ \A u \in Threads : ~(task[u].pc = "deleting" /\ task[u].key = k)
          /\ l1'.data[j].value = v
      BY <1>3, <1>4, <2>3
    <3>2. v >= own[k]
      BY <1>a, <3>1 DEF Ahead, FillsAhead, k, v
    <3>3. v >= own'[k]
      BY <1>a, <1>7, <3>1, <3>2
    <3> QED
      BY <2>1, <2>3, <3>1, <3>3
  <2> QED
    BY <2>2, <2>3
<1> QED
  BY <1>9, <1>10, <1>11, <1>12 DEF Ahead

\* A deletion is ahead of everything; the fills of its key under way are marked, and no
\* entry of it that is not can have been made since the deletion emptied L1.
LEMMA DeleteAhead ==
    ASSUME TypeInv, Ahead, NEW t \in Threads, DeleteRedis(t)
    PROVE  Ahead'
<1> DEFINE k == task[t].key
<1>a. /\ task \in [Threads -> {Idle} \cup Tasks] /\ Values' = Values /\ Cached(l1)' = Cached(l1)
      /\ k \in Keys /\ writes \in Nat /\ own \in [Keys -> Nat]
      /\ l1' = l1 /\ writes' = writes /\ task[t].pc = "deleting"
      /\ \A j \in Cached(l1) : j \in Keys /\ j \notin Threads
  BY AheadTypes DEF DeleteRedis, Values, Cached
<1>1. \A j \in Keys : l2'[j] = IF j = k THEN Nothing ELSE l2[j]
  BY <1>a, AheadTypes DEF DeleteRedis, Erase
<1>2. task'[t] = Idle /\ \A u \in Threads \ {t} : task'[u] = task[u]
  BY <1>a DEF DeleteRedis, Return
<1>3. crossed' = crossed \cup Siblings(t, k)
  BY DEF DeleteRedis
<1>4. \A j \in Keys : own'[j] = IF j = k THEN writes + 1 ELSE own[j]
  BY <1>a DEF DeleteRedis
<1> HIDE DEF k
<1>5. \A u \in Threads : task'[u].pc # "idle" => u # t /\ task'[u] = task[u]
  BY <1>2 DEF Idle
<1>6. \A u \in Threads : OfSet(u)' => OfSet(u) /\ task'[u] = task[u]
  BY <1>5 DEF OfSet, Filling
<1>7. Numbered'
  <2>1. \A j \in Keys : own'[j] <= writes + 1 /\ (l2'[j] # Nothing => l2'[j] <= writes)
    BY <1>a, <1>1, <1>4 DEF Ahead, Numbered
  <2>2. \A u \in Threads : Filling(u)' /\ task'[u].value \in Values => task'[u].value <= writes
    BY <1>5 DEF Ahead, Numbered, Filling
  <2> QED
    BY <1>a, <2>1, <2>2 DEF Ahead, Numbered
<1>8. StoreAhead'
  BY <1>a, <1>1, <1>4, <1>6 DEF Ahead, StoreAhead
<1>9. FillsAhead'
  <2> SUFFICES ASSUME NEW u \in Threads, Filling(u)', u \notin crossed', task'[u].value \in Values
               PROVE  /\ task'[u].value >= own'[task'[u].key]
                      /\ \A w \in Threads : OfSet(w)' /\ task'[w].key = task'[u].key
                                                => task'[u].value >= task'[w].value
    BY <1>a DEF FillsAhead
  <2>1. u # t /\ Filling(u) /\ task'[u] = task[u]
    BY <1>5 DEF Filling
  <2>2. u \notin crossed /\ task[u].key # k /\ task[u].key \in Keys
    BY <1>3, <2>1, AheadTypes DEF Siblings, Filling
  <2> QED
    BY <1>4, <1>6, <2>1, <2>2 DEF Ahead, FillsAhead
<1>10. EntriesAhead'
  <2> SUFFICES ASSUME NEW j \in Cached(l1) \ crossed', l1.data[j].value \in Values
               PROVE  /\ l1.data[j].value >= own'[j]
                      /\ \A u \in Threads : ~(task'[u].pc = "deleting" /\ task'[u].key = j)
    BY <1>a DEF EntriesAhead
  <2>1. /\ l1.data[j].value >= own[j]
        /\ \A u \in Threads : ~(task[u].pc = "deleting" /\ task[u].key = j)
    BY <1>3 DEF Ahead, EntriesAhead
  <2>2. j # k /\ j \in Keys
    BY <1>a, <2>1 DEF k
  <2> QED
    BY <1>4, <1>5, <2>1, <2>2
<1> QED
  BY <1>7, <1>8, <1>9, <1>10 DEF Ahead

\* When errors are raised, every step keeps what is ahead ahead.
LEMMA AheadNext ==
    ASSUME TypeInv, AheadInv, [Next]_vars
    PROVE  AheadInv'
<1> SUFFICES ASSUME Raises PROVE Ahead'
  <2>1. Raises' => Raises
    BY UseKept DEF Raises
  <2> QED
    BY <2>1 DEF AheadInv
<1>1. Ahead
  BY DEF AheadInv
<1> QED
  BY <1>1, QuietSteps, QuietAhead, ReadAhead, StoreStepAhead, FillAhead, DeleteAhead

\* After its own set(), remember() or delete() of a key, L1 serves nothing older unless
\* another thread was filling the key meanwhile, for any keys, threads and sizes, however
\* many writes and errors there are, when errors are raised.
THEOREM OwnWrites == Spec => []OwnWritesSeen
<1>1. Init => AheadInv
  <2> SUFFICES ASSUME Init PROVE Ahead
    BY DEF AheadInv
  <2>1. Cached(l1) = {}
    BY DEF Init, Cached
  <2>2. \A t \in Threads : ~Filling(t)
    BY DEF Init, Filling, Idle
  <2> QED
    BY <2>1, <2>2 DEF Init, Ahead, Numbered, StoreAhead, FillsAhead, EntriesAhead
<1>2. TypeInv /\ AheadInv /\ [Next]_vars => AheadInv'
  BY AheadNext
<1>3. AheadInv => OwnWritesSeen
  <2> SUFFICES ASSUME Ahead, NEW k \in Keys, k \notin crossed, Served(k) \in Values
               PROVE  Served(k) >= own[k]
    BY DEF AheadInv, OwnWritesSeen
  <2>1. l1.data[k] # Nothing /\ Served(k) = l1.data[k].value
    BY Marks DEF Served
  <2> QED
    BY <2>1 DEF Ahead, EntriesAhead, Cached
<1>4. Spec => []TypeInv
  BY TypeInvariant
<1> QED
  BY <1>1, <1>2, <1>3, <1>4, PTL DEF Spec
=============================================================================
