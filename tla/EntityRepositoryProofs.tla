----------------------- MODULE EntityRepositoryProofs -----------------------
(***************************************************************************)
(* Theorems about EntityRepository, for any clients, ids and max_history.  *)
(***************************************************************************)
EXTENDS EntityRepository, TLAPS, SequenceTheorems

----------------------------------------------------------------------------
(* The inductive invariant *)

\* The ids that save() made and that no hard_delete() has touched.
Made == Ids \ (purged \cup CallerIds)

\* No version or value is ahead of the number of writes.
Dated(s, n) == s.version <= n /\ s.value <= n

\* What may be said of an object that a client holds, given the store, the ids that
\* optimistic locking governs, those of Made and the number of writes: an object that is
\* not behind the store is the stored state, and one of an id without a key is new.
Fits(o, st, governed, made, n) ==
    /\ o \in Objects /\ Dated(o.state, n)
    /\ o.id \in governed =>
        IF st[o.id] = None THEN o.state.version = 0
        ELSE st[o.id].version <= o.state.version => o.state = st[o.id]
    /\ o.id \in made => st[o.id] # None

Held(o, st, governed, made, n) == o = None \/ Fits(o, st, governed, made, n)

ObjectsFit ==
    \A c \in Clients :
        /\ Held(entity[c], store, Governed, Made, writes)
        /\ Held(fetched[c], store, Governed, Made, writes)

StoreDated ==
    \A id \in Ids : store[id] # None =>
        Dated(store[id], writes) /\ (id \in Governed => store[id].version >= 1)

\* A call holds what its next command needs.
CallsHold ==
    \A c \in Clients :
        /\ pc[c] = "creating" => entity[c] # None
        /\ pc[c] \in {"deleting", "restoring", "purge_past", "purge_index"} => fetched[c] # None
        /\ pc[c] \in {"purge_past", "purge_index"} => fetched[c].id \in purged

RepoInv == TypeOK /\ StoreDated /\ ObjectsFit /\ CallsHold

----------------------------------------------------------------------------
(* Objects and writes *)

\* A store with the state of one id replaced: under optimistic locking the state has the
\* next version.
Writes(st, id, s, governed) ==
    /\ id \in Ids /\ s \in State
    /\ id \in governed => s.version = IF st[id] = None THEN 1 ELSE st[id].version + 1

\* Whatever is written, an object that fitted the store still does.
LEMMA FitsAfterWrite ==
    ASSUME NEW st \in [Ids -> State \cup {None}], NEW governed, NEW made, NEW n \in Nat,
           NEW id, NEW s, Writes(st, id, s, governed),
           NEW o, Held(o, st, governed, made, n), NEW m \in Nat, n <= m
    PROVE  Held(o, [st EXCEPT ![id] = s], governed, made, m)
<1> SUFFICES ASSUME o # None PROVE Fits(o, [st EXCEPT ![id] = s], governed, made, m)
  BY DEF Held
<1> DEFINE new == [st EXCEPT ![id] = s]
<1>0. /\ o \in Objects /\ Dated(o.state, n) /\ o.id \in Ids /\ o.state \in State
      /\ s # None /\ id \in Ids /\ s \in State
      /\ new[id] = s /\ \A i \in Ids \ {id} : new[i] = st[i]
  BY RepositoryAssumption DEF Held, Fits, Writes, Objects
<1>1. Dated(o.state, m)
  BY <1>0 DEF Dated, State
<1>2. o.id \in made => new[o.id] # None
  BY <1>0 DEF Held, Fits
<1>3. ASSUME o.id \in governed
      PROVE  IF new[o.id] = None THEN o.state.version = 0
             ELSE new[o.id].version <= o.state.version => o.state = new[o.id]
  <2>1. CASE o.id # id
    BY <1>0, <1>3, <2>1 DEF Held, Fits
  <2>2. CASE o.id = id
    <3>1. s.version = IF st[id] = None THEN 1 ELSE st[id].version + 1
      BY <1>3, <2>2 DEF Writes
    <3>2. o.state.version \in Nat
      BY <1>0 DEF State
    <3>3. CASE st[id] = None
      <4>1. o.state.version = 0
        BY <1>3, <2>2, <3>3 DEF Held, Fits
      <4> QED
        BY <1>0, <2>2, <3>1, <3>3, <4>1
    <3>4. CASE st[id] # None
      <4>1. st[id] \in State /\ st[id].version \in Nat
        BY <1>0, <3>4 DEF State
      <4>2. st[id].version <= o.state.version => o.state = st[id]
        BY <1>3, <2>2, <3>4 DEF Held, Fits
      <4>3. ~(s.version <= o.state.version)
        BY <3>1, <3>2, <3>4, <4>1, <4>2
      <4> QED
        BY <1>0, <2>2, <4>3
    <3> QED
      BY <3>3, <3>4
  <2> QED
    BY <2>1, <2>2
<1> QED
  BY <1>0, <1>1, <1>2, <1>3 DEF Fits

\* Nor does it matter what happens to an id that is no longer governed.
LEMMA FitsAfterLoss ==
    ASSUME NEW st, NEW governed, NEW made, NEW n,
           NEW new, NEW fewer, NEW left, fewer \subseteq governed, left \subseteq made,
           \A i \in fewer \cup left : new[i] = st[i],
           NEW o, Held(o, st, governed, made, n)
    PROVE  Held(o, new, fewer, left, n)
BY DEF Held, Fits

\* The stored state fits.
LEMMA StoredFits ==
    ASSUME NEW st \in [Ids -> State \cup {None}], NEW governed, NEW made, NEW n,
           NEW id \in Ids, st[id] # None, Dated(st[id], n)
    PROVE  Fits(Object(id, st[id]), st, governed, made, n)
<1>1. st[id] \in State
  OBVIOUS
<1> QED
  BY <1>1 DEF Fits, Object, Objects

\* A history list stays one, also when it is trimmed.
LEMMA TrimTyped ==
    ASSUME NEW list \in Seq(State) PROVE Trim(list) \in Seq(State)
<1>1. CASE MaxHistory > 0 /\ Len(list) > MaxHistory
  <2>1. \A i \in 1 .. MaxHistory : list[i] \in State
    BY <1>1, RepositoryAssumption
  <2>2. SubSeq(list, 1, MaxHistory) \in Seq(State)
    BY <2>1, SubSeqProperties, RepositoryAssumption
  <2> QED
    BY <1>1, <2>2 DEF Trim
<1>2. CASE ~(MaxHistory > 0 /\ Len(list) > MaxHistory)
  BY <1>2 DEF Trim
<1> QED
  BY <1>1, <1>2

\* The state that is replaced is put in front.
LEMMA PastTyped ==
    ASSUME store \in [Ids -> State \cup {None}], past \in [Ids -> Seq(State)],
           NEW id \in Ids, NEW s, Overwrite(id, s)
    PROVE  past' \in [Ids -> Seq(State)]
<1>1. CASE store[id] = None
  BY <1>1 DEF Overwrite
<1>2. CASE store[id] # None
  <2>1. store[id] \in State
    BY <1>2
  <2>2. <<store[id]>> \o past[id] \in Seq(State)
    BY <2>1
  <2>3. Trim(<<store[id]>> \o past[id]) \in Seq(State)
    BY <2>2, TrimTyped
  <2> QED
    BY <1>2, <2>3 DEF Overwrite
<1> QED
  BY <1>1, <1>2

----------------------------------------------------------------------------
(* Steps *)

\* An object that a client may hold after the step.
FitsNext(o) == Held(o, store', Governed', Made', writes')

\* What a write does to the store, to its history and to what clients hold.
LEMMA AfterWrite ==
    ASSUME RepoInv, NEW id \in Ids, NEW s, Writes(store, id, s, Governed'), Dated(s, writes'),
           store' = [store EXCEPT ![id] = s], UNCHANGED purged,
           Governed' \subseteq Governed, writes' \in 0..MaxWrites, writes <= writes'
    PROVE  /\ store' \in [Ids -> State \cup {None}] /\ StoreDated'
           /\ \A c \in Clients : FitsNext(entity[c]) /\ FitsNext(fetched[c])
<1>1. /\ store \in [Ids -> State \cup {None}] /\ s \in State /\ writes \in Nat /\ writes' \in Nat
      /\ Made' = Made
  BY RepositoryAssumption DEF RepoInv, TypeOK, Writes, Made
<1>2. store' \in [Ids -> State \cup {None}]
  BY <1>1
<1>3. StoreDated'
  <2> SUFFICES ASSUME NEW i \in Ids, store'[i] # None
               PROVE  Dated(store'[i], writes') /\ (i \in Governed' => store'[i].version >= 1)
    BY DEF StoreDated
  <2>1. CASE i = id
    <3>1. store[id] # None => store[id].version \in Nat
      BY <1>1 DEF State
    <3>2. i \in Governed' => store'[i].version >= 1
      BY <1>1, <2>1, <3>1 DEF Writes
    <3> QED
      BY <1>1, <2>1, <3>2
  <2>2. CASE i # id
    <3>1. store[i] \in State /\ store'[i] = store[i]
      BY <1>1, <2>2
    <3>2. Dated(store[i], writes) /\ (i \in Governed => store[i].version >= 1)
      BY <3>1 DEF RepoInv, StoreDated
    <3> QED
      BY <1>1, <3>1, <3>2 DEF Dated, State
  <2> QED
    BY <2>1, <2>2
<1>4. ASSUME NEW o, Held(o, store, Governed, Made, writes)
      PROVE  FitsNext(o)
  <2>1. Held(o, store, Governed', Made, writes)
    BY <1>4, FitsAfterLoss
  <2> QED
    BY <1>1, <2>1, FitsAfterWrite DEF FitsNext
<1> QED
  BY <1>2, <1>3, <1>4 DEF RepoInv, ObjectsFit

\* The store after the step, its history and the sets that go with them.
StoreSound ==
    /\ store \in [Ids -> State \cup {None}] /\ StoreDated
    /\ past \in [Ids -> Seq(State)] /\ index \subseteq Ids
    /\ writes \in 0..MaxWrites /\ faults \in 0..MaxFaults
    /\ purged \subseteq Ids /\ gone \subseteq purged /\ rewritten \subseteq Ids

\* The client that moves is the only one whose objects change.
LEMMA Assemble ==
    ASSUME RepoInv, NEW c \in Clients, NEW e, NEW f, NEW p,
           entity' = [entity EXCEPT ![c] = e], fetched' = [fetched EXCEPT ![c] = f],
           pc' = [pc EXCEPT ![c] = p],
           StoreSound', \A d \in Clients : FitsNext(entity[d]) /\ FitsNext(fetched[d]),
           purged \subseteq purged', FitsNext(e), FitsNext(f),
           p \in {"ready", "creating", "deleting", "restoring", "purge_past", "purge_index"},
           p = "creating" => e # None,
           p \in {"deleting", "restoring", "purge_past", "purge_index"} => f # None,
           p \in {"purge_past", "purge_index"} => f.id \in purged'
    PROVE  RepoInv'
<1>1. /\ pc \in [Clients -> {"ready", "creating", "deleting", "restoring", "purge_past",
                             "purge_index"}]
      /\ entity \in [Clients -> Objects \cup {None}]
      /\ fetched \in [Clients -> Objects \cup {None}]
  BY DEF RepoInv, TypeOK
<1>2. e \in Objects \cup {None} /\ f \in Objects \cup {None}
  BY DEF FitsNext, Held, Fits
<1>3. TypeOK'
  BY <1>1, <1>2 DEF TypeOK, StoreSound
<1>4. \A d \in Clients : FitsNext(entity'[d]) /\ FitsNext(fetched'[d])
  BY <1>1
<1>5. ObjectsFit'
  BY <1>4 DEF ObjectsFit, FitsNext
<1>6. CallsHold'
  BY <1>1 DEF RepoInv, CallsHold
<1> QED
  BY <1>3, <1>5, <1>6 DEF RepoInv, StoreSound

\* A step without a write.
LEMMA AfterNothing ==
    ASSUME RepoInv, UNCHANGED <<store, purged, rewritten, writes>>
    PROVE  /\ Governed' = Governed /\ Made' = Made
           /\ store' \in [Ids -> State \cup {None}] /\ StoreDated'
           /\ \A c \in Clients : FitsNext(entity[c]) /\ FitsNext(fetched[c])
<1>1. Governed' = Governed /\ Made' = Made
  BY DEF Governed, Made
<1>2. StoreDated'
  BY <1>1 DEF RepoInv, StoreDated
<1>3. \A c \in Clients : FitsNext(entity[c]) /\ FitsNext(fetched[c])
  BY <1>1 DEF RepoInv, ObjectsFit, FitsNext
<1> QED
  BY <1>1, <1>2, <1>3 DEF RepoInv, TypeOK

\* An object of the state that was just written, or read, fits.
LEMMA NextStored ==
    ASSUME store' \in [Ids -> State \cup {None}], StoreDated', NEW id \in Ids, store'[id] # None
    PROVE  FitsNext(Object(id, store'[id]))
<1>1. Dated(store'[id], writes')
  BY DEF StoreDated
<1> QED
  BY <1>1, StoredFits DEF FitsNext, Held

\* Assemble for the steps that give a client a new object, and leave its call as it is.
LEMMA SameCall ==
    ASSUME RepoInv, NEW c \in Clients, NEW e, pc[c] = "ready",
           entity' = [entity EXCEPT ![c] = e], UNCHANGED <<pc, fetched, purged>>,
           StoreSound', \A d \in Clients : FitsNext(entity[d]) /\ FitsNext(fetched[d]),
           FitsNext(e)
    PROVE  RepoInv'
<1>1. fetched' = [fetched EXCEPT ![c] = fetched[c]] /\ pc' = [pc EXCEPT ![c] = "ready"]
  BY DEF RepoInv, TypeOK
<1> QED
  BY <1>1, Assemble

\* Assemble for the steps that leave a client's entity as it is.
LEMMA SameEntity ==
    ASSUME RepoInv, NEW c \in Clients, NEW f, NEW p,
           fetched' = [fetched EXCEPT ![c] = f], pc' = [pc EXCEPT ![c] = p], UNCHANGED entity,
           StoreSound', \A d \in Clients : FitsNext(entity[d]) /\ FitsNext(fetched[d]),
           purged \subseteq purged', FitsNext(f),
           p \in {"ready", "deleting", "restoring", "purge_past", "purge_index"},
           p # "ready" => f # None,
           p \in {"purge_past", "purge_index"} => f.id \in purged'
    PROVE  RepoInv'
<1>1. entity' = [entity EXCEPT ![c] = entity[c]]
  BY DEF RepoInv, TypeOK
<1> QED
  BY <1>1, Assemble

\* Faults are counted up to their bound.
LEMMA FaultsTyped == RepoInv /\ (Fault \/ UNCHANGED faults) => faults' \in 0..MaxFaults
BY RepositoryAssumption DEF RepoInv, TypeOK, Fault

\* A client may have no object.
LEMMA NoneFits == FitsNext(None)
BY DEF FitsNext, Held

\* save() of a new entity.
LEMMA CreateStep ==
    ASSUME RepoInv, NEW c \in Clients, NEW id \in Ids, Create(c, id)
    PROVE  RepoInv'
<1> DEFINE s == [version |-> 1, deleted |-> FALSE, value |-> writes + 1]
<1>0. /\ writes \in 0..MaxWrites /\ writes < MaxWrites /\ writes' = writes + 1
      /\ MaxWrites \in Nat /\ store[id] = None
      /\ store' = [store EXCEPT ![id] = s] /\ index' = index \cup {id}
      /\ UNCHANGED <<past, fetched, purged, gone, rewritten>>
      /\ entity' = [entity EXCEPT ![c] = Object(id, s)]
      /\ store \in [Ids -> State \cup {None}]
      /\ pc[c] = "ready"
  BY RepositoryAssumption DEF RepoInv, TypeOK, Create, Written, Insert, history
<1>1. s \in State
  BY <1>0 DEF State
<1> HIDE DEF s
<1>2. Dated(s, writes') /\ s.version = 1
  BY <1>0 DEF Dated, s
<1>3. Governed' = Governed /\ Made' = Made
  BY <1>0 DEF Governed, Made
<1>4. Writes(store, id, s, Governed')
  BY <1>0, <1>1, <1>2 DEF Writes
<1>5. writes' \in 0..MaxWrites /\ writes <= writes'
  BY <1>0
<1>6. /\ store' \in [Ids -> State \cup {None}] /\ StoreDated'
      /\ \A d \in Clients : FitsNext(entity[d]) /\ FitsNext(fetched[d])
  BY <1>0, <1>2, <1>3, <1>4, <1>5, AfterWrite
<1>7. FitsNext(Object(id, s)) /\ Object(id, s) # None
  <2>1. store'[id] = s /\ s # None
    BY <1>0, <1>1, RepositoryAssumption
  <2> QED
    BY <1>1, <1>6, <2>1, NextStored, RepositoryAssumption DEF Object, Objects
<1>8. faults' \in 0..MaxFaults
  BY RepositoryAssumption DEF RepoInv, TypeOK, Create, Fault
<1>9. StoreSound'
  BY <1>0, <1>5, <1>6, <1>8 DEF RepoInv, TypeOK, StoreSound
<1>10. CASE UNCHANGED pc
  BY <1>0, <1>6, <1>7, <1>9, <1>10, SameCall
<1>11. CASE pc' = [pc EXCEPT ![c] = "creating"]
  <2>1. fetched' = [fetched EXCEPT ![c] = fetched[c]]
    BY <1>0 DEF RepoInv, TypeOK
  <2> QED
    BY <1>0, <1>6, <1>7, <1>9, <1>11, <2>1, Assemble
<1> QED
  BY <1>10, <1>11 DEF Create

\* The MULTI of a creation that is sent again, or given up.
LEMMA CreateAgainStep ==
    ASSUME RepoInv, NEW c \in Clients, CreateAgain(c)
    PROVE  RepoInv'
<1> DEFINE o == entity[c]
<1>0. /\ pc[c] = "creating" /\ o # None
      /\ pc' = [pc EXCEPT ![c] = "ready"]
      /\ UNCHANGED <<past, fetched, writes, faults, purged, gone>>
      /\ writes \in 0..MaxWrites /\ store \in [Ids -> State \cup {None}]
      /\ fetched' = [fetched EXCEPT ![c] = fetched[c]]
      /\ entity = [entity EXCEPT ![c] = o]
      /\ MaxWrites \in Nat
  BY RepositoryAssumption DEF RepoInv, TypeOK, CallsHold, CreateAgain
<1>1. /\ o.id \in Ids /\ o.state \in State /\ Dated(o.state, writes)
      /\ o = Object(o.id, o.state)
  BY <1>0 DEF RepoInv, ObjectsFit, Held, Fits, Objects, Object
<1> HIDE DEF o
<1>2. ASSUME Insert(o.id, o.state), rewritten' = rewritten \cup {o.id}, UNCHANGED entity
      PROVE  RepoInv'
  <2>1. Governed' \subseteq Governed /\ o.id \notin Governed'
    BY <1>0, <1>2 DEF Governed
  <2>2. Writes(store, o.id, o.state, Governed')
    BY <1>1, <2>1 DEF Writes
  <2>3. /\ store' \in [Ids -> State \cup {None}] /\ StoreDated'
        /\ \A d \in Clients : FitsNext(entity[d]) /\ FitsNext(fetched[d])
    <3>1. /\ Dated(o.state, writes') /\ store' = [store EXCEPT ![o.id] = o.state]
          /\ writes' \in 0..MaxWrites /\ writes <= writes' /\ UNCHANGED purged
      BY <1>0, <1>1, <1>2 DEF Insert
    <3> QED
      BY <1>1, <2>1, <2>2, <3>1, AfterWrite
  <2>4. StoreSound'
    BY <1>0, <1>1, <1>2, <2>3 DEF RepoInv, TypeOK, StoreSound, Insert
  <2> QED
    BY <1>0, <1>2, <2>3, <2>4, Assemble DEF o
<1>3. ASSUME entity' = [entity EXCEPT ![c] = None], UNCHANGED <<store, index, rewritten>>
      PROVE  RepoInv'
  <2>1. StoreSound' /\ \A d \in Clients : FitsNext(entity[d]) /\ FitsNext(fetched[d])
    BY <1>0, <1>3, AfterNothing DEF RepoInv, TypeOK, StoreSound
  <2> QED
    BY <1>0, <1>3, <2>1, NoneFits, Assemble
<1> QED
  BY <1>2, <1>3 DEF CreateAgain, o

\* A caller builds an entity.
LEMMA BuildStep ==
    ASSUME RepoInv, NEW c \in Clients, NEW id \in Ids, Build(c, id)
    PROVE  RepoInv'
<1> DEFINE s == [version |-> 0, deleted |-> FALSE, value |-> 0]
<1>0. /\ pc[c] = "ready" /\ id \in CallerIds
      /\ entity' = [entity EXCEPT ![c] = Object(id, s)]
      /\ UNCHANGED <<store, past, index, pc, fetched, writes, faults, purged, gone, rewritten>>
      /\ writes \in 0..MaxWrites /\ MaxWrites \in Nat
      /\ store \in [Ids -> State \cup {None}]
  BY RepositoryAssumption DEF RepoInv, TypeOK, Build, history
<1>1. s \in State /\ Dated(s, writes) /\ s.version = 0
  BY <1>0 DEF State, Dated
<1> HIDE DEF s
<1>2. /\ StoreSound' /\ Governed' = Governed /\ Made' = Made
      /\ \A d \in Clients : FitsNext(entity[d]) /\ FitsNext(fetched[d])
  BY <1>0, AfterNothing DEF RepoInv, TypeOK, StoreSound
<1>3. id \notin Made
  BY <1>0 DEF Made
<1>4. id \in Governed /\ store[id] # None => ~(store[id].version <= 0)
  <2>1. store[id] # None => store[id].version \in Nat
    BY <1>0 DEF State
  <2> QED
    BY <2>1 DEF RepoInv, StoreDated
<1>5. Fits(Object(id, s), store, Governed, Made, writes)
  BY <1>1, <1>3, <1>4 DEF Fits, Object, Objects
<1>6. FitsNext(Object(id, s))
  BY <1>0, <1>2, <1>5 DEF FitsNext, Held
<1> QED
  BY <1>0, <1>2, <1>6, SameCall

\* The state that save() writes.
LEMMA SavedState ==
    ASSUME NEW t \in State, Dated(t, writes), writes \in 0..MaxWrites, Written
    PROVE  /\ Saved(t) \in State /\ Dated(Saved(t), writes')
           /\ Saved(t).version = t.version + 1
<1>0. writes < MaxWrites /\ writes' = writes + 1 /\ MaxWrites \in Nat /\ writes \in Nat
  BY RepositoryAssumption DEF Written
<1>1. Saved(t).version = t.version + 1 /\ Saved(t).value = writes + 1
  BY DEF Saved, State
<1>2. t.version \in Nat /\ t.version <= writes
  BY DEF State, Dated
<1>3. t.version + 1 \in 0..MaxWrites /\ writes + 1 \in 0..MaxWrites
  BY <1>0, <1>2
<1>4. Saved(t) \in State
  BY <1>3 DEF Saved, State
<1> QED
  BY <1>0, <1>1, <1>2, <1>4 DEF Dated

\* save() of an entity with an id.
LEMMA SaveStep ==
    ASSUME RepoInv, NEW c \in Clients, Save(c)
    PROVE  RepoInv'
<1> DEFINE o == entity[c]
           s == Saved(o.state)
<1>0. /\ pc[c] = "ready" /\ o # None
      /\ writes \in 0..MaxWrites /\ writes < MaxWrites /\ writes' = writes + 1
      /\ MaxWrites \in Nat
      /\ SetAllowed(o.id, o.state.version) /\ Overwrite(o.id, s)
      /\ UNCHANGED <<index, pc, fetched, purged, gone, rewritten>>
      /\ store \in [Ids -> State \cup {None}] /\ past \in [Ids -> Seq(State)]
  BY RepositoryAssumption DEF RepoInv, TypeOK, Save, Written, history
<1>1. /\ o.id \in Ids /\ o.state \in State /\ Dated(o.state, writes)
      /\ o.id \in Governed /\ store[o.id] = None => o.state.version = 0
  BY <1>0 DEF RepoInv, ObjectsFit, Held, Fits, Objects
<1>2. /\ s \in State /\ Dated(s, writes') /\ s.version = o.state.version + 1
  BY <1>0, <1>1, SavedState DEF Written
<1>3. Governed' = Governed /\ Made' = Made
  BY <1>0 DEF Governed, Made
<1> HIDE DEF o, s
<1>4. Writes(store, o.id, s, Governed')
  BY <1>0, <1>1, <1>2, <1>3 DEF Writes, SetAllowed
<1>5. writes' \in 0..MaxWrites /\ writes <= writes' /\ store' = [store EXCEPT ![o.id] = s]
  BY <1>0 DEF Overwrite
<1>6. /\ store' \in [Ids -> State \cup {None}] /\ StoreDated'
      /\ \A d \in Clients : FitsNext(entity[d]) /\ FitsNext(fetched[d])
  BY <1>0, <1>1, <1>2, <1>3, <1>4, <1>5, AfterWrite
<1>7. past' \in [Ids -> Seq(State)]
  BY <1>0, <1>1, PastTyped
<1>8. faults' \in 0..MaxFaults
  BY RepositoryAssumption DEF RepoInv, TypeOK, Save, Fault
<1>9. StoreSound'
  BY <1>0, <1>5, <1>6, <1>7, <1>8 DEF RepoInv, TypeOK, StoreSound
<1>10. store'[o.id] = s /\ s # None
  BY <1>0, <1>1, <1>2, <1>5, RepositoryAssumption
<1>11. FitsNext(Object(o.id, s)) /\ FitsNext(o)
  BY <1>1, <1>6, <1>10, NextStored DEF o
<1>12. entity' = [entity EXCEPT ![c] = Object(o.id, s)] \/ entity' = [entity EXCEPT ![c] = o]
  BY DEF Save, o, s, RepoInv, TypeOK
<1> QED
  BY <1>0, <1>6, <1>9, <1>11, <1>12, SameCall

\* find() and find_including_deleted().
LEMMA FindStep ==
    ASSUME RepoInv, NEW c \in Clients, NEW id \in Ids, Find(c, id)
    PROVE  RepoInv'
<1>0. /\ pc[c] = "ready" /\ store'[id] # None
      /\ entity' = [entity EXCEPT ![c] = Object(id, store'[id])]
      /\ UNCHANGED <<store, past, index, pc, fetched, writes, faults, purged, gone, rewritten>>
  BY DEF Find, history
<1>1. StoreSound' /\ \A d \in Clients : FitsNext(entity[d]) /\ FitsNext(fetched[d])
  BY <1>0, AfterNothing DEF RepoInv, TypeOK, StoreSound
<1>2. FitsNext(Object(id, store'[id]))
  BY <1>0, <1>1, NextStored DEF StoreSound
<1> QED
  BY <1>0, <1>1, <1>2, SameCall

\* delete() and restore() read.
LEMMA FetchStep ==
    ASSUME RepoInv, NEW c \in Clients, NEW id \in Ids, NEW next \in {"deleting", "restoring"},
           Fetch(c, id, next)
    PROVE  RepoInv'
<1>0. /\ store'[id] # None
      /\ fetched' = [fetched EXCEPT ![c] = Object(id, store'[id])]
      /\ pc' = [pc EXCEPT ![c] = next]
      /\ UNCHANGED <<store, past, index, entity, writes, faults, purged, gone, rewritten>>
      /\ store \in [Ids -> State \cup {None}]
  BY DEF Fetch, history, RepoInv, TypeOK
<1>1. StoreSound' /\ \A d \in Clients : FitsNext(entity[d]) /\ FitsNext(fetched[d])
  BY <1>0, AfterNothing DEF RepoInv, TypeOK, StoreSound
<1>2. FitsNext(Object(id, store'[id]))
  BY <1>0, <1>1, NextStored DEF StoreSound
<1>3. Object(id, store'[id]) # None
  <2>1. Object(id, store'[id]) \in Objects
    BY <1>0 DEF Object, Objects
  <2> QED
    BY <2>1, RepositoryAssumption
<1> QED
  BY <1>0, <1>1, <1>2, <1>3, SameEntity

\* The hash under a flag, when the script accepts it.
LEMMA FlaggedState ==
    ASSUME RepoInv, NEW f \in Objects, NEW flag \in BOOLEAN, Written,
           PartialSetAllowed(f.id, f.state.version), Overwrite(f.id, Flagged(f.id, f.state.version, flag)),
           UNCHANGED <<index, purged, gone, rewritten>>, faults' \in 0..MaxFaults
    PROVE  /\ StoreSound' /\ \A d \in Clients : FitsNext(entity[d]) /\ FitsNext(fetched[d])
           /\ Governed' = Governed /\ Made' = Made
           /\ store'[f.id] = [store[f.id] EXCEPT !.version = f.state.version + 1, !.deleted = flag]
           /\ store'[f.id] \in State /\ store[f.id] \in State
           /\ Dated(store'[f.id], writes')
<1> DEFINE id == f.id
           s == Flagged(id, f.state.version, flag)
<1>0. /\ id \in Ids /\ f.state \in State /\ store[id] # None
      /\ store[id].version = f.state.version
      /\ store \in [Ids -> State \cup {None}] /\ past \in [Ids -> Seq(State)]
      /\ store' = [store EXCEPT ![id] = s]
      /\ MaxWrites \in Nat /\ writes \in 0..MaxWrites /\ writes < MaxWrites /\ writes' = writes + 1
  BY RepositoryAssumption DEF RepoInv, TypeOK, Objects, PartialSetAllowed, Overwrite, Written
<1>1. store[id] \in State /\ Dated(store[id], writes)
  BY <1>0 DEF RepoInv, StoreDated
<1>2. s.version = store[id].version + 1 /\ s.value = store[id].value
  BY <1>0, <1>1 DEF Flagged, State
<1>3. /\ store[id].version \in Nat /\ store[id].value \in Nat
      /\ store[id].version <= writes /\ store[id].value <= writes
  BY <1>1 DEF State, Dated
<1>4. store[id].version + 1 \in 0..MaxWrites /\ store[id].value \in 0..MaxWrites
  BY <1>0, <1>3
<1>5. s \in State
  BY <1>0, <1>1, <1>4 DEF Flagged, State
<1>6. Dated(s, writes') /\ s.version = store[id].version + 1
  BY <1>0, <1>2, <1>3 DEF Dated
<1>7. Governed' = Governed /\ Made' = Made
  BY DEF Governed, Made
<1>8. past' \in [Ids -> Seq(State)]
  BY <1>0, PastTyped
<1>9. store'[id] = s /\ s = [store[id] EXCEPT !.version = f.state.version + 1, !.deleted = flag]
  BY <1>0 DEF Flagged
<1> HIDE DEF id, s
<1>10. Writes(store, id, s, Governed')
  BY <1>0, <1>5, <1>6 DEF Writes
<1>11. writes' \in 0..MaxWrites /\ writes <= writes'
  BY <1>0
<1>12. /\ store' \in [Ids -> State \cup {None}] /\ StoreDated'
       /\ \A d \in Clients : FitsNext(entity[d]) /\ FitsNext(fetched[d])
  BY <1>0, <1>6, <1>7, <1>10, <1>11, AfterWrite
<1>13. StoreSound'
  BY <1>8, <1>11, <1>12 DEF RepoInv, TypeOK, StoreSound
<1> QED
  BY <1>1, <1>5, <1>6, <1>7, <1>9, <1>12, <1>13 DEF id

\* delete() writes.
LEMMA DeleteStep ==
    ASSUME RepoInv, NEW c \in Clients, Delete(c)
    PROVE  RepoInv'
<1>1. fetched[c] \in Objects /\ faults' \in 0..MaxFaults
  BY DEF RepoInv, TypeOK, CallsHold, Delete
<1>2. StoreSound' /\ \A d \in Clients : FitsNext(entity[d]) /\ FitsNext(fetched[d])
  BY <1>1, FlaggedState DEF Delete, history
<1>3. /\ pc' = [pc EXCEPT ![c] = "ready"] /\ fetched' = [fetched EXCEPT ![c] = None]
      /\ UNCHANGED <<entity, purged>>
  BY DEF Delete, history
<1> QED
  BY <1>2, <1>3, NoneFits, SameEntity

\* restore() writes, and returns what it had read under the next version.
LEMMA RestoreStep ==
    ASSUME RepoInv, NEW c \in Clients, Restore(c)
    PROVE  RepoInv'
<1> DEFINE f == fetched[c]
           o == Object(f.id, [f.state EXCEPT !.version = @ + 1, !.deleted = FALSE])
<1>1. f \in Objects /\ faults' \in 0..MaxFaults /\ Held(f, store, Governed, Made, writes) /\ f # None
  BY RepositoryAssumption DEF RepoInv, TypeOK, CallsHold, ObjectsFit, Restore, Fault
<1>2. /\ pc' = [pc EXCEPT ![c] = "ready"] /\ fetched' = [fetched EXCEPT ![c] = None]
      /\ UNCHANGED <<index, purged, gone, rewritten>> /\ Written
      /\ PartialSetAllowed(f.id, f.state.version)
      /\ Overwrite(f.id, Flagged(f.id, f.state.version, FALSE))
      /\ entity' = [entity EXCEPT ![c] = o] \/ UNCHANGED entity
  BY DEF Restore, history
<1>3. /\ f.id \in Ids /\ f.state \in State /\ Dated(f.state, writes)
      /\ store[f.id] # None /\ store[f.id].version = f.state.version
      /\ writes \in 0..MaxWrites /\ writes < MaxWrites /\ writes' = writes + 1 /\ MaxWrites \in Nat
  BY <1>1, <1>2, RepositoryAssumption
  DEF Objects, Held, Fits, PartialSetAllowed, Written, RepoInv, TypeOK
<1> HIDE DEF f
<1>4. /\ StoreSound' /\ \A d \in Clients : FitsNext(entity[d]) /\ FitsNext(fetched[d])
      /\ Governed' = Governed /\ Made' = Made
      /\ store'[f.id] = [store[f.id] EXCEPT !.version = f.state.version + 1, !.deleted = FALSE]
      /\ store'[f.id] \in State /\ store[f.id] \in State
  BY <1>1, <1>2, FlaggedState
<1>5. /\ o.id = f.id /\ o.state.version = f.state.version + 1
      /\ o.state.value = f.state.value
  BY <1>3 DEF Object, State
<1>6. o \in Objects /\ Dated(o.state, writes')
  <2>1. /\ f.state.version \in Nat /\ f.state.value \in Nat
        /\ f.state.version <= writes /\ f.state.value <= writes
    BY <1>3 DEF State, Dated
  <2>2. f.state.version + 1 \in 0..MaxWrites /\ f.state.value \in 0..MaxWrites
    BY <1>3, <2>1
  <2>3. o.state \in State
    BY <1>3, <2>2 DEF Object, State
  <2>4. o \in Objects
    BY <1>3, <2>3 DEF Object, Objects
  <2> QED
    BY <1>3, <1>5, <2>1, <2>4 DEF Dated
<1>7. store'[f.id] # None
  BY <1>4, RepositoryAssumption
<1>8. f.id \in Governed => o.state = store'[f.id]
  <2>1. ASSUME f.id \in Governed PROVE f.state = store[f.id]
    <3>1. f.state.version \in Nat
      BY <1>3 DEF State
    <3> QED
      BY <1>1, <1>3, <2>1, <3>1 DEF Held, Fits
  <2> QED
    BY <1>4, <2>1 DEF Object
<1> HIDE DEF o
<1>9. FitsNext(o)
  BY <1>4, <1>5, <1>6, <1>7, <1>8 DEF FitsNext, Held, Fits
<1>10. CASE entity' = [entity EXCEPT ![c] = o]
  BY <1>2, <1>4, <1>9, <1>10, NoneFits, Assemble
<1>11. CASE UNCHANGED entity
  BY <1>2, <1>4, <1>11, NoneFits, SameEntity
<1> QED
  BY <1>2, <1>10, <1>11

\* A call that ends, or goes on, without a write.
LEMMA AbandonStep ==
    ASSUME RepoInv, NEW c \in Clients, Abandon(c) \/ PurgeBroken(c)
    PROVE  RepoInv'
<1>1. /\ pc' = [pc EXCEPT ![c] = "ready"] /\ fetched' = [fetched EXCEPT ![c] = None]
      /\ UNCHANGED <<store, past, index, entity, writes, purged, gone, rewritten>>
      /\ faults' \in 0..MaxFaults
  BY RepositoryAssumption DEF Abandon, PurgeBroken, history, Fault, RepoInv, TypeOK
<1>2. StoreSound' /\ \A d \in Clients : FitsNext(entity[d]) /\ FitsNext(fetched[d])
  BY <1>1, AfterNothing DEF RepoInv, TypeOK, StoreSound
<1> QED
  BY <1>1, <1>2, NoneFits, SameEntity

\* hard_delete() deletes the key.
LEMMA PurgeKeyStep ==
    ASSUME RepoInv, NEW c \in Clients, NEW id \in Ids, PurgeKey(c, id)
    PROVE  RepoInv'
<1> DEFINE o == Object(id, [version |-> 0, deleted |-> TRUE, value |-> 0])
<1>1. /\ store' = [store EXCEPT ![id] = None] /\ purged' = purged \cup {id}
      /\ fetched' = [fetched EXCEPT ![c] = o] /\ pc' = [pc EXCEPT ![c] = "purge_past"]
      /\ UNCHANGED <<past, index, entity, writes, faults, gone, rewritten>>
      /\ store \in [Ids -> State \cup {None}] /\ writes \in 0..MaxWrites /\ MaxWrites \in Nat
  BY RepositoryAssumption DEF PurgeKey, RepoInv, TypeOK
<1>2. /\ Governed' \subseteq Governed /\ Made' \subseteq Made
      /\ id \notin Governed' /\ id \notin Made' /\ Governed' \subseteq Ids /\ Made' \subseteq Ids
  BY <1>1 DEF Governed, Made
<1>3. \A i \in Governed' \cup Made' : store'[i] = store[i]
  BY <1>1, <1>2
<1>4. \A d \in Clients : FitsNext(entity[d]) /\ FitsNext(fetched[d])
  <2>1. ASSUME NEW x, Held(x, store, Governed, Made, writes) PROVE FitsNext(x)
    BY <1>1, <1>2, <1>3, <2>1, FitsAfterLoss DEF FitsNext
  <2> QED
    BY <2>1 DEF RepoInv, ObjectsFit
<1>5. StoreDated'
  BY <1>1, <1>2 DEF RepoInv, StoreDated
<1>6. StoreSound'
  BY <1>1, <1>5 DEF RepoInv, TypeOK, StoreSound
<1>7. o \in Objects /\ o # None /\ Dated(o.state, writes') /\ o.id = id
  <2>1. o \in Objects
    BY <1>1 DEF Object, Objects, State
  <2>2. Dated(o.state, writes')
    BY <1>1 DEF Dated, Object
  <2> QED
    BY <2>1, <2>2, RepositoryAssumption DEF Object
<1> HIDE DEF o
<1>8. FitsNext(o)
  BY <1>2, <1>7 DEF FitsNext, Held, Fits
<1> QED
  BY <1>1, <1>4, <1>6, <1>7, <1>8, SameEntity

\* hard_delete() deletes the history.
LEMMA PurgePastStep ==
    ASSUME RepoInv, NEW c \in Clients, PurgePast(c)
    PROVE  RepoInv'
<1>1. /\ past' = [past EXCEPT ![fetched[c].id] = <<>>]
      /\ pc' = [pc EXCEPT ![c] = "purge_index"]
      /\ UNCHANGED <<store, index, entity, fetched, writes, faults, purged, gone, rewritten>>
      /\ fetched[c] # None /\ fetched[c].id \in purged'
      /\ fetched' = [fetched EXCEPT ![c] = fetched[c]]
  BY DEF PurgePast, history, RepoInv, TypeOK, CallsHold
<1>2. past' \in [Ids -> Seq(State)]
  BY <1>1 DEF RepoInv, TypeOK
<1>3. StoreSound' /\ \A d \in Clients : FitsNext(entity[d]) /\ FitsNext(fetched[d])
  BY <1>1, <1>2, AfterNothing DEF RepoInv, TypeOK, StoreSound
<1> QED
  BY <1>1, <1>3, SameEntity

\* hard_delete() removes the id from the index.
LEMMA PurgeIndexStep ==
    ASSUME RepoInv, NEW c \in Clients, PurgeIndex(c)
    PROVE  RepoInv'
<1>1. /\ index' = index \ {fetched[c].id} /\ gone' = gone \cup {fetched[c].id}
      /\ pc' = [pc EXCEPT ![c] = "ready"] /\ fetched' = [fetched EXCEPT ![c] = None]
      /\ UNCHANGED <<store, past, entity, writes, faults, purged, rewritten>>
      /\ fetched[c].id \in purged
  BY DEF PurgeIndex, RepoInv, TypeOK, CallsHold
<1>2. StoreSound' /\ \A d \in Clients : FitsNext(entity[d]) /\ FitsNext(fetched[d])
  BY <1>1, AfterNothing DEF RepoInv, TypeOK, StoreSound
<1> QED
  BY <1>1, <1>2, NoneFits, SameEntity

----------------------------------------------------------------------------
(* The theorems *)

\* The invariant holds in every state.
LEMMA RepoInvariance == Spec => []RepoInv
<1>1. Init => RepoInv
  BY RepositoryAssumption
  DEF Init, RepoInv, TypeOK, StoreDated, ObjectsFit, Held, CallsHold
<1>2. RepoInv /\ [Next]_vars => RepoInv'
  <2> SUFFICES ASSUME RepoInv, [Next]_vars PROVE RepoInv'
    OBVIOUS
  <2>1. CASE UNCHANGED vars
    BY <2>1 DEF vars, RepoInv, TypeOK, StoreDated, ObjectsFit, CallsHold, Governed, Made
  <2>2. CASE Next
    BY <2>2, CreateStep, BuildStep, FindStep, PurgeKeyStep, FetchStep, CreateAgainStep, SaveStep,
       DeleteStep, RestoreStep, AbandonStep, PurgePastStep, PurgeIndexStep DEF Next
  <2> QED
    BY <2>1, <2>2
<1> QED
  BY <1>1, <1>2, PTL DEF Spec

\* The type invariant: versions and values stay within the number of writes.
THEOREM TypeCorrect == Spec => []TypeOK
<1>1. RepoInv => TypeOK
  BY DEF RepoInv
<1> QED
  BY <1>1, RepoInvariance, PTL

\* Under optimistic locking a version names one state, and no client is ahead of the
\* store: a save that is accepted overwrites nothing its caller has not seen.
THEOREM VersionsNameStates == Spec => []VersionNamesState
<1>1. RepoInv => VersionNamesState
  BY DEF RepoInv, ObjectsFit, Held, Fits, VersionNamesState
<1> QED
  BY <1>1, RepoInvariance, PTL

----------------------------------------------------------------------------
(* The life of an id *)

\* What a step does to a governed id: nothing, its first write, or the next version, with
\* the state before it put in front of its history.
NextVersion(id) ==
    \/ store'[id] = store[id] /\ past'[id] = past[id]
    \/ store[id] = None /\ past'[id] = past[id] /\ store'[id].version = 1
    \/ /\ store[id] # None /\ store'[id] # None
       /\ past'[id] = Trim(<<store[id]>> \o past[id])
       /\ store'[id].version = store[id].version + 1

\* Every step does one of the three.
LEMMA GovernedStep ==
    ASSUME RepoInv, [Next]_vars, NEW id \in Governed'
    PROVE  NextVersion(id)
<1>0. /\ store \in [Ids -> State \cup {None}] /\ past \in [Ids -> Seq(State)]
      /\ id \in Ids /\ id \notin purged' /\ id \notin rewritten'
  BY DEF RepoInv, TypeOK, Governed
<1>1. CASE UNCHANGED <<store, past>>
  BY <1>1 DEF NextVersion
<1>2. ASSUME NEW c \in Clients, NEW i \in Ids, Create(c, i) PROVE NextVersion(id)
  BY <1>0, <1>2 DEF Create, Insert, NextVersion
<1>3. ASSUME NEW c \in Clients, CreateAgain(c) PROVE NextVersion(id)
  BY <1>0, <1>3 DEF CreateAgain, Insert, NextVersion
<1>4. ASSUME NEW c \in Clients, Save(c) PROVE NextVersion(id)
  <2> DEFINE o == entity[c]
             s == Saved(o.state)
  <2>1. /\ o # None /\ SetAllowed(o.id, o.state.version) /\ Overwrite(o.id, s)
        /\ UNCHANGED <<purged, rewritten>> /\ Written /\ writes \in 0..MaxWrites
    BY <1>4 DEF Save, history, RepoInv, TypeOK
  <2>2. /\ o.id \in Ids /\ o.state \in State /\ Dated(o.state, writes)
        /\ o.id \in Governed /\ store[o.id] = None => o.state.version = 0
    BY <2>1 DEF RepoInv, ObjectsFit, Held, Fits, Objects
  <2>3. s.version = o.state.version + 1 /\ s # None
    BY <2>1, <2>2, SavedState, RepositoryAssumption
  <2>4. id \in Governed
    BY <1>0, <2>1 DEF Governed
  <2> HIDE DEF o, s
  <2>5. CASE o.id = id
    BY <1>0, <2>1, <2>2, <2>3, <2>4, <2>5 DEF Overwrite, SetAllowed, NextVersion
  <2>6. CASE o.id # id
    BY <1>0, <2>1, <2>6 DEF Overwrite, NextVersion
  <2> QED
    BY <2>5, <2>6
<1>5. ASSUME NEW c \in Clients, Delete(c) \/ Restore(c) PROVE NextVersion(id)
  <2> DEFINE f == fetched[c]
  <2>1. /\ f # None /\ PartialSetAllowed(f.id, f.state.version)
        /\ \E flag \in BOOLEAN : Overwrite(f.id, Flagged(f.id, f.state.version, flag))
        /\ UNCHANGED <<index, purged, gone, rewritten>> /\ Written /\ faults' \in 0..MaxFaults
    <3>1. fetched[c] # None
      BY <1>5 DEF Delete, Restore, RepoInv, CallsHold
    <3>2. UNCHANGED <<index, purged, gone, rewritten>> /\ Written
      BY <1>5 DEF Delete, Restore, history
    <3>3. faults' \in 0..MaxFaults
      <4>1. Fault \/ UNCHANGED faults
        BY <1>5 DEF Delete, Restore
      <4> QED
        BY <4>1, FaultsTyped
    <3>4. CASE Delete(c)
      BY <3>1, <3>2, <3>3, <3>4 DEF Delete
    <3>5. CASE Restore(c)
      BY <3>1, <3>2, <3>3, <3>5 DEF Restore
    <3> QED
      BY <1>5, <3>4, <3>5
  <2>2. f \in Objects /\ f.id \in Ids /\ f.state \in State
    BY <2>1 DEF RepoInv, ObjectsFit, Held, Fits, Objects
  <2> HIDE DEF f
  <2>3. PICK flag \in BOOLEAN : Overwrite(f.id, Flagged(f.id, f.state.version, flag))
    BY <2>1
  <2>4. store[f.id] # None /\ store[f.id] \in State /\ store[f.id].version = f.state.version
    BY <1>0, <2>1, <2>2 DEF PartialSetAllowed
  <2>5. Flagged(f.id, f.state.version, flag).version = store[f.id].version + 1
    BY <2>4 DEF Flagged, State
  <2>8. store'[f.id] # None
    BY <2>1, <2>2, <2>3, FlaggedState, RepositoryAssumption
  <2>6. CASE f.id = id
    BY <1>0, <2>3, <2>4, <2>5, <2>6, <2>8 DEF Overwrite, NextVersion
  <2>7. CASE f.id # id
    BY <1>0, <2>3, <2>7 DEF Overwrite, NextVersion
  <2> QED
    BY <2>6, <2>7
<1>6. ASSUME NEW c \in Clients, NEW i \in Ids, PurgeKey(c, i) PROVE NextVersion(id)
  BY <1>0, <1>6 DEF PurgeKey, NextVersion
<1>7. ASSUME NEW c \in Clients, PurgePast(c) PROVE NextVersion(id)
  <2>1. fetched[c].id \in purged'
    BY <1>7 DEF PurgePast, RepoInv, CallsHold, history
  <2> QED
    BY <1>0, <1>7, <2>1 DEF PurgePast, NextVersion
<1>8. ASSUME NEW c \in Clients,
             \/ \E i \in Ids : Build(c, i) \/ Find(c, i)
             \/ \E i \in Ids : \E next \in {"deleting", "restoring"} : Fetch(c, i, next)
             \/ Abandon(c) \/ PurgeIndex(c) \/ PurgeBroken(c)
      PROVE  NextVersion(id)
  BY <1>1, <1>8 DEF Build, Find, Fetch, Abandon, PurgeIndex, PurgeBroken
<1>9. CASE UNCHANGED vars
  BY <1>1, <1>9 DEF vars
<1> QED
  BY <1>2, <1>3, <1>4, <1>5, <1>6, <1>7, <1>8, <1>9 DEF Next

\* An entity changes by one version at a time, whoever saves, deletes and restores it
\* between the reads and the writes of others.
THEOREM OneVersion == Spec => OneVersionAtATime
<1>1. RepoInv /\ [Next]_vars =>
        [\A id \in Ids : (id \in Governed' /\ store[id] # None /\ store'[id] # store[id])
            => store'[id].version = store[id].version + 1]_vars
  BY GovernedStep DEF NextVersion
<1> QED
  BY <1>1, RepoInvariance, PTL DEF Spec, OneVersionAtATime

\* An id is governed until it is not any more.
LEMMA GovernedBefore == ASSUME RepoInv, [Next]_vars PROVE Governed' \subseteq Governed
<1>1. purged \subseteq purged' /\ rewritten \subseteq rewritten'
  BY DEF Next, Create, CreateAgain, Build, Save, Find, Fetch, Abandon, Delete, Restore, PurgeKey,
         PurgePast, PurgeIndex, PurgeBroken, history, vars
<1> QED
  BY <1>1 DEF Governed

\* The history list of a governed id: empty until the second write, then as
\* HistoryIsComplete says.
Chronicled(id) ==
    IF store[id] = None THEN past[id] = <<>>
    ELSE /\ \A i \in DOMAIN past[id] : past[id][i].version = store[id].version - i
         /\ Len(past[id]) = IF MaxHistory > 0 /\ store[id].version > MaxHistory
                            THEN MaxHistory ELSE store[id].version - 1

\* Every step leaves the list complete.
LEMMA ChronicleStep ==
    ASSUME RepoInv, RepoInv', [Next]_vars, NEW id \in Governed', Chronicled(id)
    PROVE  Chronicled(id)'
<1>0. /\ store[id] \in State \cup {None} /\ past[id] \in Seq(State) /\ MaxHistory \in Int
      /\ store'[id] \in State \cup {None} /\ past'[id] \in Seq(State)
      /\ id \in Ids
  BY RepositoryAssumption DEF RepoInv, TypeOK, Governed
<1>1. NextVersion(id)
  BY GovernedStep
<1>2. CASE store'[id] = store[id] /\ past'[id] = past[id]
  BY <1>2 DEF Chronicled
<1>3. CASE store[id] = None /\ past'[id] = past[id] /\ store'[id].version = 1
  <2>1. past'[id] = <<>>
    BY <1>3 DEF Chronicled
  <2> QED
    BY <1>0, <1>3, <2>1 DEF Chronicled
<1>4. ASSUME store[id] # None, store'[id] # None, past'[id] = Trim(<<store[id]>> \o past[id]),
             store'[id].version = store[id].version + 1
      PROVE  Chronicled(id)'
  <2> DEFINE v == store[id].version
             list == <<store[id]>> \o past[id]
  <2>1. v \in Nat /\ v >= 1
    BY <1>0, <1>4, GovernedBefore DEF State, RepoInv, StoreDated
  <2>2. /\ \A i \in 1 .. Len(past[id]) : past[id][i].version = v - i
        /\ Len(past[id]) = IF MaxHistory > 0 /\ v > MaxHistory THEN MaxHistory ELSE v - 1
    BY <1>0, <1>4 DEF Chronicled
  <2>3. /\ list \in Seq(State) /\ Len(list) = Len(past[id]) + 1
        /\ list[1] = store[id] /\ \A i \in 1 .. Len(past[id]) : list[i + 1] = past[id][i]
    BY <1>0, <1>4
  <2> HIDE DEF list
  <2>4. \A i \in 1 .. Len(list) : list[i].version = (v + 1) - i
    <3> SUFFICES ASSUME NEW i \in 1 .. Len(list) PROVE list[i].version = (v + 1) - i
      OBVIOUS
    <3>1. CASE i = 1
      BY <2>1, <2>3, <3>1
    <3>2. CASE i # 1
      <4>1. PICK k \in 1 .. Len(past[id]) : i = k + 1
        BY <1>0, <2>3, <3>2
      <4>2. list[i].version = v - k
        BY <2>2, <2>3, <4>1
      <4>3. Len(past[id]) \in Nat
        BY <1>0
      <4>4. k \in Int
        BY <4>3
      <4>5. v - k = (v + 1) - (k + 1)
        BY <2>1, <4>4
      <4> QED
        BY <4>1, <4>2, <4>5
    <3> QED
      BY <3>1, <3>2
  <2>5. CASE MaxHistory > 0 /\ Len(list) > MaxHistory
    <3>1. \A i \in 1 .. MaxHistory : list[i] \in State
      BY <1>0, <2>3, <2>5
    <3>2. /\ Len(past'[id]) = MaxHistory
          /\ \A i \in 1 .. MaxHistory : past'[id][i] = list[i]
      BY <1>0, <1>4, <2>5, <3>1, SubSeqProperties DEF Trim, list
    <3>3. v + 1 > MaxHistory
      BY <1>0, <2>1, <2>2, <2>3, <2>5
    <3>4. \A i \in DOMAIN past'[id] : past'[id][i].version = (v + 1) - i
      <4>1. DOMAIN past'[id] = 1 .. MaxHistory
        BY <1>0, <3>2
      <4>2. \A i \in 1 .. MaxHistory : i \in 1 .. Len(list)
        BY <1>0, <2>3, <2>5
      <4> QED
        BY <2>4, <3>2, <4>1, <4>2
    <3> QED
      BY <1>0, <1>4, <2>5, <3>2, <3>3, <3>4 DEF Chronicled
  <2>6. CASE ~(MaxHistory > 0 /\ Len(list) > MaxHistory)
    <3>1. past'[id] = list
      BY <1>4, <2>6 DEF Trim, list
    <3>2. Len(list) = IF MaxHistory > 0 /\ v + 1 > MaxHistory THEN MaxHistory ELSE v
      BY <1>0, <2>1, <2>2, <2>3, <2>6
    <3>3. \A i \in DOMAIN past'[id] : past'[id][i].version = (v + 1) - i
      BY <2>3, <2>4, <3>1
    <3>4. (v + 1) - 1 = v
      BY <2>1
    <3> QED
      BY <1>4, <3>1, <3>2, <3>3, <3>4 DEF Chronicled
  <2> QED
    BY <2>5, <2>6
<1> QED
  BY <1>1, <1>2, <1>3, <1>4 DEF NextVersion

\* The history of an entity misses no state and has none twice, as far back as max_history
\* goes.
THEOREM HistoryComplete == Spec => []HistoryIsComplete
<1> DEFINE Inv == \A id \in Governed : Chronicled(id)
<1>1. Init => Inv
  BY DEF Init, Governed, Chronicled
<1>2. RepoInv /\ RepoInv' /\ Inv /\ [Next]_vars => Inv'
  <2> SUFFICES ASSUME RepoInv, RepoInv', Inv, [Next]_vars, NEW id \in Governed'
               PROVE  Chronicled(id)'
    OBVIOUS
  <2>1. Chronicled(id)
    BY GovernedBefore
  <2> QED
    BY <2>1, ChronicleStep
<1>3. Inv => HistoryIsComplete
  BY DEF Chronicled, HistoryIsComplete
<1> QED
  BY <1>1, <1>2, <1>3, RepoInvariance, PTL DEF Spec

\* find_all() misses no entity that save() named and lists none that is gone.
THEOREM IndexComplete == Spec => []IndexIsComplete
<1>1. Init => IndexIsComplete
  BY DEF Init, IndexIsComplete
<1>2. RepoInv /\ IndexIsComplete /\ [Next]_vars => IndexIsComplete'
  <2> SUFFICES ASSUME RepoInv, \A i \in Made : store[i] # None <=> i \in index, [Next]_vars,
                      NEW id \in Made'
               PROVE  store'[id] # None <=> id \in index'
    BY DEF IndexIsComplete, Made
  <2>0. /\ store \in [Ids -> State \cup {None}] /\ entity \in [Clients -> Objects \cup {None}]
        /\ id \in Made /\ id \notin purged' /\ id \notin CallerIds /\ id \in Ids
        /\ writes \in 0..MaxWrites /\ MaxWrites \in Nat /\ None \notin State
    <3>1. purged \subseteq purged'
      BY DEF Next, Create, CreateAgain, Build, Save, Find, Fetch, Abandon, Delete, Restore,
             PurgeKey, PurgePast, PurgeIndex, PurgeBroken, history, vars
    <3> QED
      BY <3>1, RepositoryAssumption DEF RepoInv, TypeOK, Made
  <2>1. CASE UNCHANGED <<store, index>>
    BY <2>0, <2>1
  <2>2. ASSUME NEW c \in Clients, NEW i \in Ids, Create(c, i)
        PROVE  store'[id] # None <=> id \in index'
    <3> DEFINE t == [version |-> 1, deleted |-> FALSE, value |-> writes + 1]
    <3>1. store' = [store EXCEPT ![i] = t] /\ index' = index \cup {i} /\ writes < MaxWrites
      BY <2>2 DEF Create, Insert, Written
    <3>2. t \in State
      BY <2>0, <3>1 DEF State
    <3> HIDE DEF t
    <3> QED
      BY <2>0, <3>1, <3>2
  <2>3. ASSUME NEW c \in Clients, CreateAgain(c)
        PROVE  store'[id] # None <=> id \in index'
    <3>1. entity[c] \in Objects
      BY <2>0, <2>3 DEF CreateAgain, RepoInv, CallsHold
    <3>2. entity[c].id \in Ids /\ entity[c].state \in State
      BY <3>1 DEF Objects
    <3> QED
      BY <2>0, <2>1, <2>3, <3>2 DEF CreateAgain, Insert
  <2>4. ASSUME NEW c \in Clients, Save(c)
        PROVE  store'[id] # None <=> id \in index'
    <3> DEFINE o == entity[c]
    <3>1. o # None /\ Overwrite(o.id, Saved(o.state)) /\ Written /\ UNCHANGED index
      BY <2>4 DEF Save
    <3>2. /\ o.id \in Ids /\ o.state \in State /\ Dated(o.state, writes)
          /\ o.id \in Made => store[o.id] # None
      BY <3>1 DEF RepoInv, ObjectsFit, Held, Fits, Objects
    <3>3. Saved(o.state) \in State
      BY <2>0, <3>1, <3>2, SavedState
    <3> HIDE DEF o
    <3> QED
      BY <2>0, <3>1, <3>2, <3>3 DEF Overwrite
  <2>5. ASSUME NEW c \in Clients, Delete(c) \/ Restore(c)
        PROVE  store'[id] # None <=> id \in index'
    <3> DEFINE f == fetched[c]
    <3>1. /\ f # None /\ UNCHANGED <<index, purged, gone, rewritten>> /\ Written
          /\ PartialSetAllowed(f.id, f.state.version)
      BY <2>5 DEF Delete, Restore, history, RepoInv, CallsHold
    <3>2. faults' \in 0..MaxFaults
      <4>1. Fault \/ UNCHANGED faults
        BY <2>5 DEF Delete, Restore
      <4> QED
        BY <4>1, FaultsTyped
    <3>3. \E flag \in BOOLEAN : Overwrite(f.id, Flagged(f.id, f.state.version, flag))
      BY <2>5 DEF Delete, Restore
    <3>4. f \in Objects /\ f.id \in Ids
      BY <3>1 DEF RepoInv, ObjectsFit, Held, Fits, Objects
    <3> HIDE DEF f
    <3>5. PICK flag \in BOOLEAN : Overwrite(f.id, Flagged(f.id, f.state.version, flag))
      BY <3>3
    <3>6. store'[f.id] \in State
      BY <3>1, <3>2, <3>4, <3>5, FlaggedState
    <3> QED
      BY <2>0, <3>1, <3>4, <3>5, <3>6 DEF Overwrite, PartialSetAllowed
  <2>6. ASSUME NEW c \in Clients, NEW i \in Ids, PurgeKey(c, i)
        PROVE  store'[id] # None <=> id \in index'
    BY <2>0, <2>6 DEF PurgeKey
  <2>7. ASSUME NEW c \in Clients, PurgeIndex(c)
        PROVE  store'[id] # None <=> id \in index'
    <3>1. fetched[c].id \in purged'
      BY <2>7 DEF PurgeIndex, RepoInv, CallsHold
    <3> QED
      BY <2>0, <2>7, <3>1 DEF PurgeIndex
  <2>8. ASSUME NEW c \in Clients,
               \/ \E i \in Ids : Build(c, i) \/ Find(c, i)
               \/ \E i \in Ids : \E next \in {"deleting", "restoring"} : Fetch(c, i, next)
               \/ Abandon(c) \/ PurgePast(c) \/ PurgeBroken(c)
        PROVE  store'[id] # None <=> id \in index'
    BY <2>1, <2>8 DEF Build, Find, Fetch, Abandon, PurgePast, PurgeBroken
  <2>9. CASE UNCHANGED vars
    BY <2>1, <2>9 DEF vars
  <2> QED
    BY <2>2, <2>3, <2>4, <2>5, <2>6, <2>7, <2>8, <2>9 DEF Next
<1> QED
  BY <1>1, <1>2, RepoInvariance, PTL DEF Spec
=============================================================================
