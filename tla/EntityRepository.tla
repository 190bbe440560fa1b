-------------------------- MODULE EntityRepository --------------------------
(***************************************************************************)
(* Repository and AsyncRepository: clients that create, read, save,        *)
(* soft-delete, restore and hard-delete the entities of one model class,   *)
(* each stored in a hash beside a history list and an index set            *)
(* (redis_kit/repository/repository.py and _lua.py).                       *)
(*                                                                         *)
(* An entity is its version, its deleted flag and a value that stands for  *)
(* every other field: each save writes a value never written before.       *)
(***************************************************************************)
EXTENDS Integers, SequencesExt

CONSTANTS
    Clients,
    Ids,
    CallerIds,   \* the ids that callers choose; the others are uuids of save()
    MaxHistory,  \* max_history; -1 stands for None
    MaxWrites,   \* bound: successful writes
    MaxFaults,   \* bound: lost replies and connections
    None

State == [version : 0..MaxWrites, deleted : BOOLEAN, value : 0..MaxWrites]
Objects == [id : Ids, state : State]
Object(id, s) == [id |-> id, state |-> s]

ASSUME RepositoryAssumption ==
    /\ CallerIds \subseteq Ids
    /\ MaxHistory \in Int /\ MaxWrites \in Nat /\ MaxFaults \in Nat
    /\ None \notin State \cup Objects

VARIABLES
    store,     \* the hash of each id, None when there is no key
    past,      \* its history list, newest first
    index,     \* the index set
    pc,        \* what each client's call under way will send next
    entity,    \* the entity object each client holds
    fetched,   \* the hash that delete() or restore() has read
    writes, faults,
    purged,    \* history: ids for which a hard_delete has begun
    gone,      \* history: ids for which a hard_delete has returned
    rewritten  \* history: a creation was sent twice

vars == <<store, past, index, pc, entity, fetched, writes, faults, purged, gone, rewritten>>
client == <<pc, entity, fetched>>
history == <<purged, gone, rewritten>>

TypeOK ==
    /\ store \in [Ids -> State \cup {None}]
    /\ past \in [Ids -> Seq(State)]
    /\ index \subseteq Ids
    /\ pc \in [Clients -> {"ready", "creating", "deleting", "restoring", "purge_past", "purge_index"}]
    /\ entity \in [Clients -> Objects \cup {None}]
    /\ fetched \in [Clients -> Objects \cup {None}]
    /\ writes \in 0..MaxWrites /\ faults \in 0..MaxFaults
    /\ purged \subseteq Ids /\ gone \subseteq purged
    /\ rewritten \subseteq Ids

Init ==
    /\ store = [id \in Ids |-> None]
    /\ past = [id \in Ids |-> <<>>]
    /\ index = {}
    /\ pc = [c \in Clients |-> "ready"]
    /\ entity = [c \in Clients |-> None]
    /\ fetched = [c \in Clients |-> None]
    /\ writes = 0 /\ faults = 0
    /\ purged = {} /\ gone = {} /\ rewritten = {}

----------------------------------------------------------------------------
(* The scripts *)

Fault == faults < MaxFaults /\ faults' = faults + 1
Written == writes < MaxWrites /\ writes' = writes + 1

\* Mutants: ltrim one entry too far, and no history.
ShortTrim(list) == IF MaxHistory > 0 THEN SubSeq(list, 1, MaxHistory - 1) ELSE list

\* max_history of 0 trims nothing, like None.
Trim(list) ==
    IF MaxHistory > 0 /\ Len(list) > MaxHistory THEN SubSeq(list, 1, MaxHistory) ELSE list

\* Mutant: the version is not compared.
SetAnyVersion(id, expected) == TRUE

\* OPTIMISTIC_LOCK_SET accepts any version when the key is missing.
SetAllowed(id, expected) == store[id] # None => store[id].version = expected

\* Mutant: the stored version may be newer.
PartialSetNotOlder(id, expected) == store[id] # None /\ store[id].version >= expected

\* OPTIMISTIC_LOCK_PARTIAL_SET refuses a missing key.
PartialSetAllowed(id, expected) == store[id] # None /\ store[id].version = expected

\* Both scripts write the hash and push the state they replace.
Overwrite(id, s) ==
    /\ store' = [store EXCEPT ![id] = s]
    /\ past' = [past EXCEPT ![id] = IF store[id] = None THEN @ ELSE Trim(<<store[id]>> \o @)]

----------------------------------------------------------------------------
(* save() *)

\* Mutant: SADD is forgotten.
UnlistedInsert(id, s) == store' = [store EXCEPT ![id] = s] /\ UNCHANGED index

\* MULTI: HSET and SADD.
Insert(id, s) ==
    /\ store' = [store EXCEPT ![id] = s]
    /\ index' = index \cup {id}

\* An entity without an id is given a fresh one and version 1.
Create(c, id) ==
    /\ pc[c] = "ready"
    /\ id \notin CallerIds \cup index \cup purged /\ store[id] = None
    /\ Written
    /\ LET s == [version |-> 1, deleted |-> FALSE, value |-> writes + 1] IN
        /\ Insert(id, s)
        /\ \/ /\ entity' = [entity EXCEPT ![c] = Object(id, s)]
              /\ UNCHANGED <<pc, faults>>
           \/ \* the reply is lost: the driver may send the MULTI again
              /\ Fault
              /\ entity' = [entity EXCEPT ![c] = Object(id, s)]
              /\ pc' = [pc EXCEPT ![c] = "creating"]
    /\ UNCHANGED <<past, fetched, history>>

\* Sent again, the HSET overwrites whatever was saved meanwhile; or save() raises.
CreateAgain(c) ==
    /\ pc[c] = "creating"
    /\ pc' = [pc EXCEPT ![c] = "ready"]
    /\ \/ /\ Insert(entity[c].id, entity[c].state)
          /\ rewritten' = rewritten \cup {entity[c].id}
          /\ UNCHANGED entity
       \/ /\ entity' = [entity EXCEPT ![c] = None]
          /\ UNCHANGED <<store, index, rewritten>>
    /\ UNCHANGED <<past, fetched, writes, faults, purged, gone>>

\* A caller builds an entity with an id of its own, version 0.
Build(c, id) ==
    /\ pc[c] = "ready"
    /\ id \in CallerIds
    /\ entity' = [entity EXCEPT ![c] = Object(id, [version |-> 0, deleted |-> FALSE, value |-> 0])]
    /\ UNCHANGED <<store, past, index, pc, fetched, writes, faults, history>>

Saved(s) == [s EXCEPT !.version = @ + 1, !.value = writes + 1]

\* An entity with an id is written if its version is the stored one.  When the
\* reply is lost the caller keeps its old object, and so does the driver that sends
\* the script again: to it the version then conflicts with its own write.
Save(c) ==
    /\ pc[c] = "ready" /\ entity[c] # None
    /\ LET e == entity[c] IN
        /\ SetAllowed(e.id, e.state.version)
        /\ Written
        /\ Overwrite(e.id, Saved(e.state))
        /\ \/ /\ entity' = [entity EXCEPT ![c] = Object(e.id, Saved(e.state))]
              /\ UNCHANGED faults
           \/ Fault /\ UNCHANGED entity
    /\ UNCHANGED <<index, pc, fetched, history>>

----------------------------------------------------------------------------
(* Reading *)

\* find() hides a soft-deleted entity; find_including_deleted() does not.
Find(c, id) ==
    /\ pc[c] = "ready"
    /\ store[id] # None
    /\ entity' = [entity EXCEPT ![c] = Object(id, store[id])]
    /\ UNCHANGED <<store, past, index, pc, fetched, writes, faults, history>>

\* delete() and restore() read the hash first.
Fetch(c, id, next) ==
    /\ pc[c] = "ready"
    /\ store[id] # None
    /\ (next = "restoring") => store[id].deleted
    /\ fetched' = [fetched EXCEPT ![c] = Object(id, store[id])]
    /\ pc' = [pc EXCEPT ![c] = next]
    /\ UNCHANGED <<store, past, index, entity, writes, faults, history>>

----------------------------------------------------------------------------
(* delete(), restore(), hard_delete() *)

\* The version was fetched, the fields that stay are Redis's.
Flagged(id, version, flag) == [store[id] EXCEPT !.version = version + 1, !.deleted = flag]

\* OptimisticLockError, or an error of the driver before the script ran.
Abandon(c) ==
    /\ pc[c] \in {"deleting", "restoring"}
    /\ \/ ~PartialSetAllowed(fetched[c].id, fetched[c].state.version) /\ UNCHANGED faults
       \/ Fault
    /\ pc' = [pc EXCEPT ![c] = "ready"]
    /\ fetched' = [fetched EXCEPT ![c] = None]
    /\ UNCHANGED <<store, past, index, entity, writes, history>>

Delete(c) ==
    /\ pc[c] = "deleting"
    /\ LET f == fetched[c] IN
        /\ PartialSetAllowed(f.id, f.state.version)
        /\ Written
        /\ Overwrite(f.id, Flagged(f.id, f.state.version, TRUE))
    /\ pc' = [pc EXCEPT ![c] = "ready"]
    /\ fetched' = [fetched EXCEPT ![c] = None]
    /\ UNCHANGED <<index, entity, faults, history>>

\* restore() returns what it fetched, with the new version: it does not read again.
\* It returns nothing when the reply is lost.
Restore(c) ==
    /\ pc[c] = "restoring"
    /\ LET f == fetched[c] IN
        /\ PartialSetAllowed(f.id, f.state.version)
        /\ Written
        /\ Overwrite(f.id, Flagged(f.id, f.state.version, FALSE))
        /\ \/ /\ entity' = [entity EXCEPT ![c] =
                    Object(f.id, [f.state EXCEPT !.version = @ + 1, !.deleted = FALSE])]
              /\ UNCHANGED faults
           \/ Fault /\ UNCHANGED entity
    /\ pc' = [pc EXCEPT ![c] = "ready"]
    /\ fetched' = [fetched EXCEPT ![c] = None]
    /\ UNCHANGED <<index, history>>

\* A pipeline without MULTI: other clients' commands may come between its three.
\* Bound: each id is hard-deleted once.
PurgeKey(c, id) ==
    /\ pc[c] = "ready"
    /\ id \notin purged
    /\ store' = [store EXCEPT ![id] = None]
    /\ purged' = purged \cup {id}
    /\ fetched' = [fetched EXCEPT ![c] = Object(id, [version |-> 0, deleted |-> TRUE, value |-> 0])]
    /\ pc' = [pc EXCEPT ![c] = "purge_past"]
    /\ UNCHANGED <<past, index, entity, writes, faults, gone, rewritten>>

PurgePast(c) ==
    /\ pc[c] = "purge_past"
    /\ past' = [past EXCEPT ![fetched[c].id] = <<>>]
    /\ pc' = [pc EXCEPT ![c] = "purge_index"]
    /\ UNCHANGED <<store, index, entity, fetched, writes, faults, history>>

PurgeIndex(c) ==
    /\ pc[c] = "purge_index"
    /\ index' = index \ {fetched[c].id}
    /\ gone' = gone \cup {fetched[c].id}
    /\ pc' = [pc EXCEPT ![c] = "ready"]
    /\ fetched' = [fetched EXCEPT ![c] = None]
    /\ UNCHANGED <<store, past, entity, writes, faults, purged, rewritten>>

\* The connection is lost within the pipeline.
PurgeBroken(c) ==
    /\ pc[c] \in {"purge_past", "purge_index"}
    /\ Fault
    /\ pc' = [pc EXCEPT ![c] = "ready"]
    /\ fetched' = [fetched EXCEPT ![c] = None]
    /\ UNCHANGED <<store, past, index, entity, writes, history>>

----------------------------------------------------------------------------
Next ==
    \E c \in Clients :
        \/ \E id \in Ids : Create(c, id) \/ Build(c, id) \/ Find(c, id) \/ PurgeKey(c, id)
        \/ \E id \in Ids : \E next \in {"deleting", "restoring"} : Fetch(c, id, next)
        \/ CreateAgain(c) \/ Save(c)
        \/ Delete(c) \/ Restore(c) \/ Abandon(c)
        \/ PurgePast(c) \/ PurgeIndex(c) \/ PurgeBroken(c)

Spec == Init /\ [][Next]_vars

----------------------------------------------------------------------------
(* Properties *)

\* The ids whose life optimistic locking governs: created once, never hard-deleted.
Governed == Ids \ (purged \cup rewritten)

\* Optimistic locking rests on this: a version names one state, and no object is ahead
\* of the store.  An object whose version is the stored one is the stored state, so the
\* save it is accepted for overwrites nothing that its caller has not seen.
VersionNamesState ==
    \A c \in Clients : \A e \in {entity[c], fetched[c]} \ {None} :
        (e.id \in Governed /\ store[e.id] # None /\ store[e.id].version <= e.state.version)
        => e.state = store[e.id]

\* The history is the states before the stored one, newest first, none missing and
\* none twice, as many as max_history keeps.
HistoryIsComplete ==
    \A id \in Governed : store[id] # None =>
        /\ \A i \in DOMAIN past[id] : past[id][i].version = store[id].version - i
        /\ Len(past[id]) = IF MaxHistory > 0 /\ store[id].version > MaxHistory
                           THEN MaxHistory ELSE store[id].version - 1

\* Whatever find() can return of the entities that save() named is listed by
\* find_all(), whose ids come from the index.
IndexIsComplete ==
    \A id \in Ids \ (purged \cup CallerIds) : store[id] # None <=> id \in index

\* A stored entity changes by one version at a time, also when several clients
\* save, delete and restore it.
OneVersionAtATime ==
    [][\A id \in Ids : (id \in Governed' /\ store[id] # None /\ store'[id] # store[id])
            => store'[id].version = store[id].version + 1]_vars

\* What the README and repository.en.md say of hard_delete(): it is permanent.  The
\* ids are those save() made; a caller may of course use an id of its own again.
HardDeleteIsPermanent == \A id \in gone \ CallerIds : store[id] = None
=============================================================================
