------------------------------- MODULE Session -------------------------------
(***************************************************************************)
(* SessionManager and its async form: a session is a hash with a ttl.      *)
(* Every operation is one command, one script or one MULTI, and any number *)
(* of clients that know the id may send them, or send one again: a command *)
(* that is executed a second time is a second step of the same kind.  The  *)
(* values of the fields are left out.                                      *)
(***************************************************************************)
EXTENDS FiniteSets, Integers

CONSTANTS Ids, Fields, SessionTtl   \* in ticks

SessionAssumption == SessionTtl \in Nat \ {0}

VARIABLES
    hashes,    \* each session's fields and what is left of its ttl, {} is no key
    known,     \* sessions whose create() has returned the id
    deleted,   \* history: sessions whose delete() was executed
    written,   \* history: the fields that were written to the session
    idle       \* history: ticks since create(), update() or refresh() last succeeded

vars == <<hashes, known, deleted, written, idle>>

NoKey == [fields |-> {}, left |-> 0]
Exists(s) == hashes[s] # NoKey

TypeOK ==
    /\ hashes \in [Ids -> [fields : SUBSET Fields, left : 0 .. SessionTtl]]
    /\ known \subseteq Ids /\ deleted \subseteq known
    /\ written \in [Ids -> SUBSET Fields]
    /\ idle \in [Ids -> 0 .. SessionTtl]

Init ==
    /\ hashes = [s \in Ids |-> NoKey]
    /\ known = {} /\ deleted = {}
    /\ written = [s \in Ids |-> {}]
    /\ idle = [s \in Ids |-> SessionTtl]

\* The script, the MULTI or the command touches the session.
Touch(s, F) ==
    /\ hashes' = [hashes EXCEPT ![s] = [fields |-> @.fields \cup F, left |-> SessionTtl]]
    /\ written' = [written EXCEPT ![s] = @ \cup F]
    /\ idle' = [idle EXCEPT ![s] = 0]
    /\ UNCHANGED <<known, deleted>>

\* HSET and EXPIRE in a MULTI, which may be sent again with the same fields as long as
\* create() has not returned; nobody else knows the id so far.
Create(s, F) ==
    /\ F # {} /\ s \notin known
    /\ written[s] \in {{}, F}
    /\ Touch(s, F)

Created(s) ==
    /\ written[s] # {}
    /\ known' = known \cup {s}
    /\ UNCHANGED <<hashes, deleted, written, idle>>

\* Mutant: the existence of the key is not asked.
BlindUpdate(s, F) ==
    /\ s \in known
    /\ Touch(s, F)

\* Without fields the script still sets the ttl; SessionNotFoundError changes nothing.
Update(s, F) ==
    /\ s \in known
    /\ Exists(s)
    /\ Touch(s, F)

Refresh(s) ==
    /\ s \in known
    /\ Exists(s)
    /\ Touch(s, {})

Delete(s) ==
    /\ s \in known
    /\ hashes' = [hashes EXCEPT ![s] = NoKey]
    /\ deleted' = deleted \cup {s}
    /\ UNCHANGED <<known, written, idle>>

Tick ==
    /\ hashes' = [s \in Ids |-> IF hashes[s].left <= 1 THEN NoKey
                                ELSE [hashes[s] EXCEPT !.left = @ - 1]]
    /\ idle' = [s \in Ids |-> IF idle[s] < SessionTtl THEN idle[s] + 1 ELSE SessionTtl]
    /\ UNCHANGED <<known, deleted, written>>

Next ==
    \/ \E s \in Ids :
        \/ \E F \in SUBSET Fields : Create(s, F) \/ Update(s, F)
        \/ Created(s) \/ Refresh(s) \/ Delete(s)
    \/ Tick

Spec == Init /\ [][Next]_vars

----------------------------------------------------------------------------
(* Properties *)

\* A session lives from its creation until it is deleted or nobody has touched it for
\* the ttl, and never again: an update or a refresh that arrives late does not bring it
\* back.  While it lives it has every field that any client wrote.
SessionLifetime ==
    \A s \in Ids :
        /\ Exists(s) <=> (written[s] # {} /\ s \notin deleted /\ idle[s] < SessionTtl)
        /\ Exists(s) => hashes[s].fields = written[s]
=============================================================================
