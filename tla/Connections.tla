----------------------------- MODULE Connections -----------------------------
(***************************************************************************)
(* ConnectionManager: the clients of one process, made when they are first *)
(* asked for: one for its threads, and one for each event loop, each of    *)
(* which runs in a thread of its own.  A client that was closed leaves its *)
(* number to a later one.  close() is called when no thread uses the sync  *)
(* client, as its docstring demands.                                       *)
(***************************************************************************)
EXTENDS Integers

CONSTANTS
    ThreadsOf,     \* the threads that ask for the sync client
    Loops,
    MaxClients     \* bound: clients that are open at the same time

ConnectionsAssumption ==
    /\ MaxClients \in Nat /\ MaxClients >= 2
    /\ ThreadsOf \cap Loops = {}

VARIABLES
    open,          \* the clients that were made and that somebody has yet to close
    sync,          \* _sync_client, 0 for None
    preset,        \* _preset_async, 0 for None
    registry,      \* _async_clients: the client of each loop, 0 for none
    asking,        \* where each thread is in sync_client, each loop in async_client
    locked,        \* the thread that holds _sync_lock
    got,           \* the client that each thread and loop got last, 0 for none
    closing,       \* for each aclose() under way, the clients it has yet to close
    adrift         \* history: open clients that a cancelled aclose() did not come to, or
                   \* whose own aclose() failed: nobody will close them

vars == <<open, sync, preset, registry, asking, locked, got, closing,
          adrift>>

Clients == 1 .. MaxClients
Users == ThreadsOf \cup Loops

TypeOK ==
    /\ open \subseteq Clients /\ closing \subseteq SUBSET open /\ adrift \subseteq open
    /\ {sync, preset} \subseteq open \cup {0}
    /\ registry \in [Loops -> open \cup {0}] /\ got \in [Users -> open \cup {0}]
    /\ asking \in [Users -> {"no", "waiting", "building", "returning"}]
    /\ locked \subseteq ThreadsOf /\ \A t, u \in locked : t = u

Nowhere == [l \in Loops |-> 0]

\* _from_clients() may give the manager a sync client, and an async one that belongs to
\* the loop it is called in, if any.
Init ==
    /\ sync \in {0, 1}
    /\ preset \in {0, 2}
    /\ registry \in {Nowhere} \cup
            {[Nowhere EXCEPT ![l] = 2] : l \in IF preset = 0 THEN Loops ELSE {}}
    /\ open = ({sync, preset} \cup {registry[l] : l \in Loops}) \ {0}
    /\ asking = [u \in Users |-> "no"]
    /\ locked = {}
    /\ got = [u \in Users |-> 0]
    /\ closing = {} /\ adrift = {}

Move(u, pc) == asking' = [asking EXCEPT ![u] = pc]
Give(u, client) == got' = [got EXCEPT ![u] = client]

Make(client) ==
    /\ Clients \ open # {} /\ client = CHOOSE k \in Clients \ open : TRUE
    /\ open' = open \cup {client}

----------------------------------------------------------------------------
(* sync_client *)

\* The first look is without the lock.
AskSync(t) ==
    /\ asking[t] = "no"
    /\ IF sync = 0 THEN Move(t, "waiting") ELSE Move(t, "returning")
    /\ UNCHANGED <<open, sync, preset, registry, locked, got, closing, adrift>>

\* Mutant: no second look.
EnterOnce(t) ==
    /\ asking[t] = "waiting" /\ locked = {}
    /\ locked' = {t} /\ Move(t, "building")
    /\ UNCHANGED <<open, sync, preset, registry, got, closing, adrift>>

\* The second look, with it.
Enter(t) ==
    /\ asking[t] = "waiting" /\ locked = {}
    /\ IF sync = 0 THEN locked' = {t} /\ Move(t, "building")
                   ELSE UNCHANGED locked /\ Move(t, "returning")
    /\ UNCHANGED <<open, sync, preset, registry, got, closing, adrift>>

Build(t) ==
    /\ asking[t] = "building"
    /\ \E client \in Clients : Make(client) /\ sync' = client
    /\ locked' = {} /\ Move(t, "returning")
    /\ UNCHANGED <<preset, registry, got, closing, adrift>>

\* The error of a client that cannot be made releases the lock.
BuildFails(t) ==
    /\ asking[t] = "building"
    /\ locked' = {} /\ Move(t, "no")
    /\ UNCHANGED <<open, sync, preset, registry, got, closing, adrift>>

\* The attribute is read once more.
ReturnSync(t) ==
    /\ asking[t] = "returning"
    /\ Give(t, sync)
    /\ Move(t, "no")
    /\ UNCHANGED <<open, sync, preset, registry, locked, closing, adrift>>

Close ==
    /\ sync # 0
    /\ \A t \in ThreadsOf : asking[t] = "no"
    /\ open' = open \ {sync} /\ sync' = 0
    /\ got' = [u \in Users |-> IF u \in ThreadsOf THEN 0 ELSE got[u]]
    /\ UNCHANGED <<preset, registry, asking, locked, closing, adrift>>

----------------------------------------------------------------------------
(* async_client: nothing in it is awaited, so that the other loops are all that can
   come between its steps. *)

AskAsync(l) ==
    /\ asking[l] = "no"
    /\ IF registry[l] = 0 THEN Move(l, "waiting") /\ UNCHANGED got
                          ELSE Give(l, registry[l]) /\ UNCHANGED asking
    /\ UNCHANGED <<open, sync, preset, registry, locked, closing, adrift>>

\* Mutant: the preset client stays where it is.
PromoteAgain(l) ==
    /\ registry' = [registry EXCEPT ![l] = preset]
    /\ UNCHANGED <<open, preset>>

Promote(l) ==
    /\ registry' = [registry EXCEPT ![l] = preset]
    /\ preset' = 0
    /\ UNCHANGED open

\* Within _async_lock: the preset client goes to the first loop that asks, the others
\* get new ones.
Register(l) ==
    /\ asking[l] = "waiting"
    /\ IF preset # 0 THEN Promote(l)
       ELSE /\ \E client \in Clients :
                   Make(client) /\ registry' = [registry EXCEPT ![l] = client]
            /\ UNCHANGED preset
    /\ Give(l, registry'[l])
    /\ Move(l, "no")
    /\ UNCHANGED <<sync, locked, closing, adrift>>

RegisterFails(l) ==
    /\ asking[l] = "waiting" /\ preset = 0
    /\ Move(l, "no")
    /\ UNCHANGED <<open, sync, preset, registry, locked, got, closing, adrift>>

\* A loop ends without aclose(): the registry forgets it, nobody will close its client,
\* and a new loop comes.
LoopEnds(l) ==
    /\ asking[l] = "no" /\ registry[l] # 0
    /\ open' = open \ {registry[l]}
    /\ registry' = [registry EXCEPT ![l] = 0]
    /\ Give(l, 0)
    /\ UNCHANGED <<sync, preset, asking, locked, closing, adrift>>

ClientsOf(loops) == {registry[l] : l \in loops} \ {0}

\* Mutant: the registry is emptied, but only the client of one loop is closed.
SnapshotOwn == closing' = (closing \cup {ClientsOf({l}) : l \in {CHOOSE k \in Loops : TRUE}}) \ {{}}

Snapshot == closing' = (closing \cup {ClientsOf(Loops)}) \ {{}}

\* aclose() takes the clients out of the registry within the lock.
BeginAclose ==
    /\ Snapshot
    /\ registry' = Nowhere
    /\ got' = [u \in Users |-> IF u \in Loops THEN 0 ELSE got[u]]
    /\ UNCHANGED <<open, sync, preset, asking, locked, adrift>>

\* An aclose() has these clients left, of those it took.
Becomes(clients, left) == closing' = ((closing \ {clients}) \cup {left}) \ {{}}

\* It closes one client after the other.
CloseNext(clients, client) ==
    /\ Becomes(clients, clients \ {client})
    /\ open' = open \ {client}
    /\ UNCHANGED <<sync, preset, registry, asking, locked, got, adrift>>

\* Mutant: the error is not caught, and ends the loop.
FailsAndEnds(clients, client) ==
    /\ Becomes(clients, {})
    /\ adrift' = adrift \cup {client}
    /\ UNCHANGED <<open, sync, preset, registry, asking, locked, got>>

\* It goes on when one of them fails, which nobody tries again.
CloseFails(clients, client) ==
    /\ Becomes(clients, clients \ {client})
    /\ adrift' = adrift \cup {client}
    /\ UNCHANGED <<open, sync, preset, registry, asking, locked, got>>

\* A CancelledError is no Exception: it leaves the loop, while a client is being closed
\* that may or may not be closed in the end.
Cancelled(clients, client) ==
    /\ Becomes(clients, {})
    /\ \/ open' = open \ {client} /\ adrift' = adrift \cup (clients \ {client})
       \/ adrift' = adrift \cup clients /\ UNCHANGED open
    /\ UNCHANGED <<sync, preset, registry, asking, locked, got>>

Next ==
    \/ \E t \in ThreadsOf :
        AskSync(t) \/ Enter(t) \/ Build(t) \/ BuildFails(t) \/ ReturnSync(t)
    \/ \E l \in Loops : AskAsync(l) \/ Register(l) \/ RegisterFails(l) \/ LoopEnds(l)
    \/ Close
    \/ BeginAclose
    \/ \E clients \in closing : \E client \in clients :
        CloseNext(clients, client) \/ CloseFails(clients, client) \/ Cancelled(clients, client)

Spec == Init /\ [][Next]_vars

----------------------------------------------------------------------------
(* Properties *)

\* Two event loops never have the same client, whoever got the preset one, nor does a
\* loop have that of the threads; and all threads have one client, which is open.
NoClientShared ==
    \A u, v \in Users :
        u # v /\ got[u] # 0 /\ got[v] # 0 =>
            IF {u, v} \subseteq ThreadsOf THEN got[u] = got[v] /\ got[u] \in open
            ELSE got[u] # got[v]

\* No client is lost while it is open and its loop runs: the manager still knows it, or
\* an aclose() is about to close it.  The code has one exception, as it gives a client
\* one chance: a client whose own aclose() failed, or that was not closed before the
\* aclose() of all was cancelled, stays open for good.
NoClientLost ==
    open \subseteq {sync, preset} \cup {registry[l] : l \in Loops} \cup (UNION closing) \cup adrift
=============================================================================
