--------------------------- MODULE CachedFunction ----------------------------
(***************************************************************************)
(* The cached() decorator, sync or async: calls of one function for one    *)
(* key, in any threads and processes.  What the function would return now  *)
(* is numbered; the number grows when its data change.  A failure to make  *)
(* the key, and a call whose cache failed with on_error="execute", run the *)
(* function and leave no trace.                                            *)
(***************************************************************************)
EXTENDS FiniteSets, Integers

CONSTANTS
    Callers,
    Ttls,         \* what ttl gives: seconds, and 0 for no expiry
    Jitter,       \* ttl_jitter, in percent
    MaxChanges    \* bound: changes of the function's data

CachedAssumption ==
    /\ Ttls \subseteq Nat /\ \E n \in Ttls : \A m \in Ttls : m <= n
    /\ Jitter \in 0 .. 100 /\ MaxChanges \in Nat
    /\ "entry" \notin Callers

VARIABLES
    current,    \* what the function returns at present
    entry,      \* the key in Redis: its value and what is left of its ttl
    calls,      \* each caller's call: where it is, and the result it holds
    floor,      \* history: what was current at the last invalidate()
    late        \* history: calls whose result is older than an invalidate(), and
                \* "entry" if the entry came from one of them

vars == <<current, entry, calls, floor, late>>

\* Forever is the ttl of a key without one, and Nothing the absence of a key.
Forever == -1
Nothing == [value |-> 0, left |-> 0, permanent |-> FALSE]
Longest == 2 * CHOOSE n \in Ttls : \A m \in Ttls : m <= n
NoCall == [pc |-> "idle", value |-> 0]

TypeOK ==
    /\ current \in 1 .. MaxChanges + 1
    /\ entry \in {Nothing} \cup
            [value : 1 .. MaxChanges + 1, left : 1 .. Longest \cup {Forever}, permanent : BOOLEAN]
    /\ calls \in [Callers -> {NoCall} \cup
            [pc : {"reading", "computing", "writing"}, value : 0 .. MaxChanges + 1]]
    /\ floor \in 1 .. current
    /\ late \subseteq Callers \cup {"entry"}

Init ==
    /\ current = 1
    /\ entry = Nothing
    /\ calls = [c \in Callers |-> NoCall]
    /\ floor = 1 /\ late = {}

Become(c, pc, v) == calls' = [calls EXCEPT ![c] = [pc |-> pc, value |-> v]]
Return(c) == calls' = [calls EXCEPT ![c] = NoCall] /\ late' = late \ {c}

\* bypass skips the read.
Call(c, bypass) ==
    /\ calls[c].pc = "idle"
    /\ Become(c, IF bypass THEN "computing" ELSE "reading", 0)
    /\ UNCHANGED <<current, entry, floor, late>>

\* GET; a hit is returned.
Read(c) ==
    /\ calls[c].pc = "reading"
    /\ IF entry # Nothing THEN Return(c) ELSE Become(c, "computing", 0) /\ UNCHANGED late
    /\ UNCHANGED <<current, entry, floor>>

\* The error of the GET is raised, or the function is called and its result returned;
\* an exception of the function is raised.
GiveUp(c) ==
    /\ calls[c].pc \in {"reading", "computing"}
    /\ Return(c)
    /\ UNCHANGED <<current, entry, floor>>

Compute(c) ==
    /\ calls[c].pc = "computing"
    /\ Become(c, "writing", current)
    /\ UNCHANGED <<current, entry, floor, late>>

\* Mutant: the jitter may take all of the ttl away.
FullJitter(ttl) ==
    LET delta == (ttl * Jitter) \div 100 IN ttl - delta .. ttl + delta

\* apply_jitter
Jittered(ttl) ==
    LET delta == (ttl * Jitter) \div 100 IN
        {IF ttl > 0 /\ n < 1 THEN 1 ELSE n : n \in ttl - delta .. ttl + delta}

\* SETEX, or SET when the ttl is not positive.
Store(c) ==
    /\ \E ttl \in Ttls : \E left \in Jittered(ttl) :
        entry' = [value |-> calls[c].value, left |-> IF left > 0 THEN left ELSE Forever,
                  permanent |-> ttl = 0]

Marked(c) == (late \ {"entry"}) \cup (IF c \in late THEN {"entry"} ELSE {})

Write(c) ==
    /\ calls[c].pc = "writing"
    /\ Store(c)
    /\ calls' = [calls EXCEPT ![c] = NoCall]
    /\ late' = Marked(c) \ {c}
    /\ UNCHANGED <<current, floor>>

\* The reply is lost and the command is sent again, or its error raised or swallowed.
WriteUnheard(c) ==
    /\ calls[c].pc = "writing"
    /\ Store(c)
    /\ late' = Marked(c)
    /\ UNCHANGED <<current, calls, floor>>

WriteFails(c) ==
    /\ calls[c].pc = "writing"
    /\ Return(c)
    /\ UNCHANGED <<current, entry, floor>>

\* Mutant: an invalidation that is only noted.
NoDelete ==
    /\ floor' = current
    /\ late' = late \cup {c \in Callers : calls[c].pc = "writing"}
    /\ UNCHANGED <<current, entry, calls>>

\* invalidate() deletes the key; the calls that hold a result will still write it.
Invalidate ==
    /\ entry' = Nothing
    /\ floor' = current
    /\ late' = {c \in Callers : calls[c].pc = "writing"}
    /\ UNCHANGED <<current, calls>>

\* The data that the function reads change.
Change ==
    /\ current <= MaxChanges /\ current' = current + 1
    /\ UNCHANGED <<entry, calls, floor, late>>

Tick ==
    /\ entry.left > 0
    /\ entry' = IF entry.left = 1 THEN Nothing ELSE [entry EXCEPT !.left = @ - 1]
    /\ UNCHANGED <<current, calls, floor, late>>

Next ==
    \/ \E c \in Callers :
        \/ \E bypass \in BOOLEAN : Call(c, bypass)
        \/ Read(c) \/ GiveUp(c) \/ Compute(c)
        \/ Write(c) \/ WriteUnheard(c) \/ WriteFails(c)
    \/ Invalidate \/ Change \/ Tick

\* A call goes on to its end.
Proceeds(c) == Write(c) \/ WriteFails(c)

Spec == Init /\ [][Next]_vars /\ SF_vars(Tick) /\ \A c \in Callers : WF_vars(Proceeds(c))

----------------------------------------------------------------------------
(* Properties *)

\* After invalidate() no entry is older than it, unless it was written by a call that
\* had its result before: nothing takes such a result back.
InvalidationHolds ==
    (entry # Nothing /\ "entry" \notin late) => entry.value >= floor

\* Once the data do not change any more a stale entry goes for good, whatever wrote it,
\* if its caller asked for an expiry: no jitter makes an entry permanent.
StaleEntryExpires == <>[](entry = Nothing \/ entry.value = current \/ entry.permanent)
=============================================================================
