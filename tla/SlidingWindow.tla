---------------------------- MODULE SlidingWindow ----------------------------
(***************************************************************************)
(* SlidingWindowLimiter and its async form: one key, a sorted set with a   *)
(* member for each call that was allowed, scored by the server's clock in  *)
(* whole milliseconds.  A score is kept as its distance from the present;  *)
(* the clock itself is finer.  Each call has a member of its own, a uuid,  *)
(* and keeps it when redis-py sends the command again.                     *)
(***************************************************************************)
EXTENDS FiniteSetsExt, Functions, Integers

CONSTANTS
    Members,       \* the uuids: one is used again when nothing remembers it
    Limit,
    Window,        \* in seconds
    TicksPerMs,    \* the resolution of the clock, in ticks per millisecond,
    MsPerSecond    \* and the length of a second: both are scales of the model

SlidingWindowAssumption ==
    /\ Limit \in Nat \ {0} /\ Window \in Nat \ {0}
    /\ TicksPerMs \in Nat \ {0} /\ MsPerSecond \in Nat \ {0}

VARIABLES
    phase,      \* the ticks of the present millisecond that are over
    scores,     \* the sorted set: the age of each member's score
    unheard,    \* calls whose command was executed and has no answer yet
    granted,    \* history: ticks since each call was told it is allowed
    delay       \* history: what is left of the last retry_after, while no call was
                \* recorded after it; -1 is none

vars == <<phase, scores, unheard, granted, delay>>

WindowMs == Window * MsPerSecond

\* Mutant: the set expires before its newest member leaves the window.
HastyTtl == WindowMs - 1

TtlMs == WindowMs + MsPerSecond

LongAgo == WindowMs * TicksPerMs

TypeOK ==
    /\ phase \in 0 .. TicksPerMs - 1
    /\ DOMAIN scores \subseteq Members /\ scores \in [DOMAIN scores -> 0 .. TtlMs - 1]
    /\ unheard \subseteq Members
    /\ granted \in [Members -> 0 .. LongAgo]
    /\ delay \in -1 .. LongAgo

Init ==
    /\ phase = 0 /\ scores = <<>> /\ unheard = {}
    /\ granted = [m \in Members |-> LongAgo]
    /\ delay = -1

\* What ZREMRANGEBYSCORE leaves.
Kept == {m \in DOMAIN scores : scores[m] < WindowMs}

\* Mutant: the count reaches the limit and one more.
AllowedOnce(n) == n <= Limit

Allowed(n) == n < Limit

\* ZADD moves the score of a member that is there already.
Record(m) ==
    scores' = IF Allowed(Cardinality(Kept))
              THEN [n \in Kept \cup {m} |-> IF n = m THEN 0 ELSE scores[n]]
              ELSE Restrict(scores, Kept)

\* retry_after: when the oldest member leaves the window.
RetryAfter == WindowMs - Max({scores[m] : m \in Kept})

\* A uuid that no other call has, or that of a call that is sent again.
Usable(m) ==
    \/ m \in unheard
    \/ granted[m] = LongAgo /\ m \notin Kept

Acquire(m) ==
    /\ Usable(m)
    /\ Record(m)
    /\ unheard' = unheard \ {m}
    /\ IF Allowed(Cardinality(Kept))
       THEN granted' = [granted EXCEPT ![m] = 0] /\ delay' = -1
       ELSE delay' = RetryAfter * TicksPerMs /\ UNCHANGED granted
    /\ UNCHANGED phase

AcquireUnheard(m) ==
    /\ Usable(m)
    /\ Record(m)
    /\ unheard' = unheard \cup {m}
    /\ delay' = IF Allowed(Cardinality(Kept)) THEN -1 ELSE delay
    /\ UNCHANGED <<phase, granted>>

\* The error of a command without an answer is raised.
Abandon(m) ==
    /\ m \in unheard
    /\ unheard' = unheard \ {m}
    /\ UNCHANGED <<phase, scores, granted, delay>>

\* What was permitted is forgiven.
Reset ==
    /\ scores' = <<>>
    /\ granted' = [m \in Members |-> LongAgo]
    /\ UNCHANGED <<phase, unheard, delay>>

\* A new millisecond: the key expires TtlMs after its last ZADD.
Aged ==
    IF \A m \in DOMAIN scores : scores[m] + 1 >= TtlMs THEN <<>>
    ELSE [m \in DOMAIN scores |-> Min({scores[m] + 1, TtlMs - 1})]

Tick ==
    /\ phase' = (phase + 1) % TicksPerMs
    /\ scores' = IF phase' = 0 THEN Aged ELSE scores
    /\ granted' = [m \in Members |-> Min({granted[m] + 1, LongAgo})]
    /\ delay' = IF delay > 0 THEN delay - 1 ELSE delay
    /\ UNCHANGED unheard

Next ==
    \/ \E m \in Members : Acquire(m) \/ AcquireUnheard(m) \/ Abandon(m)
    \/ Reset
    \/ Tick

Spec == Init /\ [][Next]_vars

----------------------------------------------------------------------------
(* Properties *)

\* No interval that is one millisecond shorter than the window has more than Limit
\* permissions, whichever commands were sent twice: a whole window may have more,
\* since the clock is cut to milliseconds.
LimitNeverExceeded ==
    Cardinality({m \in Members : granted[m] <= (WindowMs - 1) * TicksPerMs}) <= Limit

\* Who waits for retry_after is allowed, if no call was recorded meanwhile.
AdviceSuffices == delay = 0 => Allowed(Cardinality(Kept))
=============================================================================
