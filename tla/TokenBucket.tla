----------------------------- MODULE TokenBucket -----------------------------
(***************************************************************************)
(* TokenBucketLimiter and its async form: one bucket, which is two Redis   *)
(* keys that one script reads and writes and that expire together.  Time   *)
(* goes by in ticks of the server's clock; tokens are counted in parts, so *)
(* that Rate parts come in per tick.  A caller that is told it is allowed  *)
(* does what it asked for; rate_limit() calls the function then.           *)
(***************************************************************************)
EXTENDS Integers

CONSTANTS
    Capacity,      \* tokens
    Costs,         \* the values of acquire's cost
    Parts,         \* parts of a token
    Rate,          \* parts that come in during a tick
    TicksPerMs,    \* the resolution of the clock, in ticks per millisecond,
    MsPerSecond    \* and the length of a second: both are scales of the model

TokenBucketAssumption ==
    /\ Capacity \in Nat \ {0} /\ Costs \subseteq Nat \ {0}
    /\ Parts \in Nat \ {0} /\ Rate \in Nat \ {0}
    /\ TicksPerMs \in Nat \ {0} /\ MsPerSecond \in Nat \ {0}

VARIABLES
    bucket,    \* the tokens at the last call and its age
    debt,      \* history: how much the permissions exceed the rate since some time
    advice     \* history: the last retry_after, while no permission came after it

vars == <<bucket, debt, advice>>

Full == Capacity * Parts
Lesser(a, b) == IF a < b THEN a ELSE b

\* What a second brings; the ttl is twice the time to fill the bucket, in seconds
\* rounded up.
PerSecond == Rate * TicksPerMs * MsPerSecond

\* Mutant: rounded down, and not doubled.
ShortTtl == (Full \div PerSecond) * TicksPerMs * MsPerSecond

Ttl == ((Full + PerSecond - 1) \div PerSecond) * 2 * TicksPerMs * MsPerSecond

NoAdvice == [cost |-> 0, wait |-> 0]

\* A bucket as old as its ttl is gone.
TypeOK ==
    /\ bucket \in [tokens : 0 .. Full, age : 0 .. Ttl]
    /\ debt \in Nat
    /\ advice \in [cost : Costs \cup {0}, wait : Nat]

Init ==
    /\ bucket = [tokens |-> 0, age |-> Ttl]
    /\ debt = 0
    /\ advice = NoAdvice

Filled ==
    IF bucket.age = Ttl THEN Full ELSE Lesser(Full, bucket.tokens + bucket.age * Rate)

Allowed(cost) == Filled >= cost * Parts

\* Mutant: a refused caller takes what there is.
GreedyTake(cost) ==
    bucket' = [tokens |-> IF Allowed(cost) THEN Filled - cost * Parts ELSE 0, age |-> 0]

Take(cost) ==
    bucket' = [tokens |-> IF Allowed(cost) THEN Filled - cost * Parts ELSE Filled, age |-> 0]

\* retry_after, which the script rounds down to milliseconds.
RetryAfter(cost) == (cost * Parts - Filled) \div (Rate * TicksPerMs)

\* The rounding can make it a millisecond short; a cost above the capacity is refused
\* whenever it is tried.
Acquire(cost) ==
    /\ Take(cost)
    /\ debt' = IF Allowed(cost) THEN debt + cost * Parts ELSE debt
    /\ advice' =
        IF Allowed(cost) THEN NoAdvice
        ELSE IF cost > Capacity THEN advice
        ELSE [cost |-> cost, wait |-> (RetryAfter(cost) + 1) * TicksPerMs]

\* The reply is lost.  The caller has no permission; a command sent again is an
\* Acquire.
AcquireUnheard(cost) ==
    /\ Take(cost)
    /\ advice' = IF Allowed(cost) THEN NoAdvice ELSE advice
    /\ UNCHANGED debt

\* What was permitted is forgiven.
Reset ==
    /\ bucket' = [tokens |-> 0, age |-> Ttl]
    /\ debt' = 0
    /\ UNCHANGED advice

Less(n, d) == IF n > d THEN n - d ELSE 0

\* SETEX gave both keys their ttl at the same time.
Tick ==
    /\ bucket' = IF bucket.age + 1 >= Ttl THEN [tokens |-> 0, age |-> Ttl]
                 ELSE [bucket EXCEPT !.age = @ + 1]
    /\ debt' = Less(debt, Rate)
    /\ advice' = [advice EXCEPT !.wait = Less(@, 1)]

Next ==
    \/ \E cost \in Costs : Acquire(cost) \/ AcquireUnheard(cost)
    \/ Reset
    \/ Tick

Spec == Init /\ [][Next]_vars

----------------------------------------------------------------------------
(* Properties *)

\* In no interval does the limiter permit more than the capacity and what the rate
\* brings in during it: debt is the most, over the intervals that end now, by which
\* the permitted costs exceed the rate.  The keys' expiry must give nothing away.
LimitNeverExceeded == debt <= Full

\* Who waits for retry_after and one millisecond more is allowed, if nobody came
\* between: refused calls and lost replies that took nothing do not postpone it.
AdviceSuffices == (advice.cost # 0 /\ advice.wait = 0) => Allowed(advice.cost)
=============================================================================
