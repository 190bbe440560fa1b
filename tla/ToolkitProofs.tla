---------------------------- MODULE ToolkitProofs ----------------------------
(***************************************************************************)
(* Theorems about the components that Toolkit puts together: the safety    *)
(* properties of each of them, for any values of the constants.  Each has  *)
(* an invariant of its own, since a step moves one component only and      *)
(* leaves the variables of the others as they are.                         *)
(***************************************************************************)
EXTENDS Toolkit, TLAPS, FiniteSetTheorems, WellFoundedInduction

----------------------------------------------------------------------------
(* Least and greatest numbers *)

\* A set of natural numbers that is not empty has a least one.
LEMMA Least ==
    ASSUME NEW T \in SUBSET Nat, T # {}
    PROVE  \E x \in T : \A y \in T : x <= y
<1>1. PICK R : IsWellFoundedOn(R, Nat) /\ \A x, y \in Nat : x < y => <<x, y>> \in R
  <2> DEFINE S == OpToRel(<, Nat)
  <2>1. IsWellFoundedOn(S, Nat)
    BY NatLessThanWellFounded
  <2>2. \A x, y \in Nat : x < y => <<x, y>> \in S
    BY DEF OpToRel
  <2> HIDE DEF S
  <2> QED
    BY <2>1, <2>2
<1>2. PICK x \in T : \A y \in T : ~(<<y, x>> \in R)
  <2>1. IsWellFoundedOn(R, Nat) /\ T \subseteq Nat /\ T # {}
    BY <1>1
  <2>2. \E x \in T : \A y \in T : ~(<<y, x>> \in R)
    BY <2>1, WFMin, Zenon
  <2> QED
    BY <2>2
<1>3. ASSUME NEW y \in T PROVE x <= y
  <2>1. x \in Nat /\ y \in Nat /\ ~(y < x)
    BY <1>1, <1>2
  <2> QED
    BY <2>1
<1> QED
  BY <1>3

\* A set of numbers that is bounded and not empty has a greatest one.
LEMMA Greatest ==
    ASSUME NEW T \in SUBSET Int, T # {}, NEW top \in Int, \A n \in T : n <= top
    PROVE  \E x \in T : \A y \in T : x >= y
<1> DEFINE S == {top - n : n \in T}
<1>1. S \subseteq Nat /\ S # {}
  <2>1. ASSUME NEW n \in T PROVE top - n \in Nat
    OBVIOUS
  <2> QED
    BY <2>1
<1>2. PICK x \in S : \A y \in S : x <= y
  <2> HIDE DEF S
  <2>1. S \in SUBSET Nat
    BY <1>1
  <2> QED
    BY <1>1, <2>1, Least
<1>3. PICK m \in T : x = top - m
  BY DEF S
<1>4. ASSUME NEW y \in T PROVE m >= y
  <2>1. x <= top - y
    BY <1>2
  <2> QED
    BY <1>3, <2>1
<1> QED
  BY <1>4

----------------------------------------------------------------------------
(* Token bucket *)

\* Division rounds down.
LEMMA Division ==
    ASSUME NEW a \in Nat, NEW p \in Nat, p > 0
    PROVE  a \div p \in Nat /\ a < p * (a \div p) + p
<1>1. a = (a \div p) * p + (a % p)
  OBVIOUS
<1>2. a \div p \in Int /\ a \div p >= 0
  OBVIOUS
<1>3. a % p < p /\ a % p \in Int
  OBVIOUS
<1>4. (a \div p) * p \in Int /\ (a \div p) * p = p * (a \div p)
  BY <1>2
<1> QED
  BY <1>1, <1>2, <1>3, <1>4

\* Rounded up, it yields enough.
LEMMA RoundedUp ==
    ASSUME NEW a \in Nat, NEW p \in Nat, p > 0
    PROVE  (a + p - 1) \div p \in Nat /\ p * ((a + p - 1) \div p) >= a
<1> DEFINE q == (a + p - 1) \div p
<1>1. a + p - 1 \in Nat
  OBVIOUS
<1>2. q \in Nat /\ a + p - 1 < p * q + p
  BY <1>1, Division
<1> HIDE DEF q
<1>3. p * q \in Int
  BY <1>2
<1>4. p * q >= a
  BY <1>2, <1>3
<1> QED
  BY <1>2, <1>4 DEF q

\* The keys live long enough for the bucket to fill.
LEMMA TtlSuffices ==
    /\ Bucket!Full \in Nat \ {0} /\ Rate \in Nat \ {0}
           /\ Bucket!Ttl \in Nat \ {0} /\ Bucket!Ttl * Rate >= Bucket!Full
<1> DEFINE second == TicksPerMs * MsPerSecond
           q == (Bucket!Full + Bucket!PerSecond - 1) \div Bucket!PerSecond
<1>1. Bucket!Full \in Nat \ {0} /\ Rate \in Nat \ {0}
  BY ToolkitAssumption DEF Bucket!TokenBucketAssumption, Bucket!Full
<1>2. second \in Nat \ {0}
  BY ToolkitAssumption DEF Bucket!TokenBucketAssumption
<1>3. Bucket!PerSecond = Rate * second /\ Bucket!PerSecond \in Nat \ {0}
  BY <1>1, <1>2, ToolkitAssumption DEF Bucket!TokenBucketAssumption, Bucket!PerSecond
<1>4. q \in Nat /\ Bucket!PerSecond * q >= Bucket!Full
  BY <1>1, <1>3, RoundedUp
<1>5. Bucket!Ttl = 2 * (q * second)
  BY <1>2, <1>4, ToolkitAssumption DEF Bucket!Ttl, Bucket!TokenBucketAssumption
<1> HIDE DEF second, q
<1>6. q # 0
  BY <1>1, <1>3, <1>4
<1>7. q * second \in Nat \ {0}
  BY <1>2, <1>4, <1>6
<1>8. (q * second) * Rate = Bucket!PerSecond * q
  BY <1>1, <1>2, <1>3, <1>4
<1>9. Bucket!Ttl * Rate = 2 * (Bucket!PerSecond * q)
  BY <1>1, <1>5, <1>7, <1>8
<1>10. Bucket!PerSecond * q \in Nat
  BY <1>3, <1>4
<1>11. Bucket!Ttl * Rate >= Bucket!Full
  BY <1>1, <1>4, <1>9, <1>10
<1> QED
  BY <1>1, <1>5, <1>7, <1>11

\* Whoever waits as advised will find enough in the bucket.
AdvisedRight ==
    advice.cost # 0 =>
        /\ advice.cost * Parts <= Bucket!Full
        /\ advice.cost * Parts <= Bucket!Filled + advice.wait * Rate

\* What was permitted beyond the rate and what is in the bucket are not more than it holds.
BucketInv == Bucket!TypeOK /\ debt + Bucket!Filled <= Bucket!Full /\ AdvisedRight

\* The bucket is never more than full.
LEMMA FilledInRange ==
    ASSUME bucket \in [tokens : 0 .. Bucket!Full, age : 0 .. Bucket!Ttl]
    PROVE  Bucket!Filled \in 0 .. Bucket!Full
<1>1. Bucket!Full \in Nat /\ Rate \in Nat /\ Bucket!Ttl \in Nat
  BY TtlSuffices
<1>2. bucket.age * Rate \in Nat /\ bucket.tokens \in 0 .. Bucket!Full
  BY <1>1
<1> QED
  BY <1>1, <1>2 DEF Bucket!Filled, Bucket!Lesser

\* A call takes what it is allowed to and no more.
LEMMA TakeExact ==
    ASSUME BucketInv, NEW cost \in Costs, Bucket!Take(cost)
    PROVE  /\ cost * Parts \in Nat
           /\ bucket' \in [tokens : 0 .. Bucket!Full, age : 0 .. Bucket!Ttl]
           /\ Bucket!Filled' = IF Bucket!Allowed(cost) THEN Bucket!Filled - cost * Parts ELSE Bucket!Filled
<1>1. Bucket!Full \in Nat /\ Rate \in Nat /\ Bucket!Ttl \in Nat \ {0}
  BY TtlSuffices
<1>2. Bucket!Filled \in 0 .. Bucket!Full
  BY FilledInRange DEF BucketInv, Bucket!TypeOK
<1>3. cost * Parts \in Nat
  BY ToolkitAssumption DEF Bucket!TokenBucketAssumption
<1> DEFINE t == IF Bucket!Allowed(cost) THEN Bucket!Filled - cost * Parts ELSE Bucket!Filled
<1>4. bucket' = [tokens |-> t, age |-> 0]
  BY DEF Bucket!Take
<1>5. t \in 0 .. Bucket!Full
  BY <1>1, <1>2, <1>3 DEF Bucket!Allowed
<1> HIDE DEF t
<1>6. Bucket!Filled' = Bucket!Lesser(Bucket!Full, t + 0 * Rate)
  BY <1>1, <1>4 DEF Bucket!Filled, Bucket!Lesser
<1>7. Bucket!Filled' = t
  BY <1>1, <1>5, <1>6 DEF Bucket!Lesser
<1> QED
  BY <1>1, <1>3, <1>4, <1>5, <1>7 DEF t

\* In a tick it gains what the rate brings in, and no more when its keys expire.
LEMMA TickGains ==
    ASSUME BucketInv, Bucket!Tick
    PROVE  /\ bucket' \in [tokens : 0 .. Bucket!Full, age : 0 .. Bucket!Ttl]
           /\ Bucket!Filled' \in 0 .. Bucket!Full /\ Bucket!Filled' <= Bucket!Filled + Rate
           /\ Bucket!Filled' = Bucket!Full \/ Bucket!Filled' = Bucket!Filled + Rate
<1>0. /\ Bucket!Full \in Nat \ {0} /\ Rate \in Nat \ {0} /\ Bucket!Ttl \in Nat \ {0}
      /\ Bucket!Ttl * Rate >= Bucket!Full
      /\ Bucket!Ttl * Rate \in Nat
  BY TtlSuffices
<1> DEFINE age == bucket.age
           tokens == bucket.tokens
<1>1. age \in 0 .. Bucket!Ttl /\ tokens \in 0 .. Bucket!Full /\ age * Rate \in Nat
      /\ bucket = [tokens |-> tokens, age |-> age]
  BY <1>0 DEF BucketInv, Bucket!TypeOK
<1>2. Bucket!Filled = IF age = Bucket!Ttl THEN Bucket!Full
                      ELSE Bucket!Lesser(Bucket!Full, tokens + age * Rate)
  BY DEF Bucket!Filled
<1>3. bucket' = IF age + 1 >= Bucket!Ttl THEN [tokens |-> 0, age |-> Bucket!Ttl]
                ELSE [tokens |-> tokens, age |-> age + 1]
  BY <1>1 DEF Bucket!Tick
<1> HIDE DEF age, tokens
<1>4. (age + 1) * Rate = age * Rate + Rate
  BY <1>0, <1>1
<1>5. CASE age + 1 >= Bucket!Ttl
  <2>1. Bucket!Filled' = Bucket!Full /\ bucket' \in [tokens : 0 .. Bucket!Full, age : 0 .. Bucket!Ttl]
    BY <1>0, <1>3, <1>5 DEF Bucket!Filled
  <2>2. CASE age = Bucket!Ttl
    BY <2>1, <2>2, <1>0, <1>2
  <2>3. CASE age # Bucket!Ttl
    <3>1. age + 1 = Bucket!Ttl
      BY <2>3, <1>0, <1>1, <1>5
    <3>2. age * Rate + Rate >= Bucket!Full
      BY <3>1, <1>0, <1>4
    <3> QED
      BY <3>2, <2>1, <2>3, <1>0, <1>1, <1>2 DEF Bucket!Lesser
  <2> QED
    BY <2>1, <2>2, <2>3
<1>6. CASE age + 1 < Bucket!Ttl
  <2>1. bucket' = [tokens |-> tokens, age |-> age + 1] /\ age + 1 \in 0 .. Bucket!Ttl /\ age + 1 # Bucket!Ttl
    BY <1>0, <1>1, <1>3, <1>6
  <2>2. Bucket!Filled' = Bucket!Lesser(Bucket!Full, tokens + (age + 1) * Rate)
    BY <2>1 DEF Bucket!Filled, Bucket!Lesser
  <2>3. bucket' \in [tokens : 0 .. Bucket!Full, age : 0 .. Bucket!Ttl]
    BY <2>1, <1>1
  <2>4. Bucket!Filled = Bucket!Lesser(Bucket!Full, tokens + age * Rate)
    BY <1>0, <1>1, <1>2, <1>6
  <2>5. (age + 1) * Rate \in Nat
    BY <1>0, <1>1, <1>4
  <2>6. Bucket!Filled' \in 0 .. Bucket!Full
    BY <2>2, <2>5, <1>0, <1>1 DEF Bucket!Lesser
  <2>7. Bucket!Filled' <= Bucket!Filled + Rate
    BY <2>2, <2>4, <2>5, <1>0, <1>1, <1>4 DEF Bucket!Lesser
  <2>8. Bucket!Filled' = Bucket!Full \/ Bucket!Filled' = Bucket!Filled + Rate
    BY <2>2, <2>4, <2>5, <1>0, <1>1, <1>4 DEF Bucket!Lesser
  <2> QED
    BY <2>3, <2>6, <2>7, <2>8
<1> QED
  BY <1>0, <1>1, <1>5, <1>6

\* A tick takes from the debt at least what it brings into the bucket.
LEMMA Repaid ==
    ASSUME NEW d \in Nat, NEW f \in Nat, NEW g \in Nat, NEW r \in Nat, NEW top \in Nat,
           d + f <= top, g <= top, g <= f + r
    PROVE  /\ (IF d > r THEN d - r ELSE 0) \in Nat
           /\ (IF d > r THEN d - r ELSE 0) + g <= top
<1>1. CASE d > r
  <2>1. d - r \in Nat /\ (d - r) + g <= top
    BY <1>1
  <2> QED
    BY <1>1, <2>1
<1>2. CASE ~(d > r)
  BY <1>2
<1> QED
  BY <1>1, <1>2

\* The time that an advice leaves brings in what is missing.
LEMMA AdviceGiven ==
    ASSUME BucketInv, NEW cost \in Costs, ~Bucket!Allowed(cost), ~(cost > Capacity)
    PROVE  /\ (Bucket!RetryAfter(cost) + 1) * TicksPerMs \in Nat
           /\ cost * Parts <= Bucket!Full
           /\ cost * Parts <= Bucket!Filled + ((Bucket!RetryAfter(cost) + 1) * TicksPerMs) * Rate
<1>0. /\ Capacity \in Nat \ {0} /\ cost \in Nat \ {0} /\ Parts \in Nat \ {0}
      /\ Rate \in Nat \ {0} /\ TicksPerMs \in Nat \ {0} /\ Bucket!Full = Capacity * Parts
  BY ToolkitAssumption DEF Bucket!TokenBucketAssumption, Bucket!Full
<1>1. Bucket!Filled \in 0 .. Bucket!Full /\ Bucket!Full \in Nat
  BY FilledInRange, TtlSuffices DEF BucketInv, Bucket!TypeOK
<1>2. cost * Parts \in Nat /\ cost * Parts <= Bucket!Full
  <2>1. PICK d \in Nat : Capacity = cost + d
    <3>1. Capacity - cost \in Nat /\ Capacity = cost + (Capacity - cost)
      BY <1>0
    <3> QED
      BY <3>1
  <2>2. Capacity * Parts = cost * Parts + d * Parts
    BY <1>0, <2>1
  <2>3. d * Parts \in Nat /\ cost * Parts \in Nat
    BY <1>0, <2>1
  <2> QED
    BY <1>0, <2>2, <2>3
<1>3. PICK missing \in Nat : missing = cost * Parts - Bucket!Filled
  BY <1>1, <1>2 DEF Bucket!Allowed
<1>4. PICK p \in Nat : p = Rate * TicksPerMs /\ p > 0
  BY <1>0
<1>5. Bucket!RetryAfter(cost) = missing \div p
  BY <1>3, <1>4 DEF Bucket!RetryAfter
<1>6. PICK q \in Nat : q = Bucket!RetryAfter(cost) /\ missing < p * q + p
  BY <1>4, <1>5, Division
<1>7. (q + 1) * TicksPerMs \in Nat
  BY <1>0, <1>6
<1>8. ((q + 1) * TicksPerMs) * Rate = p * q + p
  BY <1>0, <1>4, <1>6
<1>9. p * q \in Nat
  BY <1>4, <1>6
<1> QED
  BY <1>1, <1>2, <1>3, <1>4, <1>6, <1>7, <1>8, <1>9

\* As time goes on, the wait gets shorter by what comes in.
LEMMA AdviceAges ==
    ASSUME NEW need \in Nat, NEW w \in Nat, NEW f \in Nat, NEW g \in Nat, NEW r \in Nat,
           NEW top \in Nat, need <= top, need <= f + w * r, g = top \/ g = f + r
    PROVE  /\ (IF w > 1 THEN w - 1 ELSE 0) \in Nat
           /\ need <= g + (IF w > 1 THEN w - 1 ELSE 0) * r
<1>1. CASE w > 1
  <2>1. PICK k \in Nat : w = k + 1 /\ w - 1 = k
    <3>1. w - 1 \in Nat /\ w = (w - 1) + 1
      BY <1>1
    <3> QED
      BY <3>1
  <2>2. w * r = k * r + r /\ k * r \in Nat
    BY <2>1
  <2>3. need <= g + k * r
    BY <2>2
  <2> QED
    BY <1>1, <2>1, <2>3
<1>2. CASE ~(w > 1)
  <2>1. w * r = 0 \/ w * r = r
    <3>1. w = 0 \/ w = 1
      BY <1>2
    <3> QED
      BY <3>1
  <2>2. need <= g
    BY <2>1
  <2> QED
    BY <1>2, <2>2
<1> QED
  BY <1>1, <1>2

\* Every step keeps the invariant.
LEMMA BucketStep == BucketInv /\ [Bucket!Next]_bucketVars => BucketInv'
<1> SUFFICES ASSUME BucketInv, [Bucket!Next]_bucketVars PROVE BucketInv'
  OBVIOUS
<1>0. /\ Bucket!Full \in Nat \ {0} /\ Rate \in Nat \ {0} /\ Bucket!Ttl \in Nat \ {0}
      /\ Bucket!Filled \in 0 .. Bucket!Full /\ debt \in Nat /\ debt + Bucket!Filled <= Bucket!Full
      /\ AdvisedRight /\ Parts \in Nat
      /\ advice \in [cost : Costs \cup {0}, wait : Nat]
      /\ bucket \in [tokens : 0 .. Bucket!Full, age : 0 .. Bucket!Ttl]
      /\ TicksPerMs \in Nat \ {0} /\ Costs \subseteq Nat \ {0}
  BY TtlSuffices, FilledInRange, ToolkitAssumption DEF BucketInv, Bucket!TypeOK, Bucket!TokenBucketAssumption
<1>1. ASSUME NEW cost \in Costs, Bucket!Acquire(cost) PROVE BucketInv'
  <2>1. /\ cost * Parts \in Nat
        /\ bucket' \in [tokens : 0 .. Bucket!Full, age : 0 .. Bucket!Ttl]
        /\ Bucket!Filled' = IF Bucket!Allowed(cost) THEN Bucket!Filled - cost * Parts ELSE Bucket!Filled
    BY <1>1, TakeExact DEF Bucket!Acquire
  <2>2. debt' \in Nat /\ debt' + Bucket!Filled' <= Bucket!Full
    BY <1>0, <1>1, <2>1 DEF Bucket!Acquire, Bucket!Allowed
  <2>3. advice' \in [cost : Costs \cup {0}, wait : Nat] /\ AdvisedRight'
    <3>1. CASE Bucket!Allowed(cost)
      <4>1. advice' = Bucket!NoAdvice
        BY <1>1, <3>1 DEF Bucket!Acquire
      <4>2. advice'.cost = 0 /\ advice' \in [cost : Costs \cup {0}, wait : Nat]
        BY <4>1 DEF Bucket!NoAdvice
      <4> QED
        BY <4>2 DEF AdvisedRight
    <3>2. CASE ~Bucket!Allowed(cost) /\ cost > Capacity
      <4>1. advice' = advice /\ Bucket!Filled' = Bucket!Filled
        BY <1>1, <2>1, <3>2 DEF Bucket!Acquire
      <4> QED
        BY <1>0, <4>1 DEF AdvisedRight, Bucket!Full
    <3>3. CASE ~Bucket!Allowed(cost) /\ ~(cost > Capacity)
      <4> DEFINE w == (Bucket!RetryAfter(cost) + 1) * TicksPerMs
      <4>1. advice' = [cost |-> cost, wait |-> w] /\ Bucket!Filled' = Bucket!Filled
        BY <1>1, <2>1, <3>3 DEF Bucket!Acquire
      <4>2. w \in Nat /\ cost * Parts <= Bucket!Full /\ cost * Parts <= Bucket!Filled + w * Rate
        BY <3>3, AdviceGiven
      <4> HIDE DEF w
      <4> QED
        BY <1>0, <4>1, <4>2 DEF AdvisedRight, Bucket!Full
    <3> QED
      BY <3>1, <3>2, <3>3
  <2> QED
    BY <2>1, <2>2, <2>3 DEF BucketInv, Bucket!TypeOK, Bucket!Full, Bucket!Ttl, Bucket!PerSecond
<1>2. ASSUME NEW cost \in Costs, Bucket!AcquireUnheard(cost) PROVE BucketInv'
  <2>1. /\ cost * Parts \in Nat
        /\ bucket' \in [tokens : 0 .. Bucket!Full, age : 0 .. Bucket!Ttl]
        /\ Bucket!Filled' = IF Bucket!Allowed(cost) THEN Bucket!Filled - cost * Parts ELSE Bucket!Filled
    BY <1>2, TakeExact DEF Bucket!AcquireUnheard
  <2>2. debt' = debt /\ debt' + Bucket!Filled' <= Bucket!Full
    BY <1>0, <1>2, <2>1 DEF Bucket!AcquireUnheard
  <2>3. advice' \in [cost : Costs \cup {0}, wait : Nat] /\ AdvisedRight'
    <3>1. CASE Bucket!Allowed(cost)
      <4>1. advice' = Bucket!NoAdvice
        BY <1>2, <3>1 DEF Bucket!AcquireUnheard
      <4>2. advice'.cost = 0 /\ advice' \in [cost : Costs \cup {0}, wait : Nat]
        BY <4>1 DEF Bucket!NoAdvice
      <4> QED
        BY <4>2 DEF AdvisedRight
    <3>2. CASE ~Bucket!Allowed(cost)
      <4>1. advice' = advice /\ Bucket!Filled' = Bucket!Filled
        BY <1>2, <2>1, <3>2 DEF Bucket!AcquireUnheard
      <4> QED
        BY <1>0, <4>1 DEF AdvisedRight, Bucket!Full
    <3> QED
      BY <3>1, <3>2
  <2> QED
    BY <1>0, <2>1, <2>2, <2>3
       DEF BucketInv, Bucket!TypeOK, Bucket!Full, Bucket!Ttl, Bucket!PerSecond
<1>3. ASSUME Bucket!Reset PROVE BucketInv'
  <2>1. bucket' = [tokens |-> 0, age |-> Bucket!Ttl] /\ debt' = 0 /\ advice' = advice
    BY <1>3 DEF Bucket!Reset
  <2>2. Bucket!Filled' = Bucket!Full
    BY <2>1 DEF Bucket!Filled
  <2>3. AdvisedRight'
    <3> SUFFICES ASSUME advice.cost # 0
                 PROVE  /\ advice.cost * Parts <= Bucket!Full
                        /\ advice.cost * Parts <= Bucket!Full + advice.wait * Rate
      BY <2>1, <2>2 DEF AdvisedRight, Bucket!Full
    <3>0. advice.cost \in Nat
      BY <1>0
    <3>1. advice.cost * Parts <= Bucket!Full /\ advice.cost * Parts \in Nat
      BY <1>0, <3>0 DEF AdvisedRight
    <3>2. advice.wait * Rate \in Nat
      BY <1>0
    <3> QED
      BY <1>0, <3>1, <3>2
  <2>4. /\ bucket' \in [tokens : 0 .. Bucket!Full, age : 0 .. Bucket!Ttl]
        /\ debt' + Bucket!Filled' <= Bucket!Full
    BY <1>0, <2>1, <2>2
  <2> QED
    BY <1>0, <2>1, <2>3, <2>4
       DEF BucketInv, Bucket!TypeOK, Bucket!Full, Bucket!Ttl, Bucket!PerSecond
<1>4. ASSUME Bucket!Tick PROVE BucketInv'
  <2>1. /\ bucket' \in [tokens : 0 .. Bucket!Full, age : 0 .. Bucket!Ttl]
        /\ Bucket!Filled' \in 0 .. Bucket!Full /\ Bucket!Filled' <= Bucket!Filled + Rate
        /\ Bucket!Filled' = Bucket!Full \/ Bucket!Filled' = Bucket!Filled + Rate
    BY <1>4, TickGains
  <2>3. debt' = IF debt > Rate THEN debt - Rate ELSE 0
    BY <1>4 DEF Bucket!Tick, Bucket!Less
  <2>4. debt' \in Nat /\ debt' + Bucket!Filled' <= Bucket!Full
    <3>1. /\ Bucket!Full \in Nat /\ Rate \in Nat /\ debt \in Nat
          /\ Bucket!Filled \in Nat /\ Bucket!Filled' \in Nat
          /\ debt + Bucket!Filled <= Bucket!Full /\ Bucket!Filled' <= Bucket!Full
          /\ Bucket!Filled' <= Bucket!Filled + Rate
      BY <1>0, <2>1
    <3>2. /\ (IF debt > Rate THEN debt - Rate ELSE 0) \in Nat
          /\ (IF debt > Rate THEN debt - Rate ELSE 0) + Bucket!Filled' <= Bucket!Full
      BY <3>1, Repaid
    <3> QED
      BY <3>2, <2>3
  <2>5. /\ advice' = [advice EXCEPT !.wait = IF advice.wait > 1 THEN advice.wait - 1 ELSE 0]
        /\ advice.wait \in Nat
    BY <1>0, <1>4 DEF Bucket!Tick, Bucket!Less
  <2>6. /\ advice'.cost = advice.cost
        /\ advice'.wait = IF advice.wait > 1 THEN advice.wait - 1 ELSE 0
        /\ advice' \in [cost : Costs \cup {0}, wait : Nat]
    BY <1>0, <2>5
  <2>7. AdvisedRight'
    <3> SUFFICES ASSUME advice.cost # 0
                 PROVE  /\ advice.cost * Parts <= Bucket!Full
                        /\ advice.cost * Parts <= Bucket!Filled' + advice'.wait * Rate
      BY <2>6 DEF AdvisedRight, Bucket!Full
    <3>0. advice.cost \in Nat
      BY <1>0
    <3>1. /\ advice.cost * Parts <= Bucket!Full
          /\ advice.cost * Parts <= Bucket!Filled + advice.wait * Rate
          /\ advice.cost * Parts \in Nat
      BY <1>0, <3>0 DEF AdvisedRight
    <3>2. /\ Bucket!Full \in Nat /\ Rate \in Nat /\ Bucket!Filled \in Nat /\ Bucket!Filled' \in Nat
      BY <1>0, <2>1
    <3>3. advice.cost * Parts <= Bucket!Filled' + (IF advice.wait > 1 THEN advice.wait - 1 ELSE 0) * Rate
      BY <2>1, <2>5, <3>1, <3>2, AdviceAges
    <3> QED
      BY <2>6, <3>1, <3>3
  <2> QED
    BY <2>1, <2>4, <2>6, <2>7
       DEF BucketInv, Bucket!TypeOK, Bucket!Full, Bucket!Ttl, Bucket!PerSecond
<1>5. ASSUME UNCHANGED bucketVars PROVE BucketInv'
  <2>1. UNCHANGED <<bucket, debt, advice, Bucket!Filled>>
    BY <1>5 DEF bucketVars, Bucket!Filled
  <2> QED
    BY <2>1 DEF BucketInv, Bucket!TypeOK, AdvisedRight, Bucket!Full, Bucket!Ttl, Bucket!PerSecond
<1> QED
  BY <1>1, <1>2, <1>3, <1>4, <1>5 DEF Bucket!Next

\* At first the bucket is full.
LEMMA BucketStart == Bucket!Init => BucketInv
<1> SUFFICES ASSUME Bucket!Init PROVE BucketInv
  OBVIOUS
<1>1. Bucket!Full \in Nat \ {0} /\ Bucket!Ttl \in Nat \ {0}
  BY TtlSuffices
<1>2. Bucket!Filled = Bucket!Full
  BY DEF Bucket!Init, Bucket!Filled
<1>3. /\ bucket = [tokens |-> 0, age |-> Bucket!Ttl] /\ debt = 0 /\ advice = Bucket!NoAdvice
  BY DEF Bucket!Init
<1>4. Bucket!TypeOK
  BY <1>1, <1>3 DEF Bucket!TypeOK, Bucket!NoAdvice
<1>5. AdvisedRight
  BY <1>3 DEF AdvisedRight, Bucket!NoAdvice
<1>6. debt + Bucket!Filled <= Bucket!Full
  BY <1>1, <1>2, <1>3
<1> QED
  BY <1>4, <1>5, <1>6 DEF BucketInv

\* Both properties of the bucket follow.
LEMMA BucketKept == BucketInv => Bucket!LimitNeverExceeded /\ Bucket!AdviceSuffices
<1> SUFFICES ASSUME BucketInv PROVE Bucket!LimitNeverExceeded /\ Bucket!AdviceSuffices
  OBVIOUS
<1>1. /\ Bucket!Full \in Nat /\ Bucket!Filled \in 0 .. Bucket!Full
      /\ debt \in Nat /\ debt + Bucket!Filled <= Bucket!Full
      /\ advice \in [cost : Costs \cup {0}, wait : Nat] /\ AdvisedRight
  BY TtlSuffices, FilledInRange DEF BucketInv, Bucket!TypeOK
<1>2. Rate \in Nat /\ Parts \in Nat /\ Costs \subseteq Nat
  BY ToolkitAssumption DEF Bucket!TokenBucketAssumption
<1>3. Bucket!LimitNeverExceeded
  BY <1>1 DEF Bucket!LimitNeverExceeded
<1>4. ASSUME advice.cost # 0, advice.wait = 0 PROVE Bucket!Filled >= advice.cost * Parts
  <2>1. advice.wait * Rate = 0
    BY <1>2, <1>4
  <2>0. advice.cost \in Nat
    <3>1. PICK c \in Costs \cup {0} : c = advice.cost
      BY <1>1
    <3>2. c \in Costs
      BY <1>4, <3>1
    <3>3. c \in Nat
      BY <1>2, <3>2
    <3> QED
      BY <3>1, <3>3
  <2>2. advice.cost * Parts <= Bucket!Filled + advice.wait * Rate /\ advice.cost * Parts \in Nat
    BY <1>1, <1>2, <1>4, <2>0 DEF AdvisedRight
  <2> QED
    BY <1>1, <2>1, <2>2
<1>5. Bucket!AdviceSuffices
  BY <1>4 DEF Bucket!AdviceSuffices, Bucket!Allowed
<1> QED
  BY <1>3, <1>5

----------------------------------------------------------------------------
(* Sliding window *)

Span == Sliding!WindowMs

\* Allowed is counted by the members that the window keeps.
LEMMA WindowCardinality == \A S : Sliding!Cardinality(S) = Cardinality(S)
<1>1. ASSUME NEW S PROVE Sliding!Cardinality(S) = Cardinality(S)
  BY DEF Sliding!Cardinality, Cardinality
<1> QED
  BY <1>1

\* The lengths in milliseconds.
LEMMA WindowLengths ==
    /\ Span \in Nat \ {0} /\ TicksPerMs \in Nat \ {0} /\ Limit \in Nat \ {0}
    /\ Sliding!TtlMs \in Nat /\ Sliding!TtlMs >= Span + 1
    /\ Sliding!LongAgo = Span * TicksPerMs /\ Span * TicksPerMs \in Nat
    /\ (Span - 1) * TicksPerMs = Span * TicksPerMs - TicksPerMs /\ (Span - 1) * TicksPerMs \in Nat
<1>1. /\ Limit \in Nat \ {0} /\ Window \in Nat \ {0}
      /\ TicksPerMs \in Nat \ {0} /\ MsPerSecond \in Nat \ {0}
  BY ToolkitAssumption DEF Sliding!SlidingWindowAssumption
<1>2. Window * MsPerSecond \in Nat \ {0}
  BY <1>1
<1>3. Span = Window * MsPerSecond
  BY DEF Span, Sliding!WindowMs
<1>4. Sliding!TtlMs = Span + MsPerSecond /\ Sliding!LongAgo = Span * TicksPerMs
  BY DEF Sliding!TtlMs, Sliding!LongAgo, Span
<1>5. Span \in Nat \ {0} /\ TicksPerMs \in Nat \ {0}
  BY <1>1, <1>2, <1>3
<1>6. Span * TicksPerMs \in Nat /\ (Span - 1) * TicksPerMs = Span * TicksPerMs - TicksPerMs
  BY <1>5
<1>7. Span - 1 \in Nat
  BY <1>5
<1>8. (Span - 1) * TicksPerMs \in Nat
  BY <1>5, <1>7
<1> QED
  BY <1>1, <1>4, <1>5, <1>6, <1>8

\* What is shorter in ticks is shorter in milliseconds.
LEMMA Shorter ==
    ASSUME NEW s \in Nat, NEW w \in Nat, NEW t \in Nat \ {0}, s * t < w * t
    PROVE  s < w
<1> SUFFICES ASSUME s >= w PROVE FALSE
  OBVIOUS
<1>1. PICK d \in Nat : s = w + d
  <2>1. s - w \in Nat /\ s = w + (s - w)
    OBVIOUS
  <2> QED
    BY <2>1
<1>2. s * t = w * t + d * t
  BY <1>1
<1>3. d * t \in Nat /\ w * t \in Nat
  BY <1>1
<1> QED
  BY <1>2, <1>3

\* The ticks of a millisecond go round.
LEMMA NextPhase ==
    ASSUME NEW t \in Nat \ {0}, NEW p \in 0 .. t - 1
    PROVE  (p + 1) % t = IF p + 1 = t THEN 0 ELSE p + 1
<1>1. PICK n \in Nat : n = p + 1 /\ n <= t
  OBVIOUS
<1>2. n = t * (n \div t) + (n % t) /\ n % t \in 0 .. t - 1 /\ n \div t \in Nat
  OBVIOUS
<1>3. PICK q \in Nat : q = n \div t
  BY <1>2
<1>4. PICK r \in 0 .. t - 1 : r = n % t
  BY <1>2
<1>5. n = t * q + r
  BY <1>2, <1>3, <1>4
<1>6. CASE q = 0
  <2>1. t * q = 0
    BY <1>6
  <2> QED
    BY <1>1, <1>4, <1>5, <2>1
<1>7. CASE q # 0
  <2>1. PICK k \in Nat : q = k + 1
    <3>1. q - 1 \in Nat /\ q = (q - 1) + 1
      BY <1>7
    <3> QED
      BY <3>1
  <2>2. t * q = t * k + t /\ t * k \in Nat
    BY <2>1
  <2> QED
    BY <1>1, <1>4, <1>5, <2>2
<1> QED
  BY <1>6, <1>7

\* The lesser of two numbers.
LEMMA LesserOfTwo ==
    ASSUME NEW a \in Int, NEW b \in Int
    PROVE  Sliding!Min({a, b}) = IF a <= b THEN a ELSE b
BY DEF Sliding!Min

\* A permission counts as long as the clock that is cut to milliseconds can tell.
Recent(m) == granted[m] <= (Span - 1) * TicksPerMs
\* The score of a recent permission is not older than it, up to a millisecond.
RecentStays ==
    \A m \in Members : Recent(m) =>
        m \in DOMAIN scores /\ scores[m] * TicksPerMs + phase <= granted[m] + TicksPerMs - 1

\* Some member leaves the window before the advice is over, or there is room.
RoomInTime ==
    delay >= 0 =>
        \/ Cardinality(Sliding!Kept) < Limit
        \/ \E m \in Sliding!Kept : (Span - scores[m]) * TicksPerMs <= delay + phase

WindowInv ==
    /\ Sliding!TypeOK
    /\ IsFiniteSet(DOMAIN scores) /\ Cardinality(Sliding!Kept) <= Limit
    /\ RecentStays /\ RoomInTime

\* The members that are kept are finitely many, and among them all recent ones.
LEMMA KeptFacts ==
    ASSUME WindowInv
    PROVE  /\ Sliding!Kept \subseteq DOMAIN scores /\ DOMAIN scores \subseteq Members
           /\ IsFiniteSet(Sliding!Kept) /\ Cardinality(Sliding!Kept) \in Nat
           /\ \A m \in DOMAIN scores : scores[m] \in 0 .. Sliding!TtlMs - 1
           /\ \A m \in Sliding!Kept : scores[m] \in 0 .. Span - 1
           /\ \A m \in Members : Recent(m) => m \in Sliding!Kept
<1>0. /\ Span \in Nat \ {0} /\ TicksPerMs \in Nat \ {0} /\ Sliding!TtlMs \in Nat
      /\ (Span - 1) * TicksPerMs = Span * TicksPerMs - TicksPerMs /\ Span * TicksPerMs \in Nat
  BY WindowLengths
<1>1. DOMAIN scores \subseteq Members /\ scores \in [DOMAIN scores -> 0 .. Sliding!TtlMs - 1]
      /\ phase \in 0 .. TicksPerMs - 1 /\ granted \in [Members -> 0 .. Sliding!LongAgo]
  BY DEF WindowInv, Sliding!TypeOK
<1>2. \A m \in DOMAIN scores : scores[m] \in 0 .. Sliding!TtlMs - 1
  BY <1>1
<1>3. Sliding!Kept = {m \in DOMAIN scores : scores[m] < Span}
  BY DEF Sliding!Kept, Span
<1>4. IsFiniteSet(Sliding!Kept)
  <2>1. IsFiniteSet(DOMAIN scores) /\ Sliding!Kept \subseteq DOMAIN scores
    BY <1>3 DEF WindowInv
  <2> QED
    BY <2>1, FS_Subset
<1>5. Cardinality(Sliding!Kept) \in Nat
  BY <1>4, FS_CardinalityType
<1>6. ASSUME NEW m \in Members, Recent(m) PROVE m \in Sliding!Kept
  <2>1. m \in DOMAIN scores /\ scores[m] * TicksPerMs + phase <= granted[m] + TicksPerMs - 1
    BY <1>6 DEF WindowInv, RecentStays
  <2>2. granted[m] \in Nat /\ granted[m] <= Span * TicksPerMs - TicksPerMs
    <3>1. granted[m] \in 0 .. Span * TicksPerMs
      BY <1>1, WindowLengths
    <3> QED
      BY <1>0, <1>6, <3>1 DEF Recent
  <2>3. scores[m] \in Nat /\ scores[m] * TicksPerMs \in Nat
    <3>1. scores[m] \in Nat
      BY <1>0, <1>2, <2>1
    <3> QED
      BY <1>0, <3>1
  <2>4. scores[m] * TicksPerMs < Span * TicksPerMs
    BY <1>0, <1>1, <2>1, <2>2, <2>3
  <2>5. scores[m] < Span
    BY <1>0, <2>3, <2>4, Shorter
  <2> QED
    BY <1>3, <2>1, <2>5
<1>7. \A m \in Sliding!Kept : scores[m] \in 0 .. Span - 1
  BY <1>0, <1>2, <1>3
<1> QED
  BY <1>1, <1>2, <1>3, <1>4, <1>5, <1>6, <1>7

\* Nobody is kept after a reset.
LEMMA EmptyWindow ==
    /\ DOMAIN <<>> = {} /\ \A S : <<>> \in [{} -> S]
    /\ Cardinality({}) = 0 /\ IsFiniteSet({})
BY FS_EmptySet


\* An executed call: its member gets a new score if there is room, and in any case the
\* members that are no longer kept go.
LEMMA CallRecorded ==
    ASSUME WindowInv, NEW m \in Members, Sliding!Record(m)
    PROVE  /\ DOMAIN scores' \subseteq Members /\ IsFiniteSet(DOMAIN scores')
           /\ scores' \in [DOMAIN scores' -> 0 .. Sliding!TtlMs - 1]
           /\ \A n \in Sliding!Kept : n \in DOMAIN scores' /\ (n # m => scores'[n] = scores[n])
           /\ Cardinality(Sliding!Kept) < Limit =>
                m \in DOMAIN scores' /\ scores'[m] = 0
           /\ ~(Cardinality(Sliding!Kept) < Limit) =>
                Sliding!Kept' = Sliding!Kept /\ \A n \in Sliding!Kept : scores'[n] = scores[n]
           /\ Cardinality(Sliding!Kept') <= Limit
<1>0. /\ Span \in Nat \ {0} /\ Sliding!TtlMs \in Nat /\ Limit \in Nat
      /\ Sliding!TtlMs >= Span + 1
  BY WindowLengths
<1>1. /\ Sliding!Kept \subseteq DOMAIN scores /\ DOMAIN scores \subseteq Members
      /\ IsFiniteSet(Sliding!Kept) /\ Cardinality(Sliding!Kept) \in Nat
      /\ \A n \in DOMAIN scores : scores[n] \in 0 .. Sliding!TtlMs - 1
      /\ \A n \in Sliding!Kept : scores[n] \in 0 .. Span - 1
  BY KeptFacts
<1>2. Sliding!Allowed(Sliding!Cardinality(Sliding!Kept)) <=> Cardinality(Sliding!Kept) < Limit
  BY WindowCardinality DEF Sliding!Allowed
<1>3. Sliding!Kept' = {n \in DOMAIN scores' : scores'[n] < Span}
  BY DEF Sliding!Kept, Span, Sliding!WindowMs
<1>4. CASE Cardinality(Sliding!Kept) < Limit
  <2>1. scores' = [n \in Sliding!Kept \cup {m} |-> IF n = m THEN 0 ELSE scores[n]]
    BY <1>2, <1>4 DEF Sliding!Record
  <2>2. /\ DOMAIN scores' = Sliding!Kept \cup {m}
        /\ \A n \in Sliding!Kept \cup {m} : scores'[n] = IF n = m THEN 0 ELSE scores[n]
    BY <2>1
  <2>3. scores' \in [DOMAIN scores' -> 0 .. Sliding!TtlMs - 1]
    BY <1>0, <1>1, <2>1, <2>2
  <2>4. IsFiniteSet(Sliding!Kept \cup {m}) /\ Cardinality(Sliding!Kept \cup {m}) <= Limit
    <3>1. /\ IsFiniteSet(Sliding!Kept \cup {m})
          /\ Cardinality(Sliding!Kept \cup {m}) =
                IF m \in Sliding!Kept THEN Cardinality(Sliding!Kept)
                ELSE Cardinality(Sliding!Kept) + 1
      BY <1>1, FS_AddElement
    <3> QED
      BY <1>0, <1>1, <1>4, <3>1
  <2>5. Sliding!Kept' = Sliding!Kept \cup {m}
    BY <1>0, <1>1, <1>3, <2>2
  <2> QED
    BY <1>1, <1>4, <2>2, <2>3, <2>4, <2>5
<1>5. CASE ~(Cardinality(Sliding!Kept) < Limit)
  <2>1. scores' = [n \in Sliding!Kept |-> scores[n]]
    BY <1>2, <1>5 DEF Sliding!Record, Sliding!Restrict
  <2>2. /\ DOMAIN scores' = Sliding!Kept
        /\ \A n \in Sliding!Kept : scores'[n] = scores[n]
    BY <2>1
  <2>3. scores' \in [DOMAIN scores' -> 0 .. Sliding!TtlMs - 1]
    BY <1>0, <1>1, <2>1, <2>2
  <2>4. Sliding!Kept' = Sliding!Kept
    BY <1>0, <1>1, <1>3, <2>2
  <2>5. Cardinality(Sliding!Kept) <= Limit
    BY DEF WindowInv
  <2> QED
    BY <1>1, <1>5, <2>2, <2>3, <2>4, <2>5
<1> QED
  BY <1>4, <1>5

\* After it, recent permissions have their scores as before, and so does a new one.
LEMMA RecordStays ==
    ASSUME WindowInv, NEW m \in Members, Sliding!Record(m), UNCHANGED phase,
           \/ granted' = granted
           \/ granted' = [granted EXCEPT ![m] = 0] /\ Cardinality(Sliding!Kept) < Limit
    PROVE  RecentStays'
<1>0. TicksPerMs \in Nat \ {0} /\ phase \in 0 .. TicksPerMs - 1
      /\ granted \in [Members -> 0 .. Sliding!LongAgo] /\ Sliding!LongAgo \in Nat
  BY WindowLengths DEF WindowInv, Sliding!TypeOK
<1>1. /\ \A n \in Sliding!Kept : n \in DOMAIN scores' /\ (n # m => scores'[n] = scores[n])
      /\ Cardinality(Sliding!Kept) < Limit => m \in DOMAIN scores' /\ scores'[m] = 0
      /\ ~(Cardinality(Sliding!Kept) < Limit) => \A n \in Sliding!Kept : scores'[n] = scores[n]
  BY CallRecorded
<1> SUFFICES ASSUME NEW n \in Members, granted'[n] <= (Span - 1) * TicksPerMs
             PROVE  /\ n \in DOMAIN scores'
                    /\ scores'[n] * TicksPerMs + phase <= granted'[n] + TicksPerMs - 1
  BY DEF RecentStays, Recent, Span, Sliding!WindowMs
<1>2. CASE n = m /\ Cardinality(Sliding!Kept) < Limit
  <2>1. n \in DOMAIN scores' /\ scores'[n] = 0
    BY <1>1, <1>2
  <2>2. granted'[n] \in Nat
    BY <1>0
  <2> QED
    BY <1>0, <2>1, <2>2
<1>3. CASE ~(n = m /\ Cardinality(Sliding!Kept) < Limit)
  <2>1. granted'[n] = granted[n]
    BY <1>0, <1>3
  <2>2. n \in Sliding!Kept /\ scores[n] * TicksPerMs + phase <= granted[n] + TicksPerMs - 1
    BY <2>1, KeptFacts DEF WindowInv, RecentStays, Recent
  <2>3. n \in DOMAIN scores' /\ scores'[n] = scores[n]
    BY <1>1, <1>3, <2>2
  <2> QED
    BY <2>1, <2>2, <2>3
<1> QED
  BY <1>2, <1>3

\* A refusal says how long the oldest member is kept.
LEMMA OldestLeaves ==
    ASSUME WindowInv, ~(Cardinality(Sliding!Kept) < Limit)
    PROVE  /\ Sliding!RetryAfter * TicksPerMs \in 0 .. Sliding!LongAgo
           /\ \E m \in Sliding!Kept : Sliding!RetryAfter = Span - scores[m]
<1>0. /\ Span \in Nat \ {0} /\ TicksPerMs \in Nat \ {0} /\ Limit \in Nat \ {0}
      /\ Sliding!LongAgo = Span * TicksPerMs
  BY WindowLengths
<1>1. /\ IsFiniteSet(Sliding!Kept)
      /\ \A m \in Sliding!Kept : scores[m] \in 0 .. Span - 1
  BY KeptFacts
<1>2. Sliding!Kept # {}
  BY <1>0, FS_EmptySet
<1> DEFINE ages == {scores[m] : m \in Sliding!Kept}
<1>3. Sliding!RetryAfter = Span - Sliding!Max(ages)
  BY DEF Sliding!RetryAfter, Span, Sliding!WindowMs
<1>4. ages \in SUBSET Int /\ ages # {} /\ \A n \in ages : n <= Span
  BY <1>0, <1>1, <1>2
<1>5. Sliding!Max(ages) \in ages
  <2> HIDE DEF ages
  <2>1. \E x \in ages : \A y \in ages : x >= y
    <3>1. Span \in Int
      BY <1>0
    <3> QED
      BY <1>4, <3>1, Greatest, Zenon
  <2> QED
    BY <2>1 DEF Sliding!Max
<1>6. PICK m \in Sliding!Kept : Sliding!Max(ages) = scores[m]
  BY <1>5
<1> HIDE DEF ages
<1>7. Sliding!RetryAfter = Span - scores[m] /\ scores[m] \in 0 .. Span - 1
  BY <1>1, <1>3, <1>6
<1>8. PICK s \in 0 .. Span - 1 : s = scores[m]
  BY <1>7
<1>9. /\ (Span - s) * TicksPerMs = Span * TicksPerMs - s * TicksPerMs
      /\ (Span - s) * TicksPerMs \in Nat /\ s * TicksPerMs \in Nat
      /\ Span * TicksPerMs \in Nat
  <2>1. s \in Nat /\ Span - s \in Nat
    BY <1>0
  <2> QED
    BY <1>0, <2>1
<1> QED
  BY <1>0, <1>7, <1>8, <1>9


\* In a new millisecond the members of the window stay, and their scores are one older.
LEMMA WindowAges ==
    ASSUME WindowInv, scores' = Sliding!Aged
    PROVE  /\ DOMAIN scores' \subseteq DOMAIN scores
           /\ scores' \in [DOMAIN scores' -> 0 .. Sliding!TtlMs - 1]
           /\ \A m \in Sliding!Kept : m \in DOMAIN scores' /\ scores'[m] = scores[m] + 1
           /\ Sliding!Kept' \subseteq Sliding!Kept
<1>0. /\ Span \in Nat \ {0} /\ Sliding!TtlMs \in Nat /\ Sliding!TtlMs >= Span + 1
  BY WindowLengths
<1>1. /\ Sliding!Kept \subseteq DOMAIN scores
      /\ \A n \in DOMAIN scores : scores[n] \in 0 .. Sliding!TtlMs - 1
      /\ \A n \in Sliding!Kept : scores[n] \in 0 .. Span - 1
  BY KeptFacts
<1>2. /\ Sliding!Kept = {m \in DOMAIN scores : scores[m] < Span}
      /\ Sliding!Kept' = {m \in DOMAIN scores' : scores'[m] < Span}
  BY DEF Sliding!Kept, Span, Sliding!WindowMs
<1>3. CASE \A m \in DOMAIN scores : scores[m] + 1 >= Sliding!TtlMs
  <2>1. scores' = <<>>
    BY <1>3 DEF Sliding!Aged
  <2>2. DOMAIN scores' = {} /\ scores' \in [{} -> 0 .. Sliding!TtlMs - 1]
    BY <2>1, EmptyWindow
  <2>3. Sliding!Kept = {}
    <3>1. ASSUME NEW m \in Sliding!Kept PROVE FALSE
      BY <1>0, <1>1, <1>3, <3>1
    <3> QED
      BY <3>1
  <2> QED
    BY <1>2, <2>2, <2>3
<1>4. CASE ~(\A m \in DOMAIN scores : scores[m] + 1 >= Sliding!TtlMs)
  <2>1. scores' = [m \in DOMAIN scores |-> Sliding!Min({scores[m] + 1, Sliding!TtlMs - 1})]
    BY <1>4 DEF Sliding!Aged
  <2>2. DOMAIN scores' = DOMAIN scores
    BY <2>1
  <2>3. ASSUME NEW m \in DOMAIN scores
        PROVE  scores'[m] = IF scores[m] + 1 <= Sliding!TtlMs - 1 THEN scores[m] + 1
                            ELSE Sliding!TtlMs - 1
    <3>1. scores'[m] = Sliding!Min({scores[m] + 1, Sliding!TtlMs - 1})
      BY <2>1
    <3>2. scores[m] + 1 \in Int /\ Sliding!TtlMs - 1 \in Int
      BY <1>0, <1>1
    <3> QED
      BY <3>1, <3>2, LesserOfTwo
  <2>4. \A m \in DOMAIN scores : scores'[m] \in 0 .. Sliding!TtlMs - 1
    BY <1>0, <1>1, <2>3
  <2>5. scores' \in [DOMAIN scores' -> 0 .. Sliding!TtlMs - 1]
    BY <2>1, <2>2, <2>4
  <2>6. \A m \in Sliding!Kept : scores'[m] = scores[m] + 1
    BY <1>0, <1>1, <2>3
  <2>7. Sliding!Kept' \subseteq Sliding!Kept
    <3>1. ASSUME NEW m \in DOMAIN scores, scores'[m] < Span PROVE scores[m] < Span
      BY <1>0, <1>1, <2>3, <3>1
    <3> QED
      BY <1>2, <2>2, <3>1
  <2> QED
    BY <1>1, <2>2, <2>5, <2>6, <2>7
<1> QED
  BY <1>3, <1>4

\* The passage of a tick.
LEMMA WindowTick == WindowInv /\ Sliding!Tick => WindowInv'
<1> SUFFICES ASSUME WindowInv, Sliding!Tick PROVE WindowInv'
  OBVIOUS
<1>0. /\ phase \in 0 .. TicksPerMs - 1
      /\ DOMAIN scores \subseteq Members
      /\ scores \in [DOMAIN scores -> 0 .. Sliding!TtlMs - 1]
      /\ unheard \subseteq Members /\ granted \in [Members -> 0 .. Sliding!LongAgo]
      /\ delay \in -1 .. Sliding!LongAgo
      /\ IsFiniteSet(DOMAIN scores) /\ Cardinality(Sliding!Kept) <= Limit
      /\ RecentStays /\ RoomInTime
  BY DEF WindowInv, Sliding!TypeOK
<1>w. /\ Span \in Nat \ {0} /\ TicksPerMs \in Nat \ {0} /\ Limit \in Nat \ {0}
      /\ Sliding!LongAgo = Span * TicksPerMs /\ Span * TicksPerMs \in Nat
      /\ (Span - 1) * TicksPerMs = Span * TicksPerMs - TicksPerMs
      /\ (Span - 1) * TicksPerMs \in Nat
  BY WindowLengths
<1>k. /\ Sliding!Kept \subseteq DOMAIN scores
      /\ IsFiniteSet(Sliding!Kept) /\ Cardinality(Sliding!Kept) \in Nat
      /\ \A m \in Sliding!Kept : scores[m] \in 0 .. Span - 1
      /\ \A m \in Members : Recent(m) => m \in Sliding!Kept
  BY KeptFacts
<1>f. /\ Sliding!Kept = {m \in DOMAIN scores : scores[m] < Span}
      /\ Sliding!Kept' = {m \in DOMAIN scores' : scores'[m] < Span}
  BY DEF Sliding!Kept, Span, Sliding!WindowMs
<1>1. /\ phase' = (phase + 1) % TicksPerMs
      /\ scores' = IF phase' = 0 THEN Sliding!Aged ELSE scores
      /\ granted' = [m \in Members |-> Sliding!Min({granted[m] + 1, Sliding!LongAgo})]
      /\ delay' = IF delay > 0 THEN delay - 1 ELSE delay
      /\ UNCHANGED unheard
  BY DEF Sliding!Tick
<1>2. phase' = IF phase + 1 = TicksPerMs THEN 0 ELSE phase + 1
  BY <1>0, <1>1, <1>w, NextPhase
<1>3. \A m \in Members : granted'[m] = IF granted[m] + 1 <= Span * TicksPerMs THEN granted[m] + 1
                                       ELSE Span * TicksPerMs
  <2>1. ASSUME NEW m \in Members
        PROVE  granted'[m] = IF granted[m] + 1 <= Span * TicksPerMs THEN granted[m] + 1
                             ELSE Span * TicksPerMs
    <3>1. granted'[m] = Sliding!Min({granted[m] + 1, Span * TicksPerMs})
      BY <1>1, <1>w
    <3>2. granted[m] + 1 \in Int /\ Span * TicksPerMs \in Int
      BY <1>0, <1>w
    <3> QED
      BY <3>1, <3>2, LesserOfTwo
  <2> QED
    BY <2>1
\* What the scores are afterwards.
<1>4. /\ DOMAIN scores' \subseteq DOMAIN scores
      /\ scores' \in [DOMAIN scores' -> 0 .. Sliding!TtlMs - 1]
      /\ Sliding!Kept' \subseteq Sliding!Kept
      /\ \A m \in Sliding!Kept : /\ m \in DOMAIN scores'
                                 /\ scores'[m] = IF phase' = 0 THEN scores[m] + 1 ELSE scores[m]
  <2>1. CASE phase' = 0
    <3>1. scores' = Sliding!Aged
      BY <1>1, <2>1
    <3> QED
      BY <2>1, <3>1, WindowAges
  <2>2. CASE phase' # 0
    BY <1>0, <1>1, <1>f, <1>k, <2>2
  <2> QED
    BY <2>1, <2>2
<1>5. IsFiniteSet(DOMAIN scores') /\ DOMAIN scores' \subseteq Members
  BY <1>0, <1>4, FS_Subset
<1>6. Cardinality(Sliding!Kept') <= Cardinality(Sliding!Kept) /\ Cardinality(Sliding!Kept') \in Nat
  <2>1. /\ IsFiniteSet(Sliding!Kept') /\ Cardinality(Sliding!Kept') <= Cardinality(Sliding!Kept)
    BY <1>4, <1>k, FS_Subset
  <2> QED
    BY <2>1, FS_CardinalityType
\* The clock of a score goes on with the ticks.
<1>7. ASSUME NEW m \in Sliding!Kept
      PROVE  /\ scores[m] * TicksPerMs \in Nat /\ scores'[m] * TicksPerMs \in Nat
             /\ scores'[m] * TicksPerMs + phase' = scores[m] * TicksPerMs + phase + 1
  <2>1. PICK s \in Nat : s = scores[m]
    BY <1>k, <1>w
  <2>2. (s + 1) * TicksPerMs = s * TicksPerMs + TicksPerMs /\ s * TicksPerMs \in Nat
        /\ (s + 1) * TicksPerMs \in Nat
    BY <1>w
  <2>3. scores'[m] = IF phase' = 0 THEN s + 1 ELSE s
    BY <1>4, <2>1
  <2>4. CASE phase' = 0
    <3>1. phase + 1 = TicksPerMs /\ scores'[m] = s + 1
      BY <1>0, <1>2, <1>w, <2>3, <2>4
    <3> QED
      BY <1>0, <1>w, <2>1, <2>2, <2>4, <3>1
  <2>5. CASE phase' # 0
    <3>1. phase' = phase + 1 /\ scores'[m] = s
      BY <1>2, <2>3, <2>5
    <3> QED
      <4>1. scores[m] * TicksPerMs = s * TicksPerMs /\ scores'[m] * TicksPerMs = s * TicksPerMs
        BY <2>1, <3>1
      <4>2. PICK n \in Nat : n = s * TicksPerMs
        BY <2>2
      <4> QED
        BY <1>0, <3>1, <4>1, <4>2
  <2> QED
    BY <2>4, <2>5
<1>8. RecentStays'
  <2> SUFFICES ASSUME NEW m \in Members, granted'[m] <= (Span - 1) * TicksPerMs
               PROVE  /\ m \in DOMAIN scores'
                      /\ scores'[m] * TicksPerMs + phase' <= granted'[m] + TicksPerMs - 1
    BY DEF RecentStays, Recent, Span, Sliding!WindowMs
  <2>1. granted[m] \in Nat
    BY <1>0, <1>w
  <2>2. granted'[m] = granted[m] + 1 /\ granted[m] <= (Span - 1) * TicksPerMs
    BY <1>3, <1>w, <2>1
  <2>3. m \in Sliding!Kept /\ scores[m] * TicksPerMs + phase <= granted[m] + TicksPerMs - 1
    BY <1>0, <1>k, <2>2 DEF RecentStays, Recent
  <2> QED
    BY <1>0, <1>4, <1>7, <1>w, <2>1, <2>2, <2>3
<1>9. RoomInTime'
  <2> SUFFICES ASSUME delay' >= 0
               PROVE  \/ Cardinality(Sliding!Kept') < Limit
                      \/ \E m \in Sliding!Kept' :
                            (Span - scores'[m]) * TicksPerMs <= delay' + phase'
    BY DEF RoomInTime, Span, Sliding!WindowMs
  <2>1. CASE Cardinality(Sliding!Kept) < Limit
    BY <1>6, <1>k, <1>w, <2>1
  <2>2. CASE ~(Cardinality(Sliding!Kept) < Limit)
    <3>1. delay \in Nat
      BY <1>0, <1>1, <1>w
    <3>2. PICK m \in Sliding!Kept : (Span - scores[m]) * TicksPerMs <= delay + phase
      BY <1>0, <2>2, <3>1 DEF RoomInTime
    <3>3. PICK s \in 0 .. Span - 1 : s = scores[m]
      BY <1>k
    <3>4. /\ (Span - s) * TicksPerMs = Span * TicksPerMs - s * TicksPerMs
          /\ (Span - s) * TicksPerMs >= TicksPerMs
          /\ s * TicksPerMs \in Nat
      <4>1. PICK d \in Nat : Span = s + 1 + d
        <5>1. Span - s - 1 \in Nat /\ Span = s + 1 + (Span - s - 1)
          BY <1>w
        <5> QED
          BY <5>1
      <4>2. d * TicksPerMs \in Nat /\ s \in Nat
        BY <1>w, <4>1
      <4>3. (Span - s) * TicksPerMs = TicksPerMs + d * TicksPerMs
        BY <1>w, <4>1, <4>2
      <4>4. Span * TicksPerMs = s * TicksPerMs + TicksPerMs + d * TicksPerMs
        BY <1>w, <4>1, <4>2
      <4>5. s * TicksPerMs \in Nat
        BY <1>w, <4>2
      <4> QED
        BY <1>w, <4>2, <4>3, <4>4, <4>5
    <3>5. delay > 0 /\ delay' = delay - 1
      <4>1. TicksPerMs <= delay + phase
        BY <1>0, <1>w, <3>1, <3>2, <3>3, <3>4
      <4>2. delay > 0
        BY <1>0, <1>w, <3>1, <4>1
      <4> QED
        BY <1>1, <4>2
    <3>6. CASE m \in Sliding!Kept'
      <4>1. scores'[m] \in 0 .. Span
        BY <1>4, <1>w, <3>3
      <4>2. PICK r \in 0 .. Span : r = scores'[m]
        BY <4>1
      <4>3. (Span - r) * TicksPerMs = Span * TicksPerMs - r * TicksPerMs
        BY <1>w
      <4>4. /\ r * TicksPerMs \in Nat
            /\ r * TicksPerMs + phase' = s * TicksPerMs + phase + 1
        BY <1>7, <3>3, <4>2
      <4>5. Span * TicksPerMs - s * TicksPerMs <= delay + phase
        BY <3>2, <3>3, <3>4
      <4>6. phase' \in Nat
        BY <1>0, <1>2, <1>w
      <4>7. (Span - r) * TicksPerMs <= delay' + phase'
        BY <1>0, <1>w, <3>1, <3>4, <3>5, <4>3, <4>4, <4>5, <4>6
      <4> QED
        BY <3>6, <4>2, <4>7
    <3>7. CASE m \notin Sliding!Kept'
      <4>1. /\ IsFiniteSet(Sliding!Kept \ {m})
            /\ Cardinality(Sliding!Kept \ {m}) = Cardinality(Sliding!Kept) - 1
        BY <1>k, FS_RemoveElement
      <4>2. Sliding!Kept' \subseteq Sliding!Kept \ {m}
        BY <1>4, <3>7
      <4>3. Cardinality(Sliding!Kept') <= Cardinality(Sliding!Kept) - 1
        BY <4>1, <4>2, FS_Subset
      <4> QED
        BY <1>0, <1>6, <1>k, <1>w, <4>3
    <3> QED
      BY <3>6, <3>7
  <2> QED
    BY <2>1, <2>2
<1>10. Sliding!TypeOK'
  <2>1. phase' \in 0 .. TicksPerMs - 1
    BY <1>0, <1>2, <1>w
  <2>2. granted' \in [Members -> 0 .. Sliding!LongAgo]
    <3>1. \A m \in Members : granted'[m] \in 0 .. Sliding!LongAgo
      BY <1>0, <1>3, <1>w
    <3> QED
      BY <1>1, <3>1
  <2>3. delay' \in -1 .. Sliding!LongAgo
    BY <1>0, <1>1, <1>w
  <2> QED
    BY <1>0, <1>1, <1>4, <1>5, <2>1, <2>2, <2>3
       DEF Sliding!TypeOK, Sliding!TtlMs, Sliding!LongAgo, Sliding!WindowMs
<1>11. Cardinality(Sliding!Kept') <= Limit
  BY <1>0, <1>6, <1>k, <1>w
<1> QED
  BY <1>5, <1>8, <1>9, <1>10, <1>11 DEF WindowInv

\* Every step keeps the strengthening.
LEMMA WindowStep == WindowInv /\ [Sliding!Next]_windowVars => WindowInv'
<1> SUFFICES ASSUME WindowInv, [Sliding!Next]_windowVars PROVE WindowInv'
  OBVIOUS
<1>0. /\ phase \in 0 .. TicksPerMs - 1
      /\ DOMAIN scores \subseteq Members
      /\ scores \in [DOMAIN scores -> 0 .. Sliding!TtlMs - 1]
      /\ unheard \subseteq Members /\ granted \in [Members -> 0 .. Sliding!LongAgo]
      /\ delay \in -1 .. Sliding!LongAgo
      /\ IsFiniteSet(DOMAIN scores) /\ Cardinality(Sliding!Kept) <= Limit
      /\ RecentStays /\ RoomInTime
  BY DEF WindowInv, Sliding!TypeOK
<1>w. /\ Span \in Nat \ {0} /\ TicksPerMs \in Nat \ {0} /\ Limit \in Nat \ {0}
      /\ Sliding!TtlMs \in Nat /\ Sliding!TtlMs >= Span + 1
      /\ Sliding!LongAgo = Span * TicksPerMs /\ Span * TicksPerMs \in Nat
      /\ (Span - 1) * TicksPerMs = Span * TicksPerMs - TicksPerMs
      /\ (Span - 1) * TicksPerMs \in Nat
  BY WindowLengths
<1>k. /\ Sliding!Kept \subseteq DOMAIN scores
      /\ IsFiniteSet(Sliding!Kept) /\ Cardinality(Sliding!Kept) \in Nat
      /\ \A m \in Sliding!Kept : scores[m] \in 0 .. Span - 1
  BY KeptFacts
<1>f. /\ Sliding!Kept = {m \in DOMAIN scores : scores[m] < Span}
      /\ Sliding!Kept' = {m \in DOMAIN scores' : scores'[m] < Span}
  BY DEF Sliding!Kept, Span, Sliding!WindowMs
<1>c. Sliding!Allowed(Sliding!Cardinality(Sliding!Kept)) <=> Cardinality(Sliding!Kept) < Limit
  BY WindowCardinality DEF Sliding!Allowed
\* A call was executed, and whoever had an advice still has it.
<1>a. ASSUME NEW m \in Members, Sliding!Record(m), UNCHANGED phase, unheard' \subseteq Members,
             granted' \in [Members -> 0 .. Sliding!LongAgo],
             \/ granted' = granted
             \/ granted' = [granted EXCEPT ![m] = 0] /\ Cardinality(Sliding!Kept) < Limit,
             \/ delay' = -1
             \/ /\ delay' = delay \/ delay' = Sliding!RetryAfter * TicksPerMs
                /\ ~(Cardinality(Sliding!Kept) < Limit)
      PROVE  WindowInv'
  <2>1. /\ DOMAIN scores' \subseteq Members /\ IsFiniteSet(DOMAIN scores')
        /\ scores' \in [DOMAIN scores' -> 0 .. Sliding!TtlMs - 1]
        /\ ~(Cardinality(Sliding!Kept) < Limit) =>
                Sliding!Kept' = Sliding!Kept /\ \A n \in Sliding!Kept : scores'[n] = scores[n]
        /\ Cardinality(Sliding!Kept') <= Limit
    BY <1>a, CallRecorded
  <2>2. RecentStays'
    BY <1>a, RecordStays
  <2>3. delay' \in -1 .. Sliding!LongAgo
    BY <1>0, <1>a, <1>w, OldestLeaves
  <2>4. RoomInTime'
    <3>1. CASE delay' = -1
      BY <3>1 DEF RoomInTime
    <3>2. CASE delay' = delay /\ ~(Cardinality(Sliding!Kept) < Limit)
      <4>1. ASSUME delay' >= 0
            PROVE  \E n \in Sliding!Kept' : (Span - scores'[n]) * TicksPerMs <= delay' + phase'
        <5>1. PICK n \in Sliding!Kept : (Span - scores[n]) * TicksPerMs <= delay + phase
          BY <1>0, <3>2, <4>1 DEF RoomInTime
        <5> QED
          BY <1>a, <2>1, <3>2, <5>1
      <4> QED
        BY <4>1 DEF RoomInTime, Span, Sliding!WindowMs
    <3>3. CASE delay' = Sliding!RetryAfter * TicksPerMs /\ ~(Cardinality(Sliding!Kept) < Limit)
      <4>1. PICK n \in Sliding!Kept : Sliding!RetryAfter = Span - scores[n]
        BY <3>3, OldestLeaves
      <4>2. n \in Sliding!Kept' /\ scores'[n] = scores[n]
        BY <2>1, <3>3
      <4>3. delay' \in Nat
        BY <1>w, <3>3, OldestLeaves
      <4>4. (Span - scores'[n]) * TicksPerMs <= delay' + phase'
        <5>1. (Span - scores'[n]) * TicksPerMs = delay'
          BY <3>3, <4>1, <4>2
        <5> QED
          BY <1>0, <1>a, <1>w, <4>3, <5>1
      <4> QED
        BY <4>2, <4>4 DEF RoomInTime, Span, Sliding!WindowMs
    <3> QED
      BY <1>a, <3>1, <3>2, <3>3
  <2>5. Sliding!TypeOK'
    <3>1. phase' \in 0 .. TicksPerMs - 1
      BY <1>0, <1>a
    <3> QED
      BY <1>a, <2>1, <2>3, <3>1 DEF Sliding!TypeOK, Sliding!TtlMs, Sliding!LongAgo, Sliding!WindowMs
  <2> QED
    BY <2>1, <2>2, <2>4, <2>5 DEF WindowInv
<1>1. ASSUME NEW m \in Members, Sliding!Acquire(m) PROVE WindowInv'
  <2>1. /\ Sliding!Record(m) /\ UNCHANGED phase /\ unheard' = unheard \ {m}
        /\ IF Sliding!Allowed(Sliding!Cardinality(Sliding!Kept))
           THEN granted' = [granted EXCEPT ![m] = 0] /\ delay' = -1
           ELSE delay' = Sliding!RetryAfter * TicksPerMs /\ UNCHANGED granted
    BY <1>1 DEF Sliding!Acquire
  <2>2. CASE Cardinality(Sliding!Kept) < Limit
    <3>1. granted' = [granted EXCEPT ![m] = 0] /\ delay' = -1
      BY <1>c, <2>1, <2>2
    <3>2. granted' \in [Members -> 0 .. Sliding!LongAgo]
      BY <1>0, <1>w, <3>1
    <3>3. unheard' \subseteq Members
      BY <1>0, <2>1
    <3> QED
      BY <1>a, <2>1, <2>2, <3>1, <3>2, <3>3
  <2>3. CASE ~(Cardinality(Sliding!Kept) < Limit)
    <3>1. granted' = granted /\ delay' = Sliding!RetryAfter * TicksPerMs
      BY <1>c, <2>1, <2>3
    <3>2. granted' \in [Members -> 0 .. Sliding!LongAgo]
      BY <1>0, <3>1
    <3>3. unheard' \subseteq Members
      BY <1>0, <2>1
    <3> QED
      BY <1>a, <2>1, <2>3, <3>1, <3>2, <3>3
  <2> QED
    BY <2>2, <2>3
<1>2. ASSUME NEW m \in Members, Sliding!AcquireUnheard(m) PROVE WindowInv'
  <2>1. /\ Sliding!Record(m) /\ UNCHANGED <<phase, granted>> /\ unheard' = unheard \cup {m}
        /\ delay' = IF Sliding!Allowed(Sliding!Cardinality(Sliding!Kept)) THEN -1 ELSE delay
    BY <1>2 DEF Sliding!AcquireUnheard
  <2>2. \/ delay' = -1
        \/ delay' = delay /\ ~(Cardinality(Sliding!Kept) < Limit)
    BY <1>c, <2>1
  <2>3. granted' \in [Members -> 0 .. Sliding!LongAgo] /\ unheard' \subseteq Members
    BY <1>0, <2>1
  <2> QED
    BY <1>a, <2>1, <2>2, <2>3
<1>3. ASSUME NEW m \in Members, Sliding!Abandon(m) PROVE WindowInv'
  <2>1. UNCHANGED <<phase, scores, granted, delay>> /\ unheard' = unheard \ {m}
    BY <1>3 DEF Sliding!Abandon
  <2> QED
    BY <1>0, <2>1 DEF WindowInv, Sliding!TypeOK, RecentStays, Recent, RoomInTime, Sliding!Kept,
        Span, Sliding!WindowMs, Sliding!TtlMs, Sliding!LongAgo
<1>4. CASE Sliding!Reset
  <2>1. /\ scores' = <<>> /\ granted' = [m \in Members |-> Sliding!LongAgo]
        /\ UNCHANGED <<phase, unheard, delay>>
    BY <1>4 DEF Sliding!Reset
  <2>2. /\ DOMAIN scores' = {} /\ scores' \in [{} -> 0 .. Sliding!TtlMs - 1]
        /\ Cardinality({}) = 0 /\ IsFiniteSet({})
    BY <2>1, EmptyWindow
  <2>3. Sliding!Kept' = {}
    BY <1>f, <2>2
  <2>4. Cardinality(Sliding!Kept') = 0
    BY <2>2, <2>3
  <2>5. RecentStays'
    <3>1. \A m \in Members : ~(granted'[m] <= (Span - 1) * TicksPerMs)
      BY <1>w, <2>1
    <3> QED
      BY <3>1 DEF RecentStays, Recent, Span, Sliding!WindowMs
  <2>6. RoomInTime'
    BY <1>w, <2>4 DEF RoomInTime
  <2>7. Sliding!TypeOK'
    <3>1. granted' \in [Members -> 0 .. Sliding!LongAgo]
      BY <1>w, <2>1
    <3>2. DOMAIN scores' \subseteq Members /\ scores' \in [DOMAIN scores' -> 0 .. Sliding!TtlMs - 1]
      BY <2>2
    <3> QED
      BY <1>0, <2>1, <3>1, <3>2 DEF Sliding!TypeOK, Sliding!TtlMs, Sliding!LongAgo, Sliding!WindowMs
  <2>8. Cardinality(Sliding!Kept') <= Limit
    BY <1>w, <2>4
  <2> QED
    BY <2>2, <2>5, <2>6, <2>7, <2>8 DEF WindowInv
<1>5. CASE Sliding!Tick
  BY <1>5, WindowTick
<1>6. CASE UNCHANGED windowVars
  BY <1>0, <1>6 DEF windowVars, WindowInv, Sliding!TypeOK, RecentStays, Recent, RoomInTime,
      Sliding!Kept, Span, Sliding!WindowMs, Sliding!TtlMs, Sliding!LongAgo
<1> QED
  BY <1>1, <1>2, <1>3, <1>4, <1>5, <1>6 DEF Sliding!Next


\* At first the window is empty.
LEMMA WindowStart == Sliding!Init => WindowInv
<1> SUFFICES ASSUME Sliding!Init PROVE WindowInv
  OBVIOUS
<1>w. /\ Span \in Nat \ {0} /\ TicksPerMs \in Nat \ {0} /\ Limit \in Nat \ {0}
      /\ Sliding!LongAgo = Span * TicksPerMs /\ Span * TicksPerMs \in Nat
      /\ (Span - 1) * TicksPerMs = Span * TicksPerMs - TicksPerMs
  BY WindowLengths
<1>1. /\ phase = 0 /\ scores = <<>> /\ unheard = {} /\ delay = -1
      /\ granted = [m \in Members |-> Sliding!LongAgo]
  BY DEF Sliding!Init
<1>2. /\ DOMAIN scores = {} /\ scores \in [{} -> 0 .. Sliding!TtlMs - 1]
      /\ Cardinality({}) = 0 /\ IsFiniteSet({})
  BY <1>1, EmptyWindow
<1>3. Sliding!Kept = {}
  BY <1>2 DEF Sliding!Kept
<1>4. Cardinality(Sliding!Kept) <= Limit
  BY <1>2, <1>3, <1>w
<1>5. RecentStays
  <2>1. \A m \in Members : ~Recent(m)
    BY <1>1, <1>w DEF Recent
  <2> QED
    BY <2>1 DEF RecentStays
<1>6. RoomInTime
  BY <1>1 DEF RoomInTime
<1>7. Sliding!TypeOK
  <2>1. granted \in [Members -> 0 .. Sliding!LongAgo] /\ delay \in -1 .. Sliding!LongAgo
    BY <1>1, <1>w
  <2>2. DOMAIN scores \subseteq Members /\ scores \in [DOMAIN scores -> 0 .. Sliding!TtlMs - 1]
    BY <1>2
  <2>3. phase \in 0 .. TicksPerMs - 1 /\ unheard \subseteq Members
    BY <1>1, <1>w
  <2> QED
    BY <2>1, <2>2, <2>3 DEF Sliding!TypeOK
<1> QED
  BY <1>2, <1>4, <1>5, <1>6, <1>7 DEF WindowInv

\* Both properties of the window follow.
LEMMA WindowKept == WindowInv => Sliding!LimitNeverExceeded /\ Sliding!AdviceSuffices
<1> SUFFICES ASSUME WindowInv PROVE Sliding!LimitNeverExceeded /\ Sliding!AdviceSuffices
  OBVIOUS
<1>w. Span \in Nat \ {0} /\ TicksPerMs \in Nat \ {0} /\ Limit \in Nat \ {0}
  BY WindowLengths
<1>k. /\ IsFiniteSet(Sliding!Kept) /\ Cardinality(Sliding!Kept) \in Nat
      /\ \A m \in Sliding!Kept : scores[m] \in 0 .. Span - 1
      /\ \A m \in Members : Recent(m) => m \in Sliding!Kept
  BY KeptFacts
<1>0. Cardinality(Sliding!Kept) <= Limit /\ RoomInTime /\ phase \in 0 .. TicksPerMs - 1
  BY DEF WindowInv, Sliding!TypeOK
<1>1. Sliding!LimitNeverExceeded
  <2> DEFINE recent == {m \in Members : granted[m] <= (Sliding!WindowMs - 1) * TicksPerMs}
  <2>1. recent \subseteq Sliding!Kept
    BY <1>k DEF Recent, Span
  <2> HIDE DEF recent
  <2>2. IsFiniteSet(recent) /\ Cardinality(recent) <= Cardinality(Sliding!Kept)
    BY <1>k, <2>1, FS_Subset
  <2>3. Cardinality(recent) \in Nat
    BY <2>2, FS_CardinalityType
  <2>4. Cardinality(recent) <= Limit
    BY <1>0, <1>k, <1>w, <2>2, <2>3
  <2> QED
    BY <2>4, WindowCardinality DEF Sliding!LimitNeverExceeded, recent
<1>2. ASSUME delay = 0 PROVE Cardinality(Sliding!Kept) < Limit
  <2>1. ASSUME NEW m \in Sliding!Kept PROVE ~((Span - scores[m]) * TicksPerMs <= delay + phase)
    <3>1. PICK d \in Nat : Span - scores[m] = 1 + d
      <4>1. scores[m] \in 0 .. Span - 1
        BY <1>k
      <4>2. Span - scores[m] - 1 \in Nat /\ Span - scores[m] = 1 + (Span - scores[m] - 1)
        BY <1>w, <4>1
      <4> QED
        BY <4>2
    <3>2. (Span - scores[m]) * TicksPerMs = TicksPerMs + d * TicksPerMs
      BY <1>w, <3>1
    <3>3. d * TicksPerMs \in Nat
      BY <1>w, <3>1
    <3> QED
      BY <1>0, <1>2, <1>w, <3>2, <3>3
  <2> QED
    BY <1>0, <1>2, <2>1 DEF RoomInTime
<1>3. Sliding!AdviceSuffices
  BY <1>2, WindowCardinality DEF Sliding!AdviceSuffices, Sliding!Allowed
<1> QED
  BY <1>1, <1>3

----------------------------------------------------------------------------
(* Delay queue *)

DelayedInv == Delayed!TypeOK /\ Delayed!ItemsAccountedFor

\* There are a longest and a shortest delay.
LEMMA DelayRange ==
    /\ Delays \subseteq Nat /\ MaxSends \in Nat /\ Delayed!Longest \in Nat
    /\ \A d \in Delays : d \in 0 .. Delayed!Longest
    /\ Delayed!Min(Delays) \in Delays
<1>1. Delays \subseteq Nat /\ MaxSends \in Nat /\ \E n \in Delays : \A m \in Delays : m <= n
  BY ToolkitAssumption DEF Delayed!DelayQueueAssumption
<1>2. PICK n \in Delays : \A m \in Delays : m <= n
  BY <1>1
<1> DEFINE S == Delays \cup {0}
<1>3. n \in S /\ \A m \in S : n >= m
  BY <1>1, <1>2
<1>4. Delayed!Longest = Delayed!Max(S)
  BY DEF Delayed!Longest
<1>5. Delayed!Max(S) \in S /\ \A m \in S : Delayed!Max(S) >= m
  <2> HIDE DEF S
  <2> QED
    BY <1>3 DEF Delayed!Max
<1>6. Delayed!Longest \in Nat /\ \A d \in Delays : d \in 0 .. Delayed!Longest
  <2>1. PICK top \in S : top = Delayed!Longest /\ \A m \in S : top >= m
    BY <1>4, <1>5
  <2>2. top \in Nat
    BY <1>1, <2>1
  <2>3. ASSUME NEW d \in Delays PROVE d \in 0 .. top
    <3>1. d \in Nat
      BY <1>1
    <3>2. d \in S
      OBVIOUS
    <3>3. top >= d
      BY <2>1, <3>2
    <3> HIDE DEF S
    <3> QED
      BY <2>2, <3>1, <3>3
  <2> QED
    BY <2>1, <2>2, <2>3
<1>7. Delayed!Min(Delays) \in Delays
  <2>1. Delays \in SUBSET Nat /\ Delays # {}
    BY <1>1
  <2>2. \E x \in Delays : \A y \in Delays : x <= y
    BY <2>1, Least
  <2> QED
    BY <2>2 DEF Delayed!Min
<1> QED
  BY <1>1, <1>6, <1>7

\* A put stores its item once, whether it was there or not.
LEMMA PutStores ==
    ASSUME DelayedInv, NEW i \in Items, NEW d \in Delays, Delayed!Execute(i, d),
           sending' \subseteq Items
    PROVE  DelayedInv'
<1>0. /\ DOMAIN due \subseteq Items /\ due \in [DOMAIN due -> -Delayed!Longest .. Delayed!Longest]
      /\ delays \in [Items -> Delays] /\ sends \in [Items -> 0 .. MaxSends]
      /\ given \in [Items -> 0 .. MaxSends] /\ dropped \in [Items -> 0 .. MaxSends]
      /\ early = {}
  BY DEF DelayedInv, Delayed!TypeOK, Delayed!ItemsAccountedFor
<1>r. /\ MaxSends \in Nat /\ Delayed!Longest \in Nat
      /\ d \in -Delayed!Longest .. Delayed!Longest
  <2>1. MaxSends \in Nat /\ Delayed!Longest \in Nat /\ d \in 0 .. Delayed!Longest
    BY DelayRange
  <2> QED
    BY <2>1
<1>1. /\ sends[i] < MaxSends /\ sends' = [sends EXCEPT ![i] = sends[i] + 1]
      /\ delays' = [delays EXCEPT ![i] = d]
      /\ due' = [j \in DOMAIN due \cup {i} |-> IF j = i THEN d ELSE due[j]]
      /\ UNCHANGED <<given, dropped, early>>
  BY DEF Delayed!Execute
<1>2. DOMAIN due' = DOMAIN due \cup {i}
  BY <1>1
<1>3. Delayed!TypeOK'
  <2>1. due' \in [DOMAIN due' -> -Delayed!Longest .. Delayed!Longest]
    BY <1>0, <1>1, <1>2, <1>r
  <2>2. sends' \in [Items -> 0 .. MaxSends]
    BY <1>0, <1>1, <1>r
  <2> QED
    BY <1>0, <1>1, <1>2, <2>1, <2>2 DEF Delayed!TypeOK, Delayed!Longest
<1>4. ASSUME NEW j \in Items
      PROVE  LET polled == given'[j] + dropped'[j]
                 stored == IF j \in DOMAIN due' THEN 1 ELSE 0
             IN polled + stored <= sends'[j] /\ (sends'[j] > 0 => polled + stored >= 1)
  <2>1. LET polled == given[j] + dropped[j]
            stored == IF j \in DOMAIN due THEN 1 ELSE 0
        IN polled + stored <= sends[j] /\ (sends[j] > 0 => polled + stored >= 1)
    BY DEF DelayedInv, Delayed!ItemsAccountedFor
  <2>2. sends'[j] = (IF j = i THEN sends[j] + 1 ELSE sends[j]) /\ sends[j] \in Nat
        /\ given[j] \in Nat /\ dropped[j] \in Nat /\ given' = given /\ dropped' = dropped
    BY <1>0, <1>1, <1>r
  <2>3. CASE j = i
    BY <1>2, <2>1, <2>2, <2>3
  <2>4. CASE j # i
    BY <1>2, <2>1, <2>2, <2>4
  <2> QED
    BY <2>3, <2>4
<1>5. Delayed!ItemsAccountedFor'
  BY <1>0, <1>1, <1>4 DEF Delayed!ItemsAccountedFor
<1> QED
  BY <1>3, <1>5 DEF DelayedInv

\* What a poll takes is due.
LEMMA BatchDue ==
    ASSUME NEW T \in Delayed!Batches
    PROVE  T \subseteq DOMAIN due /\ \A i \in T : due[i] <= 0
<1> DEFINE ready == {i \in DOMAIN due : Delayed!IsDue(i)}
           size == Delayed!Min({PollCount, Delayed!Cardinality(ready)})
<1>1. T \in {U \in Delayed!kSubset(size, ready) : \A i \in U, j \in ready \ U : due[i] <= due[j]}
  BY DEF Delayed!Batches
<1>2. T \subseteq ready
  BY <1>1 DEF Delayed!kSubset
<1> QED
  BY <1>2 DEF Delayed!IsDue

\* Whoever polled it, an item that leaves the set is counted once more.
LEMMA TakenOnce ==
    ASSUME DelayedInv, NEW T \in Delayed!Batches, Delayed!Remove(T),
           \/ given' = Delayed!Counted(given, T) /\ dropped' = dropped
           \/ dropped' = Delayed!Counted(dropped, T) /\ given' = given,
           early' = {}, UNCHANGED <<delays, sends, sending>>
    PROVE  DelayedInv'
<1>0. /\ DOMAIN due \subseteq Items /\ due \in [DOMAIN due -> -Delayed!Longest .. Delayed!Longest]
      /\ delays \in [Items -> Delays] /\ sends \in [Items -> 0 .. MaxSends]
      /\ sending \subseteq Items
      /\ given \in [Items -> 0 .. MaxSends] /\ dropped \in [Items -> 0 .. MaxSends]
      /\ MaxSends \in Nat
  BY DelayRange DEF DelayedInv, Delayed!TypeOK
<1>1. due' = [i \in DOMAIN due \ T |-> due[i]]
  BY DEF Delayed!Remove, Delayed!Restrict
<1>2. DOMAIN due' = DOMAIN due \ T
  BY <1>1
<1>3. T \subseteq DOMAIN due
  BY BatchDue
<1>4. ASSUME NEW j \in Items
      PROVE  /\ given'[j] \in Nat /\ dropped'[j] \in Nat
             /\ given'[j] + dropped'[j] =
                    given[j] + dropped[j] + (IF j \in T THEN 1 ELSE 0)
  BY <1>0, <1>4 DEF Delayed!Counted
<1>5. ASSUME NEW j \in Items
      PROVE  LET polled == given'[j] + dropped'[j]
                 stored == IF j \in DOMAIN due' THEN 1 ELSE 0
             IN polled + stored <= sends'[j] /\ (sends'[j] > 0 => polled + stored >= 1)
  <2>1. LET polled == given[j] + dropped[j]
            stored == IF j \in DOMAIN due THEN 1 ELSE 0
        IN polled + stored <= sends[j] /\ (sends[j] > 0 => polled + stored >= 1)
    BY DEF DelayedInv, Delayed!ItemsAccountedFor
  <2>2. /\ given'[j] \in Nat /\ dropped'[j] \in Nat /\ given[j] \in Nat /\ dropped[j] \in Nat
        /\ given'[j] + dropped'[j] = given[j] + dropped[j] + (IF j \in T THEN 1 ELSE 0)
        /\ sends'[j] = sends[j] /\ sends[j] \in Nat
    BY <1>0, <1>4
  <2>3. CASE j \in T
    <3>1. j \in DOMAIN due /\ j \notin DOMAIN due'
      BY <1>2, <1>3, <2>3
    <3> QED
      BY <2>1, <2>2, <2>3, <3>1
  <2>4. CASE j \notin T
    <3>1. j \in DOMAIN due <=> j \in DOMAIN due'
      BY <1>2, <2>4
    <3> QED
      BY <2>1, <2>2, <2>4, <3>1
  <2> QED
    BY <2>3, <2>4
<1>6. Delayed!ItemsAccountedFor'
  BY <1>5 DEF Delayed!ItemsAccountedFor
<1>7. \A j \in Items : given'[j] \in 0 .. MaxSends /\ dropped'[j] \in 0 .. MaxSends
  <2>1. ASSUME NEW j \in Items PROVE given'[j] \in 0 .. MaxSends /\ dropped'[j] \in 0 .. MaxSends
    <3>1. /\ given'[j] \in Nat /\ dropped'[j] \in Nat
          /\ given'[j] + dropped'[j] <= sends'[j] /\ sends'[j] \in 0 .. MaxSends
      BY <1>0, <1>4, <1>5
    <3> QED
      BY <1>0, <3>1
  <2> QED
    BY <2>1
<1>8. given' \in [Items -> 0 .. MaxSends] /\ dropped' \in [Items -> 0 .. MaxSends]
  BY <1>0, <1>7 DEF Delayed!Counted
<1>9. due' \in [DOMAIN due' -> -Delayed!Longest .. Delayed!Longest]
  BY <1>0, <1>1, <1>2
<1>10. Delayed!TypeOK'
  BY <1>0, <1>2, <1>8, <1>9 DEF Delayed!TypeOK, Delayed!Longest
<1> QED
  BY <1>6, <1>10 DEF DelayedInv

\* Every step keeps it.
LEMMA DelayedStep == DelayedInv /\ [Delayed!Next]_delayedVars => DelayedInv'
<1> SUFFICES ASSUME DelayedInv, [Delayed!Next]_delayedVars PROVE DelayedInv'
  OBVIOUS
<1>0. /\ DOMAIN due \subseteq Items /\ due \in [DOMAIN due -> -Delayed!Longest .. Delayed!Longest]
      /\ delays \in [Items -> Delays] /\ sends \in [Items -> 0 .. MaxSends]
      /\ sending \subseteq Items
      /\ given \in [Items -> 0 .. MaxSends] /\ dropped \in [Items -> 0 .. MaxSends]
      /\ early = {} /\ Delayed!Longest \in Nat
  BY DelayRange DEF DelayedInv, Delayed!TypeOK, Delayed!ItemsAccountedFor
<1>1. ASSUME NEW i \in Items, Delayed!PutFails(i) PROVE DelayedInv'
  BY <1>0, <1>1 DEF Delayed!PutFails, DelayedInv, Delayed!TypeOK, Delayed!ItemsAccountedFor
<1>2. ASSUME NEW i \in Items, NEW d \in Delays, Delayed!Put(i, d) PROVE DelayedInv'
  BY <1>0, <1>2, PutStores DEF Delayed!Put
<1>3. ASSUME NEW i \in Items, NEW d \in Delays, Delayed!PutUnheard(i, d) PROVE DelayedInv'
  BY <1>0, <1>3, PutStores DEF Delayed!PutUnheard
<1>4. CASE Delayed!Poll
  <2>1. PICK T \in Delayed!Batches :
            /\ Delayed!Remove(T) /\ given' = Delayed!Counted(given, T)
            /\ early' = early \cup {i \in T : due[i] > 0}
            /\ UNCHANGED <<delays, sends, sending, dropped>>
    BY <1>4 DEF Delayed!Poll
  <2>2. T \subseteq DOMAIN due /\ \A i \in T : due[i] <= 0
    BY BatchDue
  <2>3. \A i \in T : ~(due[i] > 0)
    <3>1. ASSUME NEW i \in T PROVE ~(due[i] > 0)
      <4>1. due[i] \in Int /\ due[i] <= 0
        BY <1>0, <2>2
      <4> QED
        BY <4>1
    <3> QED
      BY <3>1
  <2>4. early' = {}
    BY <1>0, <2>1, <2>3
  <2> QED
    BY <2>1, <2>4, TakenOnce
<1>5. CASE Delayed!PollUnheard
  <2>1. PICK T \in Delayed!Batches :
            /\ Delayed!Remove(T) /\ dropped' = Delayed!Counted(dropped, T)
            /\ UNCHANGED <<delays, sends, sending, given, early>>
    BY <1>5 DEF Delayed!PollUnheard
  <2> QED
    BY <1>0, <2>1, TakenOnce
<1>6. CASE Delayed!Tick
  <2>1. /\ due' = [i \in DOMAIN due |-> Delayed!Max({due[i] - 1, -Delayed!Longest})]
        /\ UNCHANGED <<delays, sends, sending, given, dropped, early>>
    BY <1>6 DEF Delayed!Tick
  <2>2. DOMAIN due' = DOMAIN due
    BY <2>1
  <2>3. ASSUME NEW i \in DOMAIN due PROVE due'[i] \in -Delayed!Longest .. Delayed!Longest
    <3>1. due[i] \in -Delayed!Longest .. Delayed!Longest
      BY <1>0
    <3>2. PICK a \in Int : a = due[i] - 1
      BY <1>0, <3>1
    <3>3. PICK b \in Int : b = -Delayed!Longest
      BY <1>0
    <3>4. Delayed!Max({a, b}) = IF a >= b THEN a ELSE b
      BY DEF Delayed!Max
    <3>5. due'[i] = Delayed!Max({a, b})
      BY <2>1, <3>2, <3>3
    <3> QED
      BY <1>0, <3>1, <3>2, <3>3, <3>4, <3>5
  <2>4. due' \in [DOMAIN due' -> -Delayed!Longest .. Delayed!Longest]
    BY <2>1, <2>2, <2>3
  <2>5. Delayed!TypeOK'
    BY <1>0, <2>1, <2>2, <2>4 DEF Delayed!TypeOK, Delayed!Longest
  <2> QED
    BY <2>1, <2>2, <2>5 DEF DelayedInv, Delayed!ItemsAccountedFor
<1>7. CASE UNCHANGED delayedVars
  BY <1>0, <1>7 DEF delayedVars, DelayedInv, Delayed!TypeOK, Delayed!ItemsAccountedFor
<1> QED
  BY <1>1, <1>2, <1>3, <1>4, <1>5, <1>6, <1>7 DEF Delayed!Next

\* At first the set is empty, and nothing was put.
LEMMA DelayedStart == Delayed!Init => DelayedInv
<1> SUFFICES ASSUME Delayed!Init PROVE DelayedInv
  OBVIOUS
<1>1. /\ due = <<>> /\ delays = [i \in Items |-> Delayed!Min(Delays)]
      /\ sends = [i \in Items |-> 0] /\ sending = {}
      /\ given = [i \in Items |-> 0] /\ dropped = [i \in Items |-> 0] /\ early = {}
  BY DEF Delayed!Init
<1>2. DOMAIN due = {} /\ due \in [{} -> -Delayed!Longest .. Delayed!Longest]
  BY <1>1
<1>3. MaxSends \in Nat /\ Delayed!Min(Delays) \in Delays
  BY DelayRange
<1>4. Delayed!TypeOK
  BY <1>1, <1>2, <1>3 DEF Delayed!TypeOK
<1>5. Delayed!ItemsAccountedFor
  BY <1>1, <1>2 DEF Delayed!ItemsAccountedFor
<1> QED
  BY <1>4, <1>5 DEF DelayedInv

----------------------------------------------------------------------------
(* Sessions *)

\* A session that was created and not deleted, and that somebody touched within the ttl.
Alive(s) == written[s] # {} /\ s \notin deleted /\ idle[s] < SessionTtl

\* The strengthening: the key of a living session has all its fields, and the rest of its
\* ttl is what its idle time leaves; no other session has a key.
SessionInv ==
    /\ Sessions!TypeOK
    /\ \A s \in Ids :
        IF Alive(s) THEN /\ hashes[s].fields = written[s]
                         /\ hashes[s].left = SessionTtl - idle[s]
                    ELSE hashes[s] = Sessions!NoKey

\* What exists is alive, and the other way round.
LEMMA ExistsIfAlive ==
    ASSUME SessionInv, NEW s \in Ids
    PROVE  Sessions!Exists(s) <=> Alive(s)
BY DEF SessionInv, Sessions!TypeOK, Sessions!Exists, Sessions!NoKey, Alive

\* A command that sets fields or the ttl of a living or new session.
LEMMA TouchKeeps ==
    ASSUME SessionInv, NEW s \in Ids, NEW F \in SUBSET Fields, Sessions!Touch(s, F),
           \/ Alive(s)
           \/ F # {} /\ s \notin deleted /\ written[s] \in {{}, F}
    PROVE  SessionInv'
<1>0. /\ SessionTtl \in Nat \ {0}
      /\ hashes \in [Ids -> [fields : SUBSET Fields, left : 0 .. SessionTtl]]
      /\ written \in [Ids -> SUBSET Fields] /\ idle \in [Ids -> 0 .. SessionTtl]
      /\ UNCHANGED <<known, deleted>> /\ known \subseteq Ids /\ deleted \subseteq known
  BY ToolkitAssumption DEF Sessions!SessionAssumption, SessionInv, Sessions!TypeOK, Sessions!Touch
<1> DEFINE h == [fields |-> hashes[s].fields \cup F, left |-> SessionTtl]
<1>1. /\ hashes' = [hashes EXCEPT ![s] = h]
      /\ written' = [written EXCEPT ![s] = written[s] \cup F]
      /\ idle' = [idle EXCEPT ![s] = 0]
  BY <1>0 DEF Sessions!Touch
<1>2. h \in [fields : SUBSET Fields, left : 0 .. SessionTtl]
  BY <1>0
<1>3. h.fields = hashes[s].fields \cup F /\ h.left = SessionTtl
  OBVIOUS
<1>4. hashes[s].fields \cup F = written[s] \cup F /\ written[s] \cup F # {} /\ s \notin deleted
  <2>1. CASE Alive(s)
    BY <2>1 DEF SessionInv, Alive
  <2>2. CASE ~Alive(s)
    <3>1. hashes[s].fields = {}
      BY <2>2 DEF SessionInv, Sessions!NoKey
    <3> QED
      BY <2>2, <3>1
  <2> QED
    BY <2>1, <2>2
<1> HIDE DEF h
<1>5. Sessions!TypeOK'
  BY <1>0, <1>1, <1>2 DEF Sessions!TypeOK
<1>6. ASSUME NEW r \in Ids
      PROVE  IF Alive(r)' THEN hashes'[r].fields = written'[r]
                               /\ hashes'[r].left = SessionTtl - idle'[r]
             ELSE hashes'[r] = Sessions!NoKey
  <2>1. CASE r = s
    <3>1. hashes'[r] = h /\ written'[r] = written[s] \cup F /\ idle'[r] = 0
      BY <1>0, <1>1, <2>1
    <3> QED
      BY <1>0, <1>3, <1>4, <2>1, <3>1 DEF Alive
  <2>2. CASE r # s
    BY <1>0, <1>1, <2>2 DEF SessionInv, Alive
  <2> QED
    BY <2>1, <2>2
<1> QED
  BY <1>5, <1>6 DEF SessionInv

\* Every step keeps the strengthening.
LEMMA SessionStep == SessionInv /\ [Sessions!Next]_sessionVars => SessionInv'
<1> SUFFICES ASSUME SessionInv, [Sessions!Next]_sessionVars PROVE SessionInv'
  OBVIOUS
<1>0. /\ SessionTtl \in Nat \ {0}
      /\ hashes \in [Ids -> [fields : SUBSET Fields, left : 0 .. SessionTtl]]
      /\ written \in [Ids -> SUBSET Fields] /\ idle \in [Ids -> 0 .. SessionTtl]
      /\ known \subseteq Ids /\ deleted \subseteq known
  BY ToolkitAssumption DEF Sessions!SessionAssumption, SessionInv, Sessions!TypeOK
<1>n. Sessions!NoKey \in [fields : SUBSET Fields, left : 0 .. SessionTtl]
  BY <1>0 DEF Sessions!NoKey
<1>1. ASSUME NEW s \in Ids, NEW F \in SUBSET Fields, Sessions!Create(s, F) PROVE SessionInv'
  BY <1>0, <1>1, TouchKeeps DEF Sessions!Create
<1>2. ASSUME NEW s \in Ids, NEW F \in SUBSET Fields, Sessions!Update(s, F) PROVE SessionInv'
  BY <1>2, TouchKeeps, ExistsIfAlive DEF Sessions!Update
<1>3. ASSUME NEW s \in Ids, Sessions!Refresh(s) PROVE SessionInv'
  BY <1>3, TouchKeeps, ExistsIfAlive DEF Sessions!Refresh
<1>4. ASSUME NEW s \in Ids, Sessions!Created(s) PROVE SessionInv'
  BY <1>0, <1>4 DEF Sessions!Created, SessionInv, Sessions!TypeOK, Alive
<1>5. ASSUME NEW s \in Ids, Sessions!Delete(s) PROVE SessionInv'
  <2>1. /\ hashes' = [hashes EXCEPT ![s] = Sessions!NoKey] /\ deleted' = deleted \cup {s}
        /\ UNCHANGED <<known, written, idle>> /\ s \in known
    BY <1>5 DEF Sessions!Delete
  <2>2. Sessions!TypeOK'
    BY <1>0, <1>n, <2>1 DEF Sessions!TypeOK
  <2>3. ASSUME NEW r \in Ids
        PROVE  IF Alive(r)' THEN hashes'[r].fields = written'[r]
                                 /\ hashes'[r].left = SessionTtl - idle'[r]
               ELSE hashes'[r] = Sessions!NoKey
    <3>1. CASE r = s
      BY <1>0, <2>1, <3>1 DEF Alive
    <3>2. CASE r # s
      BY <1>0, <2>1, <3>2 DEF SessionInv, Alive
    <3> QED
      BY <3>1, <3>2
  <2> QED
    BY <2>2, <2>3 DEF SessionInv
<1>6. CASE Sessions!Tick
  <2>1. /\ hashes' = [s \in Ids |-> IF hashes[s].left <= 1 THEN Sessions!NoKey
                                    ELSE [hashes[s] EXCEPT !.left = hashes[s].left - 1]]
        /\ idle' = [s \in Ids |-> IF idle[s] < SessionTtl THEN idle[s] + 1 ELSE SessionTtl]
        /\ UNCHANGED <<known, deleted, written>>
    BY <1>6 DEF Sessions!Tick
  <2>2. ASSUME NEW s \in Ids
        PROVE  /\ hashes'[s] \in [fields : SUBSET Fields, left : 0 .. SessionTtl]
               /\ idle'[s] \in 0 .. SessionTtl
               /\ IF Alive(s)' THEN hashes'[s].fields = written'[s]
                                    /\ hashes'[s].left = SessionTtl - idle'[s]
                  ELSE hashes'[s] = Sessions!NoKey
    <3>1. /\ idle'[s] = IF idle[s] < SessionTtl THEN idle[s] + 1 ELSE SessionTtl
          /\ idle[s] \in 0 .. SessionTtl /\ written'[s] = written[s]
          /\ hashes[s].left \in 0 .. SessionTtl
      BY <1>0, <2>1
    <3>2. CASE hashes[s].left <= 1
      <4>1. hashes'[s] = Sessions!NoKey
        BY <2>1, <3>2
      <4>2. ~Alive(s)'
        <5>1. CASE Alive(s)
          <6>1. SessionTtl - idle[s] <= 1
            BY <3>2, <5>1 DEF SessionInv
          <6>2. idle'[s] >= SessionTtl
            BY <1>0, <3>1, <6>1
          <6> QED
            BY <1>0, <3>1, <6>2 DEF Alive
        <5>2. CASE ~Alive(s)
          BY <1>0, <2>1, <3>1, <5>2 DEF Alive
        <5> QED
          BY <5>1, <5>2
      <4> QED
        BY <1>0, <1>n, <3>1, <4>1, <4>2
    <3>3. CASE hashes[s].left > 1
      <4> DEFINE h == [hashes[s] EXCEPT !.left = hashes[s].left - 1]
      <4>1. hashes'[s] = h
        BY <2>1, <3>1, <3>3
      <4>2. /\ h \in [fields : SUBSET Fields, left : 0 .. SessionTtl]
            /\ h.fields = hashes[s].fields /\ h.left = hashes[s].left - 1
        BY <1>0, <3>1, <3>3
      <4> HIDE DEF h
      <4>3. Alive(s)
        <5>1. hashes[s] # Sessions!NoKey
          BY <3>3 DEF Sessions!NoKey
        <5> QED
          BY <5>1 DEF SessionInv
      <4>4. hashes[s].fields = written[s] /\ hashes[s].left = SessionTtl - idle[s]
        BY <4>3 DEF SessionInv
      <4>5. Alive(s)' /\ idle'[s] = idle[s] + 1
        BY <1>0, <2>1, <3>1, <3>3, <4>3, <4>4 DEF Alive
      <4> QED
        BY <1>0, <3>1, <4>1, <4>2, <4>4, <4>5
    <3> QED
      BY <3>1, <3>2, <3>3
  <2>3. Sessions!TypeOK'
    BY <1>0, <2>1, <2>2 DEF Sessions!TypeOK
  <2> QED
    BY <2>2, <2>3 DEF SessionInv
<1>7. CASE UNCHANGED sessionVars
  BY <1>7 DEF sessionVars, SessionInv, Sessions!TypeOK, Alive
<1> QED
  BY <1>1, <1>2, <1>3, <1>4, <1>5, <1>6, <1>7 DEF Sessions!Next

\* No session exists at first.
LEMMA SessionStart == Sessions!Init => SessionInv
<1> SUFFICES ASSUME Sessions!Init PROVE SessionInv
  OBVIOUS
<1>1. SessionTtl \in Nat \ {0}
  BY ToolkitAssumption DEF Sessions!SessionAssumption
<1>2. Sessions!NoKey \in [fields : SUBSET Fields, left : 0 .. SessionTtl]
  BY <1>1 DEF Sessions!NoKey
<1> QED
  BY <1>1, <1>2 DEF Sessions!Init, SessionInv, Sessions!TypeOK, Alive

\* The property follows.
LEMMA SessionsLive == SessionInv => SessionLifetime
<1> SUFFICES ASSUME SessionInv, NEW s \in Ids
             PROVE  /\ Sessions!Exists(s) <=>
                        (written[s] # {} /\ s \notin deleted /\ idle[s] < SessionTtl)
                    /\ Sessions!Exists(s) => hashes[s].fields = written[s]
  BY DEF SessionLifetime, Sessions!SessionLifetime
<1> QED
  BY ExistsIfAlive DEF SessionInv, Alive

----------------------------------------------------------------------------
(* Pub/sub *)

\* Of the names for which no unsubscribe() met a subscribe() or psubscribe(): the channels
\* subscribed to have their handler, and so have the patterns, unless an unsubscribe() came
\* last; those that are being subscribed to have it already; and those that are being
\* unsubscribed from are no longer channels subscribed to, and nobody subscribes to them.
MessagesInv ==
    /\ Messages!TypeOK
    /\ \A ch \in subscribed \ crossed : ch \in handlers
    /\ \A p \in patterns \ (crossed \cup unsubscribed) : p \in handlers
    /\ \A c \in Listeners : \A ch \in Channels \ crossed :
        subscriptions[c].channel = ch =>
            IF subscriptions[c].op = "unsubscribe"
            THEN /\ ch \notin subscribed /\ ch \in unsubscribed
                 /\ \A d \in Listeners :
                        subscriptions[d].channel = ch => subscriptions[d].op = "unsubscribe"
            ELSE ch \in handlers

CallRecords ==
    {Messages!NoCall} \cup
        [op : Messages!Subscriptions \cup {"unsubscribe"}, channel : Channels]

\* What a call is made of.
LEMMA CallFields ==
    ASSUME NEW call \in CallRecords
    PROVE  /\ call.channel \in Channels \/ call = Messages!NoCall
           /\ call.op # "none" => call.channel \in Channels
           /\ Messages!NoCall.channel \notin Channels /\ Messages!NoCall.op = "none"
<1>1. NoChannel \notin Channels
  BY ToolkitAssumption DEF Messages!PubSubAssumption
<1> QED
  BY <1>1 DEF CallRecords, Messages!NoCall

\* A call begins: the name is crossed if another call of it does the opposite.
LEMMA CallsBegin ==
    ASSUME MessagesInv, NEW c \in Listeners, NEW ch \in Channels,
           NEW op \in Messages!Subscriptions \cup {"unsubscribe"}, Messages!Begin(c, op, ch)
    PROVE  /\ subscriptions' \in [Listeners -> CallRecords]
           /\ crossed' \subseteq Channels /\ unsubscribed' \subseteq Channels
           /\ subscriptions'[c].op = op /\ subscriptions'[c].channel = ch
           /\ \A d \in Listeners \ {c} : subscriptions'[d] = subscriptions[d]
           /\ \A k \in Channels \ {ch} : /\ k \in crossed' <=> k \in crossed
                                         /\ k \in unsubscribed' <=> k \in unsubscribed
           /\ ch \in unsubscribed' <=> op = "unsubscribe"
           /\ ch \notin crossed' => \A d \in Listeners \ {c} :
                subscriptions[d].channel = ch =>
                    (subscriptions[d].op = "unsubscribe" <=> op = "unsubscribe")
<1>0. /\ subscriptions \in [Listeners -> CallRecords]
      /\ crossed \subseteq Channels /\ unsubscribed \subseteq Channels
  BY DEF MessagesInv, Messages!TypeOK, CallRecords
<1>1. subscriptions' = [subscriptions EXCEPT ![c] = [op |-> op, channel |-> ch]]
  BY DEF Messages!Begin
<1>2. crossed' = IF \E d \in Listeners \ {c} :
                        /\ subscriptions[d].channel = ch
                        /\ (subscriptions[d].op = "unsubscribe") # (op = "unsubscribe")
                 THEN crossed \cup {ch} ELSE crossed \ {ch}
  BY DEF Messages!Begin
<1>3. unsubscribed' = IF op = "unsubscribe" THEN unsubscribed \cup {ch}
                                           ELSE unsubscribed \ {ch}
  BY DEF Messages!Begin
<1>4. [op |-> op, channel |-> ch] \in CallRecords
  BY DEF CallRecords
<1>5. ch \notin crossed' => \A d \in Listeners \ {c} :
                subscriptions[d].channel = ch =>
                    (subscriptions[d].op = "unsubscribe" <=> op = "unsubscribe")
  BY <1>2
<1>6. crossed' \subseteq Channels /\ \A k \in Channels \ {ch} : k \in crossed' <=> k \in crossed
  BY <1>0, <1>2
<1>7. /\ unsubscribed' \subseteq Channels
      /\ \A k \in Channels \ {ch} : k \in unsubscribed' <=> k \in unsubscribed
      /\ ch \in unsubscribed' <=> op = "unsubscribe"
  BY <1>0, <1>3
<1>8. /\ subscriptions' \in [Listeners -> CallRecords]
      /\ subscriptions'[c] = [op |-> op, channel |-> ch]
      /\ \A d \in Listeners \ {c} : subscriptions'[d] = subscriptions[d]
  BY <1>0, <1>1, <1>4
<1> QED
  BY <1>5, <1>6, <1>7, <1>8

\* A call returns.
LEMMA CallsReturn ==
    ASSUME MessagesInv, NEW c \in Listeners, Messages!Return(c)
    PROVE  /\ subscriptions' \in [Listeners -> CallRecords]
           /\ subscriptions'[c].channel \notin Channels
           /\ \A d \in Listeners \ {c} : subscriptions'[d] = subscriptions[d]
<1>1. subscriptions \in [Listeners -> CallRecords] /\ Messages!NoCall \in CallRecords
  BY DEF MessagesInv, Messages!TypeOK, CallRecords
<1>2. subscriptions' = [subscriptions EXCEPT ![c] = Messages!NoCall]
  BY DEF Messages!Return
<1>3. Messages!NoCall.channel \notin Channels
  BY <1>1, CallFields
<1> QED
  BY <1>1, <1>2, <1>3

\* Every step keeps the strengthening.
LEMMA MessagesStep == MessagesInv /\ [Messages!Next]_messageVars => MessagesInv'
<1> SUFFICES ASSUME MessagesInv, [Messages!Next]_messageVars PROVE MessagesInv'
  OBVIOUS
<1>0. /\ running \in BOOLEAN /\ stopping \in BOOLEAN
      /\ listener \in {"out", "called", "polling", "waiting", "handling"}
      /\ stopping => listener \in {"polling", "waiting", "handling"} /\ ~running
      /\ handlers \subseteq Channels /\ subscribed \subseteq Channels
      /\ patterns \subseteq Channels
      /\ crossed \subseteq Channels /\ unsubscribed \subseteq Channels
      /\ subscriptions \in [Listeners -> CallRecords]
  BY DEF MessagesInv, Messages!TypeOK, CallRecords
<1>t. ASSUME UNCHANGED <<running, listener, stopping>>,
             handlers' \subseteq Channels, subscribed' \subseteq Channels,
             patterns' \subseteq Channels, crossed' \subseteq Channels,
             unsubscribed' \subseteq Channels, subscriptions' \in [Listeners -> CallRecords]
      PROVE  Messages!TypeOK'
  BY <1>0, <1>t DEF Messages!TypeOK, CallRecords
<1>1. ASSUME Messages!Listen \/ Messages!BeginPolling \/ Messages!TestFlag \/ Messages!Poll
             \/ Messages!PollFails \/ Messages!Handled \/ Messages!Stop
      PROVE  MessagesInv'
  <2>1. UNCHANGED <<handlers, subscribed, patterns, subscriptions, crossed, unsubscribed>>
    BY <1>1 DEF Messages!Listen, Messages!BeginPolling, Messages!TestFlag, Messages!Poll,
        Messages!PollFails, Messages!Handled, Messages!Stop, Messages!subscribing
  <2>2. /\ running' \in BOOLEAN /\ stopping' \in BOOLEAN
        /\ listener' \in {"out", "called", "polling", "waiting", "handling"}
        /\ stopping' => listener' \in {"polling", "waiting", "handling"} /\ ~running'
    <3>1. CASE Messages!Listen \/ Messages!Handled \/ Messages!Poll
      <4>1. /\ running' = running /\ stopping' = stopping
            /\ \/ listener = "out" /\ listener' = "called"
               \/ listener \in {"waiting", "handling"} /\ listener' \in {"polling", "handling"}
        BY <3>1 DEF Messages!Listen, Messages!Handled, Messages!Poll
      <4> QED
        BY <1>0, <4>1
    <3>2. CASE Messages!TestFlag \/ Messages!PollFails
      <4>1. /\ running' = running
            /\ \/ stopping' = stopping /\ listener = "polling" /\ listener' = "waiting"
               \/ stopping' = FALSE /\ listener' = "out"
        BY <3>2 DEF Messages!TestFlag, Messages!PollFails, Messages!End
      <4>2. CASE stopping' = stopping /\ listener = "polling" /\ listener' = "waiting"
        BY <1>0, <4>1, <4>2
      <4>3. CASE stopping' = FALSE /\ listener' = "out"
        BY <1>0, <4>1, <4>3
      <4> QED
        BY <4>1, <4>2, <4>3
    <3>3. CASE Messages!BeginPolling
      <4>1. /\ running' = TRUE /\ stopping' = stopping
            /\ listener = "called" /\ listener' = "polling"
        BY <3>3 DEF Messages!BeginPolling
      <4>2. ~stopping
        BY <1>0, <4>1
      <4> QED
        BY <1>0, <4>1, <4>2
    <3>4. CASE Messages!Stop
      BY <1>0, <3>4 DEF Messages!Stop, Messages!Within
    <3> QED
      BY <1>1, <3>1, <3>2, <3>3, <3>4
  <2>3. Messages!TypeOK'
    BY <1>0, <2>1, <2>2 DEF Messages!TypeOK, CallRecords
  <2> QED
    BY <2>1, <2>3 DEF MessagesInv
<1>2. CASE Messages!Close
  <2>1. /\ running' = FALSE /\ stopping' = (stopping \/ Messages!Within)
        /\ subscribed' = {} /\ patterns' = {}
        /\ UNCHANGED <<listener, handlers, subscriptions, crossed, unsubscribed>>
    BY <1>2 DEF Messages!Close
  <2>2. Messages!TypeOK'
    BY <1>0, <2>1 DEF Messages!Within, Messages!TypeOK, CallRecords
  <2> QED
    BY <2>1, <2>2 DEF MessagesInv
<1>3. ASSUME NEW c \in Listeners, NEW ch \in Channels, NEW op \in Messages!Subscriptions,
             Messages!Subscribe(c, op, ch)
      PROVE  MessagesInv'
  <2>0. /\ Messages!Begin(c, op, ch) /\ handlers' = handlers \cup {ch}
        /\ UNCHANGED <<running, listener, stopping, subscribed, patterns>>
        /\ op # "unsubscribe"
    BY <1>3 DEF Messages!Subscribe, Messages!listening, Messages!Subscriptions
  <2>1. /\ subscriptions' \in [Listeners -> CallRecords]
        /\ crossed' \subseteq Channels /\ unsubscribed' \subseteq Channels
        /\ subscriptions'[c].op # "unsubscribe" /\ subscriptions'[c].channel = ch
        /\ \A d \in Listeners \ {c} : subscriptions'[d] = subscriptions[d]
        /\ \A k \in Channels \ {ch} : /\ k \in crossed' <=> k \in crossed
                                      /\ k \in unsubscribed' <=> k \in unsubscribed
        /\ ch \notin crossed' => \A d \in Listeners \ {c} :
                subscriptions[d].channel = ch => subscriptions[d].op # "unsubscribe"
    BY <2>0, CallsBegin
  <2>2. Messages!TypeOK'
    BY <1>0, <1>t, <2>0, <2>1
  <2>3. \A k \in subscribed' \ crossed' : k \in handlers'
    BY <1>0, <2>0, <2>1 DEF MessagesInv
  <2>4. \A k \in patterns' \ (crossed' \cup unsubscribed') : k \in handlers'
    BY <1>0, <2>0, <2>1 DEF MessagesInv
  <2>5. ASSUME NEW d \in Listeners, NEW k \in Channels \ crossed',
               subscriptions'[d].channel = k, subscriptions'[d].op # "unsubscribe"
        PROVE  k \in handlers'
    BY <2>0, <2>1, <2>5 DEF MessagesInv
  <2>6. ASSUME NEW d \in Listeners, NEW k \in Channels \ crossed',
               subscriptions'[d].channel = k, subscriptions'[d].op = "unsubscribe"
        PROVE  /\ k \notin subscribed' /\ k \in unsubscribed'
               /\ \A e \in Listeners :
                      subscriptions'[e].channel = k => subscriptions'[e].op = "unsubscribe"
    <3>1. d # c /\ k # ch
      BY <2>1, <2>6
    <3>2. k \in Channels \ crossed /\ subscriptions[d].channel = k
          /\ subscriptions[d].op = "unsubscribe"
      BY <2>1, <2>6, <3>1
    <3>3. /\ k \notin subscribed /\ k \in unsubscribed
          /\ \A e \in Listeners :
                 subscriptions[e].channel = k => subscriptions[e].op = "unsubscribe"
      BY <3>2 DEF MessagesInv
    <3> QED
      BY <2>0, <2>1, <3>1, <3>3
  <2> QED
    BY <2>2, <2>3, <2>4, <2>5, <2>6 DEF MessagesInv
<1>4. ASSUME NEW c \in Listeners, NEW ch \in Channels, Messages!Unsubscribe(c, ch)
      PROVE  MessagesInv'
  <2>0. /\ Messages!Begin(c, "unsubscribe", ch) /\ subscribed' = subscribed \ {ch}
        /\ UNCHANGED <<running, listener, stopping, handlers, patterns>>
    BY <1>4 DEF Messages!Unsubscribe, Messages!listening
  <2>1. /\ subscriptions' \in [Listeners -> CallRecords]
        /\ crossed' \subseteq Channels /\ unsubscribed' \subseteq Channels
        /\ subscriptions'[c].op = "unsubscribe" /\ subscriptions'[c].channel = ch
        /\ \A d \in Listeners \ {c} : subscriptions'[d] = subscriptions[d]
        /\ \A k \in Channels \ {ch} : /\ k \in crossed' <=> k \in crossed
                                      /\ k \in unsubscribed' <=> k \in unsubscribed
        /\ ch \in unsubscribed'
        /\ ch \notin crossed' => \A d \in Listeners \ {c} :
                subscriptions[d].channel = ch => subscriptions[d].op = "unsubscribe"
    BY <2>0, CallsBegin
  <2>2. Messages!TypeOK'
    BY <1>0, <1>t, <2>0, <2>1
  <2>3. \A k \in subscribed' \ crossed' : k \in handlers'
    BY <1>0, <2>0, <2>1 DEF MessagesInv
  <2>4. \A k \in patterns' \ (crossed' \cup unsubscribed') : k \in handlers'
    BY <1>0, <2>0, <2>1 DEF MessagesInv
  <2>5. ASSUME NEW d \in Listeners, NEW k \in Channels \ crossed',
               subscriptions'[d].channel = k, subscriptions'[d].op # "unsubscribe"
        PROVE  k \in handlers'
    <3>1. d # c /\ k # ch
      BY <2>1, <2>5
    <3>2. k \in Channels \ crossed /\ subscriptions[d].channel = k
          /\ subscriptions[d].op # "unsubscribe"
      BY <2>1, <2>5, <3>1
    <3> QED
      BY <2>0, <3>2 DEF MessagesInv
  <2>6. ASSUME NEW d \in Listeners, NEW k \in Channels \ crossed',
               subscriptions'[d].channel = k, subscriptions'[d].op = "unsubscribe"
        PROVE  /\ k \notin subscribed' /\ k \in unsubscribed'
               /\ \A e \in Listeners :
                      subscriptions'[e].channel = k => subscriptions'[e].op = "unsubscribe"
    <3>1. CASE k = ch
      BY <2>0, <2>1, <3>1
    <3>2. CASE k # ch
      <4>1. d # c /\ k \in Channels \ crossed /\ subscriptions[d].channel = k
            /\ subscriptions[d].op = "unsubscribe"
        BY <2>1, <2>6, <3>2
      <4>2. /\ k \notin subscribed /\ k \in unsubscribed
            /\ \A e \in Listeners :
                   subscriptions[e].channel = k => subscriptions[e].op = "unsubscribe"
        BY <4>1 DEF MessagesInv
      <4> QED
        BY <2>0, <2>1, <3>2, <4>2
    <3> QED
      BY <3>1, <3>2
  <2> QED
    BY <2>2, <2>3, <2>4, <2>5, <2>6 DEF MessagesInv
<1>5. ASSUME NEW c \in Listeners, Messages!SendSubscribe(c) \/ Messages!SendPsubscribe(c)
      PROVE  MessagesInv'
  <2> DEFINE ch == subscriptions[c].channel
  <2>1. /\ subscriptions[c].op \notin {"none", "unsubscribe"} /\ Messages!Return(c)
        /\ subscribed \subseteq subscribed' /\ subscribed' \subseteq subscribed \cup {ch}
        /\ patterns' \subseteq patterns \cup {ch}
        /\ UNCHANGED <<running, listener, stopping, handlers, crossed, unsubscribed>>
    BY <1>5 DEF Messages!SendSubscribe, Messages!SendPsubscribe, Messages!listening
  <2>2. /\ subscriptions' \in [Listeners -> CallRecords]
        /\ subscriptions'[c].channel \notin Channels
        /\ \A d \in Listeners \ {c} : subscriptions'[d] = subscriptions[d]
    BY <2>1, CallsReturn
  <2>3. ch \in Channels
    BY <1>0, <2>1, CallFields
  <2>4. ch \notin crossed => ch \in handlers
    BY <2>1, <2>3 DEF MessagesInv
  <2>5. \A d \in Listeners : ch \notin crossed /\ subscriptions[d].channel = ch =>
                subscriptions[d].op # "unsubscribe"
    BY <2>1, <2>3 DEF MessagesInv
  <2>6. Messages!TypeOK'
    BY <1>0, <1>t, <2>1, <2>2, <2>3
  <2> HIDE DEF ch
  <2>7. \A k \in subscribed' \ crossed' : k \in handlers'
    BY <1>0, <2>1, <2>4 DEF MessagesInv
  <2>8. \A k \in patterns' \ (crossed' \cup unsubscribed') : k \in handlers'
    BY <1>0, <2>1, <2>4 DEF MessagesInv
  <2>9. ASSUME NEW d \in Listeners, NEW k \in Channels \ crossed', subscriptions'[d].channel = k
        PROVE  IF subscriptions'[d].op = "unsubscribe"
               THEN /\ k \notin subscribed' /\ k \in unsubscribed'
                    /\ \A e \in Listeners :
                          subscriptions'[e].channel = k => subscriptions'[e].op = "unsubscribe"
               ELSE k \in handlers'
    <3>1. /\ d # c /\ k \in Channels \ crossed
          /\ subscriptions'[d] = subscriptions[d] /\ subscriptions[d].channel = k
      BY <2>1, <2>2, <2>9
    <3>2. IF subscriptions[d].op = "unsubscribe"
          THEN /\ k \notin subscribed /\ k \in unsubscribed
               /\ \A e \in Listeners :
                     subscriptions[e].channel = k => subscriptions[e].op = "unsubscribe"
          ELSE k \in handlers
      BY <3>1 DEF MessagesInv
    <3>3. subscriptions[d].op = "unsubscribe" => k # ch
      BY <2>5, <3>1
    <3> QED
      BY <2>1, <2>2, <3>1, <3>2, <3>3
  <2> QED
    BY <2>6, <2>7, <2>8, <2>9 DEF MessagesInv
<1>6. ASSUME NEW c \in Listeners, Messages!PopHandler(c) PROVE MessagesInv'
  <2> DEFINE ch == subscriptions[c].channel
  <2>1. /\ subscriptions[c].op = "unsubscribe" /\ Messages!Return(c)
        /\ handlers' = handlers \ {ch}
        /\ UNCHANGED <<running, listener, stopping, subscribed, patterns, crossed, unsubscribed>>
    BY <1>6 DEF Messages!PopHandler, Messages!listening
  <2>2. /\ subscriptions' \in [Listeners -> CallRecords]
        /\ subscriptions'[c].channel \notin Channels
        /\ \A d \in Listeners \ {c} : subscriptions'[d] = subscriptions[d]
    BY <2>1, CallsReturn
  <2>3. ch \in Channels
    BY <1>0, <2>1, CallFields
  <2>4. ch \notin crossed =>
            /\ ch \notin subscribed /\ ch \in unsubscribed
            /\ \A e \in Listeners :
                   subscriptions[e].channel = ch => subscriptions[e].op = "unsubscribe"
    BY <2>1, <2>3 DEF MessagesInv
  <2>5. Messages!TypeOK'
    BY <1>0, <1>t, <2>1, <2>2
  <2> HIDE DEF ch
  <2>6. \A k \in subscribed' \ crossed' : k \in handlers'
    BY <1>0, <2>1, <2>4 DEF MessagesInv
  <2>7. \A k \in patterns' \ (crossed' \cup unsubscribed') : k \in handlers'
    BY <1>0, <2>1, <2>4 DEF MessagesInv
  <2>8. ASSUME NEW d \in Listeners, NEW k \in Channels \ crossed', subscriptions'[d].channel = k
        PROVE  IF subscriptions'[d].op = "unsubscribe"
               THEN /\ k \notin subscribed' /\ k \in unsubscribed'
                    /\ \A e \in Listeners :
                          subscriptions'[e].channel = k => subscriptions'[e].op = "unsubscribe"
               ELSE k \in handlers'
    <3>1. /\ d # c /\ k \in Channels \ crossed
          /\ subscriptions'[d] = subscriptions[d] /\ subscriptions[d].channel = k
      BY <2>1, <2>2, <2>8
    <3>2. IF subscriptions[d].op = "unsubscribe"
          THEN /\ k \notin subscribed /\ k \in unsubscribed
               /\ \A e \in Listeners :
                     subscriptions[e].channel = k => subscriptions[e].op = "unsubscribe"
          ELSE k \in handlers
      BY <3>1 DEF MessagesInv
    <3>3. subscriptions[d].op # "unsubscribe" => k # ch
      BY <2>4, <3>1
    <3> QED
      BY <2>1, <2>2, <3>1, <3>2, <3>3
  <2> QED
    BY <2>5, <2>6, <2>7, <2>8 DEF MessagesInv
<1>7. ASSUME NEW ch \in Channels, Messages!UnsubscribeFails(ch) PROVE MessagesInv'
  <2>1. /\ subscribed' \subseteq subscribed
        /\ UNCHANGED <<running, listener, stopping, handlers, patterns, subscriptions, crossed,
                       unsubscribed>>
    BY <1>7 DEF Messages!UnsubscribeFails, Messages!listening
  <2>2. Messages!TypeOK'
    BY <1>0, <1>t, <2>1
  <2> QED
    BY <2>1, <2>2 DEF MessagesInv
<1>8. CASE UNCHANGED messageVars
  BY <1>8 DEF messageVars, MessagesInv, Messages!TypeOK
<1> QED
  BY <1>1, <1>2, <1>3, <1>4, <1>5, <1>6, <1>7, <1>8 DEF Messages!Next

\* At first nothing is subscribed to, and nobody calls.
LEMMA MessagesStart == Messages!Init => MessagesInv
<1> SUFFICES ASSUME Messages!Init PROVE MessagesInv
  OBVIOUS
<1>1. Messages!TypeOK /\ \A c \in Listeners : subscriptions[c] = Messages!NoCall
  BY DEF Messages!Init, Messages!TypeOK
<1>2. Messages!NoCall.channel \notin Channels
  BY CallFields DEF CallRecords
<1> QED
  BY <1>1, <1>2 DEF Messages!Init, MessagesInv

\* The property follows.
LEMMA MessagesHandled == MessagesInv => HandlerForEverySubscription
BY DEF MessagesInv, HandlerForEverySubscription, Messages!HandlerForEverySubscription

----------------------------------------------------------------------------
(* Cached function *)

\* No call is late that has a result older than the last invalidate(), but for those marked.
CachedInv ==
    /\ Cached!TypeOK
    /\ entry # Cached!Nothing /\ "entry" \notin late => entry.value >= floor
    /\ \A c \in Callers : calls[c].pc = "writing" =>
        calls[c].value >= 1 /\ (c \notin late => calls[c].value >= floor)

\* A percentage of a ttl is not more than the ttl.
LEMMA Percentage ==
    ASSUME NEW ttl \in Nat, NEW j \in 0 .. 100
    PROVE  (ttl * j) \div 100 \in 0 .. ttl
<1>1. PICK p \in Nat : p = ttl * j
  OBVIOUS
<1>2. p <= ttl * 100
  <2>1. PICK k \in Nat : k = 100 - j
    OBVIOUS
  <2>2. ttl * 100 = ttl * j + ttl * k
    <3>1. 100 = j + k
      BY <2>1
    <3> QED
      BY <3>1, <2>1
  <2>3. ttl * k \in Nat
    BY <2>1
  <2> QED
    BY <1>1, <2>2, <2>3
<1>3. p \div 100 \in 0 .. ttl
  BY <1>2
<1> QED
  BY <1>1, <1>3

\* There is a longest ttl.
LEMMA LongestIsNumber == Cached!Longest \in Int
<1>1. Ttls \subseteq Nat /\ \E n \in Ttls : \A m \in Ttls : m <= n
  BY ToolkitAssumption DEF Cached!CachedAssumption
<1> DEFINE top == CHOOSE n \in Ttls : \A m \in Ttls : m <= n
<1>2. top \in Nat
  BY <1>1
<1>3. Cached!Longest = 2 * top
  BY DEF Cached!Longest
<1> HIDE DEF top
<1> QED
  BY <1>2, <1>3

\* The jitter at most doubles a ttl.
LEMMA JitterBounded ==
    ASSUME NEW ttl \in Ttls, NEW left \in Cached!Jittered(ttl)
    PROVE  left \in Int /\ left <= Cached!Longest
<1>0. /\ Ttls \subseteq Nat /\ Jitter \in 0 .. 100
      /\ \E n \in Ttls : \A m \in Ttls : m <= n
  BY ToolkitAssumption DEF Cached!CachedAssumption
<1> DEFINE top == CHOOSE n \in Ttls : \A m \in Ttls : m <= n
           delta == (ttl * Jitter) \div 100
<1>1. top \in Nat /\ ttl <= top /\ Cached!Longest = 2 * top
  BY <1>0 DEF Cached!Longest
<1>2. delta \in 0 .. ttl /\ ttl \in Nat
  BY <1>0, Percentage
<1>3. left \in {IF ttl > 0 /\ n < 1 THEN 1 ELSE n : n \in ttl - delta .. ttl + delta}
  BY DEF Cached!Jittered
<1> HIDE DEF top, delta
<1>4. PICK n \in ttl - delta .. ttl + delta : left = IF ttl > 0 /\ n < 1 THEN 1 ELSE n
  BY <1>3
<1> QED
  BY <1>1, <1>2, <1>4

\* What a call stores is an entry with its result.
LEMMA StoredEntry ==
    ASSUME Cached!TypeOK, NEW c \in Callers, Cached!Store(c), calls[c].value \in 1 .. MaxChanges + 1
    PROVE  /\ entry' \in [value : 1 .. MaxChanges + 1,
                          left : 1 .. Cached!Longest \cup {Cached!Forever}, permanent : BOOLEAN]
           /\ entry'.value = calls[c].value
<1>1. PICK ttl \in Ttls : \E left \in Cached!Jittered(ttl) :
        entry' = [value |-> calls[c].value, left |-> IF left > 0 THEN left ELSE Cached!Forever,
                  permanent |-> ttl = 0]
  BY DEF Cached!Store
<1>2. PICK left \in Cached!Jittered(ttl) :
        entry' = [value |-> calls[c].value, left |-> IF left > 0 THEN left ELSE Cached!Forever,
                  permanent |-> ttl = 0]
  BY <1>1
<1>3. left \in Int /\ left <= Cached!Longest
  BY JitterBounded
<1>4. Cached!Longest \in Int
  BY LongestIsNumber
<1>5. (IF left > 0 THEN left ELSE Cached!Forever) \in 1 .. Cached!Longest \cup {Cached!Forever}
  BY <1>3, <1>4
<1>6. (ttl = 0) \in BOOLEAN
  OBVIOUS
<1> QED
  BY <1>2, <1>5, <1>6

\* Every step keeps the strengthening.
LEMMA CachedStep == CachedInv /\ [Cached!Next]_cachedVars => CachedInv'
<1> SUFFICES ASSUME CachedInv, [Cached!Next]_cachedVars PROVE CachedInv'
  OBVIOUS
<1> DEFINE Entries == [value : 1 .. MaxChanges + 1,
                       left : 1 .. Cached!Longest \cup {Cached!Forever}, permanent : BOOLEAN]
           Results == [pc : {"reading", "computing", "writing"}, value : 0 .. MaxChanges + 1]
<1>0. /\ current \in 1 .. MaxChanges + 1 /\ MaxChanges \in Nat /\ floor \in 1 .. current
      /\ entry \in {Cached!Nothing} \cup Entries
      /\ calls \in [Callers -> {Cached!NoCall} \cup Results]
      /\ late \subseteq Callers \cup {"entry"} /\ "entry" \notin Callers
  BY ToolkitAssumption DEF CachedInv, Cached!TypeOK, Cached!CachedAssumption
<1>n. /\ Cached!NoCall.pc = "idle"
      /\ Cached!Nothing.left = 0
      /\ \A r \in Entries : r.left # 0 /\ r # Cached!Nothing
  BY DEF Cached!NoCall, Cached!Nothing, Cached!Forever
<1> HIDE DEF Entries, Results
\* A call moves on without a result to write.
<1>a. ASSUME NEW c \in Callers, NEW r \in {Cached!NoCall} \cup Results, r.pc # "writing",
             calls' = [calls EXCEPT ![c] = r], late' \in {late, late \ {c}},
             UNCHANGED <<current, entry, floor>>
      PROVE  CachedInv'
  <2>1. Cached!TypeOK'
    BY <1>0, <1>a DEF Cached!TypeOK, Entries, Results
  <2>2. entry' # Cached!Nothing /\ "entry" \notin late' => entry'.value >= floor'
    BY <1>0, <1>a DEF CachedInv
  <2>3. ASSUME NEW d \in Callers, calls'[d].pc = "writing"
        PROVE  calls'[d].value >= 1 /\ (d \notin late' => calls'[d].value >= floor')
    <3>1. d # c /\ calls'[d] = calls[d]
      BY <1>0, <1>a, <2>3
    <3>2. d \notin late' => d \notin late
      BY <1>a, <3>1
    <3> QED
      BY <1>a, <2>3, <3>1, <3>2 DEF CachedInv
  <2> QED
    BY <2>1, <2>2, <2>3 DEF CachedInv
<1>i. /\ Cached!NoCall \in {Cached!NoCall} \cup Results /\ Cached!NoCall.pc # "writing"
      /\ \A pc \in {"reading", "computing", "writing"}, v \in 0 .. MaxChanges + 1 :
            [pc |-> pc, value |-> v] \in Results
  BY <1>n DEF Results
<1>1. ASSUME NEW c \in Callers, NEW bypass \in BOOLEAN, Cached!Call(c, bypass) PROVE CachedInv'
  <2> DEFINE pc == IF bypass THEN "computing" ELSE "reading"
             r == [pc |-> pc, value |-> 0]
  <2>1. calls' = [calls EXCEPT ![c] = r] /\ UNCHANGED <<current, entry, floor, late>>
    BY <1>1 DEF Cached!Call, Cached!Become
  <2>2. r \in Results /\ r.pc # "writing"
    BY <1>0, <1>i
  <2> HIDE DEF r
  <2> QED
    BY <1>a, <2>1, <2>2
<1>2. ASSUME NEW c \in Callers, Cached!Read(c) PROVE CachedInv'
  <2> DEFINE r == [pc |-> "computing", value |-> 0]
  <2>1. r \in Results /\ r.pc # "writing"
    BY <1>0, <1>i
  <2>2. /\ UNCHANGED <<current, entry, floor>>
        /\ \/ calls' = [calls EXCEPT ![c] = Cached!NoCall] /\ late' = late \ {c}
           \/ calls' = [calls EXCEPT ![c] = r] /\ late' = late
    BY <1>2 DEF Cached!Read, Cached!Return, Cached!Become
  <2> HIDE DEF r
  <2>3. CASE calls' = [calls EXCEPT ![c] = Cached!NoCall] /\ late' = late \ {c}
    BY <1>a, <1>i, <2>2, <2>3
  <2>4. CASE calls' = [calls EXCEPT ![c] = r] /\ late' = late
    BY <1>a, <2>1, <2>2, <2>4
  <2> QED
    BY <2>2, <2>3, <2>4
<1>3. ASSUME NEW c \in Callers, Cached!GiveUp(c) \/ Cached!WriteFails(c) PROVE CachedInv'
  <2>1. /\ UNCHANGED <<current, entry, floor>>
        /\ calls' = [calls EXCEPT ![c] = Cached!NoCall] /\ late' = late \ {c}
    BY <1>3 DEF Cached!GiveUp, Cached!WriteFails, Cached!Return
  <2> QED
    BY <1>a, <1>i, <2>1
<1>4. ASSUME NEW c \in Callers, Cached!Compute(c) PROVE CachedInv'
  <2> DEFINE r == [pc |-> "writing", value |-> current]
  <2>1. calls' = [calls EXCEPT ![c] = r] /\ UNCHANGED <<current, entry, floor, late>>
    BY <1>4 DEF Cached!Compute, Cached!Become
  <2>2. r \in Results /\ r.value = current
    BY <1>0, <1>i
  <2> HIDE DEF r
  <2>3. Cached!TypeOK'
    BY <1>0, <2>1, <2>2 DEF Cached!TypeOK, Entries, Results
  <2>4. entry' # Cached!Nothing /\ "entry" \notin late' => entry'.value >= floor'
    BY <2>1 DEF CachedInv
  <2>5. ASSUME NEW d \in Callers, calls'[d].pc = "writing"
        PROVE  calls'[d].value >= 1 /\ (d \notin late' => calls'[d].value >= floor')
    <3>1. CASE d = c
      BY <1>0, <2>1, <2>2, <3>1
    <3>2. CASE d # c
      <4>1. calls'[d] = calls[d]
        BY <1>0, <2>1, <3>2
      <4> QED
        BY <2>1, <2>5, <4>1 DEF CachedInv
    <3> QED
      BY <3>1, <3>2
  <2> QED
    BY <2>3, <2>4, <2>5 DEF CachedInv
\* A result is written: the entry is marked if the result is late.
<1>b. ASSUME NEW c \in Callers, calls[c].pc = "writing", Cached!Store(c)
      PROVE  /\ entry' \in Entries /\ entry'.value = calls[c].value
             /\ "entry" \notin Cached!Marked(c) => entry'.value >= floor
             /\ \A d \in Callers : d \in Cached!Marked(c) <=> d \in late
             /\ Cached!Marked(c) \subseteq Callers \cup {"entry"}
  <2>1. calls[c] \in Results
    BY <1>0, <1>n, <1>b
  <2>2. calls[c].value \in 1 .. MaxChanges + 1
    BY <1>b, <2>1 DEF Results, CachedInv
  <2>3. entry' \in Entries /\ entry'.value = calls[c].value
    BY <1>b, <2>2, StoredEntry DEF CachedInv, Entries
  <2>4. \A d \in Callers : d \in Cached!Marked(c) <=> d \in late
    BY <1>0 DEF Cached!Marked
  <2>5. Cached!Marked(c) \subseteq Callers \cup {"entry"}
    BY <1>0 DEF Cached!Marked
  <2>6. "entry" \notin Cached!Marked(c) => c \notin late
    BY DEF Cached!Marked
  <2>7. c \notin late => calls[c].value >= floor
    BY <1>b DEF CachedInv
  <2> QED
    BY <2>3, <2>4, <2>5, <2>6, <2>7
<1>5. ASSUME NEW c \in Callers, Cached!Write(c) PROVE CachedInv'
  <2>1. /\ calls[c].pc = "writing" /\ Cached!Store(c)
        /\ calls' = [calls EXCEPT ![c] = Cached!NoCall]
        /\ late' = Cached!Marked(c) \ {c} /\ UNCHANGED <<current, floor>>
    BY <1>5 DEF Cached!Write
  <2>2. /\ entry' \in Entries /\ entry'.value = calls[c].value
        /\ "entry" \notin Cached!Marked(c) => entry'.value >= floor
        /\ \A d \in Callers : d \in Cached!Marked(c) <=> d \in late
        /\ Cached!Marked(c) \subseteq Callers \cup {"entry"}
    BY <1>b, <2>1
  <2>3. Cached!TypeOK'
    BY <1>0, <2>1, <2>2 DEF Cached!TypeOK, Entries, Results
  <2>4. entry' # Cached!Nothing /\ "entry" \notin late' => entry'.value >= floor'
    BY <1>0, <2>1, <2>2
  <2>5. ASSUME NEW d \in Callers, calls'[d].pc = "writing"
        PROVE  calls'[d].value >= 1 /\ (d \notin late' => calls'[d].value >= floor')
    <3>1. d # c /\ calls'[d] = calls[d]
      BY <1>0, <1>n, <2>1, <2>5
    <3>2. d \notin late' => d \notin late
      BY <2>1, <2>2, <3>1
    <3> QED
      BY <2>1, <2>5, <3>1, <3>2 DEF CachedInv
  <2> QED
    BY <2>3, <2>4, <2>5 DEF CachedInv
<1>6. ASSUME NEW c \in Callers, Cached!WriteUnheard(c) PROVE CachedInv'
  <2>1. /\ calls[c].pc = "writing" /\ Cached!Store(c)
        /\ late' = Cached!Marked(c) /\ UNCHANGED <<current, calls, floor>>
    BY <1>6 DEF Cached!WriteUnheard
  <2>2. /\ entry' \in Entries /\ entry'.value = calls[c].value
        /\ "entry" \notin Cached!Marked(c) => entry'.value >= floor
        /\ \A d \in Callers : d \in Cached!Marked(c) <=> d \in late
        /\ Cached!Marked(c) \subseteq Callers \cup {"entry"}
    BY <1>b, <2>1
  <2>3. Cached!TypeOK'
    BY <1>0, <2>1, <2>2 DEF Cached!TypeOK, Entries, Results
  <2> QED
    BY <2>1, <2>2, <2>3 DEF CachedInv
<1>7. CASE Cached!Invalidate
  <2>1. /\ entry' = Cached!Nothing /\ floor' = current /\ UNCHANGED <<current, calls>>
        /\ late' = {c \in Callers : calls[c].pc = "writing"}
    BY <1>7 DEF Cached!Invalidate
  <2>2. Cached!TypeOK'
    BY <1>0, <2>1 DEF Cached!TypeOK, Entries, Results
  <2> QED
    BY <2>1, <2>2 DEF CachedInv
<1>8. CASE Cached!Change
  <2>1. current <= MaxChanges /\ current' = current + 1 /\ UNCHANGED <<entry, calls, floor, late>>
    BY <1>8 DEF Cached!Change
  <2>2. Cached!TypeOK'
    BY <1>0, <2>1 DEF Cached!TypeOK, Entries, Results
  <2> QED
    BY <2>1, <2>2 DEF CachedInv
<1>9. CASE Cached!Tick
  <2> DEFINE r == [entry EXCEPT !.left = entry.left - 1]
  <2>1. /\ entry.left > 0 /\ UNCHANGED <<current, calls, floor, late>>
        /\ entry' = IF entry.left = 1 THEN Cached!Nothing ELSE r
    BY <1>9 DEF Cached!Tick
  <2>2. entry \in Entries
    BY <1>0, <1>n, <2>1
  <2>3. entry.left # 1 => r \in Entries /\ r.value = entry.value
    <3>1. entry.left \in 1 .. Cached!Longest
      BY <2>1, <2>2 DEF Entries, Cached!Forever
    <3>2. Cached!Longest \in Int
      BY LongestIsNumber
    <3>3. entry.left # 1 => entry.left - 1 \in 1 .. Cached!Longest
      BY <3>1, <3>2
    <3> QED
      BY <2>2, <3>3 DEF Entries
  <2> HIDE DEF r
  <2>4. Cached!TypeOK'
    BY <1>0, <2>1, <2>3 DEF Cached!TypeOK, Entries, Results
  <2>5. entry # Cached!Nothing
    BY <1>n, <2>2
  <2> QED
    BY <2>1, <2>3, <2>4, <2>5 DEF CachedInv
<1>10. CASE UNCHANGED cachedVars
  BY <1>10 DEF cachedVars, CachedInv, Cached!TypeOK
<1> QED
  BY <1>1, <1>2, <1>3, <1>4, <1>5, <1>6, <1>7, <1>8, <1>9, <1>10 DEF Cached!Next

\* At first nothing is cached and nobody calls.
LEMMA CachedStart == Cached!Init => CachedInv
<1> SUFFICES ASSUME Cached!Init PROVE CachedInv
  OBVIOUS
<1>1. MaxChanges \in Nat
  BY ToolkitAssumption DEF Cached!CachedAssumption
<1> QED
  BY <1>1 DEF Cached!Init, CachedInv, Cached!TypeOK, Cached!NoCall

\* The property follows.
LEMMA CachedHolds == CachedInv => InvalidationHolds
BY DEF CachedInv, InvalidationHolds, Cached!InvalidationHolds

----------------------------------------------------------------------------
(* Connection manager *)

\* The clients that aclose() took from the manager.
Leaving == (UNION closing) \cup adrift

\* A client that leaves is with one aclose(), or with none any more.
SnapshotsApart ==
    /\ \A a, b \in closing : a # b => a \cap b = {}
    /\ \A a \in closing : a \cap adrift = {}

\* No client is without a place while it is open.
NoneLost == open \subseteq {sync, preset} \cup {registry[l] : l \in Loops} \cup Leaving

\* Each client that the manager knows is in one place, and the places are apart.
PlacesApart ==
    /\ sync # 0 => sync \notin Leaving /\ sync # preset
    /\ preset # 0 => preset \notin Leaving
    /\ \A l \in Loops : registry[l] # 0 =>
        /\ registry[l] \notin Leaving \cup {sync, preset}
        /\ \A k \in Loops \ {l} : registry[k] # registry[l]

\* Threads have the sync client and a loop its own, or none.
HoldersRight ==
    /\ \A t \in ThreadsOf : got[t] \in {0, sync}
    /\ \A l \in Loops : got[l] \in {0, registry[l]}

\* Who builds the sync client has the lock, alone, and there is none yet; and a loop that
\* waits has no client yet.
WaitersRight ==
    /\ \A t \in ThreadsOf : asking[t] = "building" <=> t \in locked
    /\ locked # {} => sync = 0
    /\ \A l \in Loops : asking[l] \in {"no", "waiting"} /\ (asking[l] = "waiting" => registry[l] = 0)

ClientTypes ==
    /\ open \subseteq Clients!Clients /\ Leaving \subseteq open
    /\ sync \in open \cup {0} /\ preset \in open \cup {0}
    /\ registry \in [Loops -> open \cup {0}]
    /\ got \in [Clients!Users -> open \cup {0}]
    /\ asking \in [Clients!Users -> {"no", "waiting", "building", "returning"}]
    /\ locked \subseteq ThreadsOf /\ \A t, u \in locked : t = u

ClientsInv ==
    /\ ClientTypes /\ NoneLost
    /\ PlacesApart /\ SnapshotsApart /\ HoldersRight /\ WaitersRight

\* Who leaves is in a snapshot or adrift.
LEMMA WhoLeaves ==
    /\ \A c : c \in Leaving <=> (c \in adrift \/ \E a \in closing : c \in a)
    /\ (\A c : c \in Leaving <=> (c \in adrift \/ \E a \in closing : c \in a))'
BY DEF Leaving

\* A client that was just made is new.
LEMMA NewClient ==
    ASSUME NEW client, Clients!Make(client)
    PROVE  client \in Clients!Clients \ open /\ open' = open \cup {client}
BY DEF Clients!Make

\* No thread is an event loop, and no client is numbered 0.
LEMMA UsersApart ==
    /\ ThreadsOf \cap Loops = {} /\ Clients!Users = ThreadsOf \cup Loops
    /\ 0 \notin Clients!Clients
BY ToolkitAssumption DEF Clients!ConnectionsAssumption, Clients!Users, Clients!Clients

\* The steps of sync_client.
LEMMA ThreadSteps ==
    ASSUME ClientsInv, NEW t \in ThreadsOf,
           \/ Clients!AskSync(t) \/ Clients!Enter(t) \/ Clients!Build(t)
           \/ Clients!BuildFails(t) \/ Clients!ReturnSync(t)
    PROVE  ClientsInv'
<1>0. ClientTypes /\ NoneLost /\ PlacesApart /\ SnapshotsApart /\ HoldersRight
      /\ WaitersRight
  BY DEF ClientsInv
<1>u. /\ ThreadsOf \cap Loops = {} /\ Clients!Users = ThreadsOf \cup Loops
      /\ 0 \notin Clients!Clients
  BY UsersApart
<1>1. CASE Clients!AskSync(t)
  <2>1. PICK pc \in {"waiting", "returning"} : asking' = [asking EXCEPT ![t] = pc]
    BY <1>1 DEF Clients!AskSync, Clients!Move, Leaving
  <2>2. /\ UNCHANGED <<open, sync, preset, registry, locked, got, closing, adrift, Leaving>>
        /\ asking[t] = "no"
    BY <1>1 DEF Clients!AskSync, Leaving
  <2>3. \A u \in Clients!Users : asking'[u] = IF u = t THEN pc ELSE asking[u]
    BY <1>0, <1>u, <2>1 DEF ClientTypes
  <2>4. ClientTypes'
    BY <1>0, <2>1, <2>2 DEF ClientTypes, Clients!Users
  <2>5. WaitersRight'
    BY <1>0, <1>u, <2>2, <2>3 DEF WaitersRight
  <2> QED
    BY <1>0, <2>2, <2>4, <2>5 DEF ClientsInv, SnapshotsApart, NoneLost, PlacesApart, HoldersRight
<1>2. CASE Clients!Enter(t)
  <2>1. /\ UNCHANGED <<open, sync, preset, registry, got, closing, adrift, Leaving>>
        /\ asking[t] = "waiting" /\ locked = {}
        /\ \/ sync = 0 /\ locked' = {t} /\ asking' = [asking EXCEPT ![t] = "building"]
           \/ locked' = {} /\ asking' = [asking EXCEPT ![t] = "returning"]
    BY <1>2 DEF Clients!Enter, Clients!Move, Leaving
  <2>2. ClientTypes'
    BY <1>0, <2>1 DEF ClientTypes, Clients!Users
  <2>3. WaitersRight'
    <3>1. CASE sync = 0 /\ locked' = {t} /\ asking' = [asking EXCEPT ![t] = "building"]
      <4>1. \A u \in Clients!Users : asking'[u] = IF u = t THEN "building" ELSE asking[u]
        BY <1>0, <3>1 DEF ClientTypes
      <4> QED
        BY <1>0, <1>u, <2>1, <3>1, <4>1 DEF WaitersRight
    <3>2. CASE locked' = {} /\ asking' = [asking EXCEPT ![t] = "returning"]
      <4>1. \A u \in Clients!Users : asking'[u] = IF u = t THEN "returning" ELSE asking[u]
        BY <1>0, <3>2 DEF ClientTypes
      <4> QED
        BY <1>0, <1>u, <2>1, <3>2, <4>1 DEF WaitersRight
    <3> QED
      BY <2>1, <3>1, <3>2
  <2> QED
    BY <1>0, <2>1, <2>2, <2>3 DEF ClientsInv, SnapshotsApart, NoneLost, PlacesApart, HoldersRight
<1>3. CASE Clients!Build(t)
  <2>1. PICK client \in Clients!Clients : Clients!Make(client) /\ sync' = client
    BY <1>3 DEF Clients!Build
  <2>2. client \in Clients!Clients \ open /\ open' = open \cup {client}
    BY <2>1, NewClient
  <2>3. /\ asking[t] = "building" /\ locked' = {} /\ asking' = [asking EXCEPT ![t] = "returning"]
        /\ UNCHANGED <<preset, registry, got, closing, adrift, Leaving>>
    BY <1>3 DEF Clients!Build, Clients!Move, Leaving
  <2>4. t \in locked /\ sync = 0
    BY <1>0, <2>3 DEF WaitersRight
  <2>5. \A u \in Clients!Users : asking'[u] = IF u = t THEN "returning" ELSE asking[u]
    BY <1>0, <2>3 DEF ClientTypes
  <2>6. ClientTypes'
    BY <1>0, <2>1, <2>2, <2>3 DEF ClientTypes, Clients!Users
  <2>7. WaitersRight'
    <3>1. \A u \in ThreadsOf : asking'[u] # "building"
      BY <1>0, <1>u, <2>4, <2>5 DEF WaitersRight, ClientTypes
    <3>2. \A l \in Loops : asking'[l] = asking[l]
      BY <1>u, <2>5
    <3> QED
      BY <1>0, <2>3, <3>1, <3>2 DEF WaitersRight
  <2>8. HoldersRight'
    BY <1>0, <2>3, <2>4 DEF HoldersRight
  <2>9. PlacesApart'
    <3>1. client # 0 /\ client \notin Leaving /\ client # preset
      BY <1>0, <1>u, <2>2 DEF ClientTypes
    <3>2. \A l \in Loops : registry[l] # client
      BY <1>0, <1>u, <2>2 DEF ClientTypes
    <3> QED
      BY <1>0, <2>1, <2>3, <3>1, <3>2 DEF PlacesApart
  <2>10. NoneLost'
    BY <1>0, <1>u, <2>1, <2>2, <2>3, <2>4 DEF NoneLost, ClientTypes
  <2> QED
    BY <1>0, <2>3, <2>6, <2>7, <2>8, <2>9, <2>10 DEF ClientsInv, SnapshotsApart
<1>4. CASE Clients!BuildFails(t)
  <2>1. /\ asking[t] = "building" /\ locked' = {} /\ asking' = [asking EXCEPT ![t] = "no"]
        /\ UNCHANGED <<open, sync, preset, registry, got, closing, adrift, Leaving>>
    BY <1>4 DEF Clients!BuildFails, Clients!Move, Leaving
  <2>2. t \in locked /\ \A u \in Clients!Users : asking'[u] = IF u = t THEN "no" ELSE asking[u]
    BY <1>0, <2>1 DEF ClientTypes, WaitersRight
  <2>3. ClientTypes'
    BY <1>0, <2>1 DEF ClientTypes, Clients!Users
  <2>4. WaitersRight'
    <3>1. \A u \in ThreadsOf : asking'[u] # "building"
      BY <1>0, <1>u, <2>2 DEF WaitersRight, ClientTypes
    <3>2. \A l \in Loops : asking'[l] = asking[l]
      BY <1>u, <2>2
    <3> QED
      BY <1>0, <2>1, <3>1, <3>2 DEF WaitersRight
  <2> QED
    BY <1>0, <2>1, <2>3, <2>4 DEF ClientsInv, SnapshotsApart, NoneLost, PlacesApart, HoldersRight
<1>5. CASE Clients!ReturnSync(t)
  <2>1. /\ asking[t] = "returning" /\ asking' = [asking EXCEPT ![t] = "no"]
        /\ got' = [got EXCEPT ![t] = sync]
        /\ UNCHANGED <<open, sync, preset, registry, locked, closing, adrift, Leaving>>
    BY <1>5 DEF Clients!ReturnSync, Clients!Move, Clients!Give, Leaving
  <2>2. /\ \A u \in Clients!Users : asking'[u] = IF u = t THEN "no" ELSE asking[u]
        /\ \A u \in Clients!Users : got'[u] = IF u = t THEN sync ELSE got[u]
    BY <1>0, <2>1 DEF ClientTypes
  <2>3. ClientTypes'
    BY <1>0, <2>1 DEF ClientTypes, Clients!Users
  <2>4. WaitersRight'
    BY <1>0, <1>u, <2>1, <2>2 DEF WaitersRight
  <2>5. HoldersRight'
    BY <1>0, <1>u, <2>1, <2>2 DEF HoldersRight
  <2> QED
    BY <1>0, <2>1, <2>3, <2>4, <2>5 DEF ClientsInv, SnapshotsApart, NoneLost, PlacesApart
<1> QED
  BY <1>1, <1>2, <1>3, <1>4, <1>5

\* A loop gets a client of its own: the preset one, or a new one.
LEMMA Registered ==
    ASSUME ClientsInv, NEW l \in Loops, NEW client \in Clients!Clients,
           asking[l] = "waiting", asking' = [asking EXCEPT ![l] = "no"],
           registry' = [registry EXCEPT ![l] = client], got' = [got EXCEPT ![l] = registry'[l]],
           open' = open \cup {client},
           \/ client = preset /\ preset' = 0
           \/ client \notin open /\ preset' = preset,
           UNCHANGED <<sync, locked, closing, adrift>>
    PROVE  ClientsInv'
<1>0. ClientTypes /\ NoneLost /\ PlacesApart /\ SnapshotsApart /\ HoldersRight
      /\ WaitersRight
  BY DEF ClientsInv
<1>u. /\ ThreadsOf \cap Loops = {} /\ Clients!Users = ThreadsOf \cup Loops
      /\ 0 \notin Clients!Clients
  BY UsersApart
<1>1. registry[l] = 0 /\ client # 0 /\ Leaving' = Leaving
  BY <1>0, <1>u DEF WaitersRight, Leaving
<1>2. \A k \in Loops : registry'[k] = IF k = l THEN client ELSE registry[k]
  BY <1>0 DEF ClientTypes
<1>3. /\ \A u \in Clients!Users : asking'[u] = IF u = l THEN "no" ELSE asking[u]
      /\ \A u \in Clients!Users : got'[u] = IF u = l THEN client ELSE got[u]
  BY <1>0, <1>2 DEF ClientTypes
<1>4. ClientTypes'
  <2>1. registry' \in [Loops -> open' \cup {0}]
    BY <1>0 DEF ClientTypes
  <2>2. got' \in [Clients!Users -> open' \cup {0}]
    BY <1>0, <1>2 DEF ClientTypes
  <2> QED
    BY <1>0, <1>1, <2>1, <2>2 DEF ClientTypes, Clients!Users
<1>5. /\ client \notin Leaving /\ client # sync /\ client # preset'
      /\ \A k \in Loops : registry[k] # client
  <2>1. CASE client = preset /\ preset' = 0
    BY <1>0, <1>1, <2>1 DEF PlacesApart
  <2>2. CASE client \notin open /\ preset' = preset
    BY <1>0, <1>1, <2>2 DEF ClientTypes
  <2> QED
    BY <2>1, <2>2
<1>6. PlacesApart'
  <2>1. sync' # 0 => sync' \notin Leaving' /\ sync' # preset'
    BY <1>0, <1>1 DEF PlacesApart
  <2>2. preset' # 0 => preset' \notin Leaving'
    BY <1>0, <1>1 DEF PlacesApart
  <2>3. ASSUME NEW k \in Loops, registry'[k] # 0
        PROVE  /\ registry'[k] \notin Leaving' \cup {sync', preset'}
               /\ \A j \in Loops \ {k} : registry'[j] # registry'[k]
    <3>1. CASE k = l
      BY <1>1, <1>2, <1>5, <3>1
    <3>2. CASE k # l
      <4>1. registry'[k] = registry[k] /\ registry[k] # client
        BY <1>2, <1>5, <3>2
      <4> QED
        BY <1>0, <1>1, <1>2, <2>3, <4>1 DEF PlacesApart
    <3> QED
      BY <3>1, <3>2
  <2> QED
    BY <2>1, <2>2, <2>3 DEF PlacesApart
<1>7. HoldersRight'
  BY <1>0, <1>u, <1>2, <1>3 DEF HoldersRight
<1>8. WaitersRight'
  BY <1>0, <1>u, <1>2, <1>3 DEF WaitersRight
<1>9. NoneLost'
  <2>1. ASSUME NEW c \in open' \ (Leaving' \cup {sync', preset'})
        PROVE  \E k \in Loops : c = registry'[k]
    <3>1. CASE c = client
      BY <1>2, <3>1
    <3>2. CASE c # client
      <4>1. c \in open /\ c # preset /\ c \notin Leaving \cup {sync}
        BY <1>1, <2>1, <3>2
      <4>2. PICK k \in Loops : c = registry[k]
        BY <1>0, <4>1 DEF NoneLost
      <4>3. k # l
        BY <1>0, <1>1, <1>u, <4>1, <4>2 DEF ClientTypes
      <4> QED
        BY <1>2, <4>2, <4>3
    <3> QED
      BY <3>1, <3>2
  <2> QED
    BY <2>1 DEF NoneLost
<1> QED
  BY <1>0, <1>4, <1>6, <1>7, <1>8, <1>9 DEF ClientsInv, SnapshotsApart

\* A step of aclose(), or its end, splits what it has left: some go on leaving, some go
\* adrift and some are closed.
LEMMA ClosingStep ==
    ASSUME ClientsInv, NEW clients \in closing,
           NEW left \in SUBSET clients, NEW gone \in SUBSET clients, NEW closed \in SUBSET clients,
           clients = left \cup gone \cup closed,
           left \cap gone = {}, left \cap closed = {}, gone \cap closed = {},
           Clients!Becomes(clients, left),
           open' = open \ closed, adrift' = adrift \cup gone,
           UNCHANGED <<sync, preset, registry, asking, locked, got>>
    PROVE  ClientsInv'
<1>0. ClientTypes /\ NoneLost /\ PlacesApart /\ SnapshotsApart /\ HoldersRight
      /\ WaitersRight
  BY DEF ClientsInv
<1>u. /\ ThreadsOf \cap Loops = {} /\ Clients!Users = ThreadsOf \cup Loops
      /\ 0 \notin Clients!Clients
  BY UsersApart
<1>1. closing' = ((closing \ {clients}) \cup {left}) \ {{}}
  BY DEF Clients!Becomes
<1>2. /\ clients \cap adrift = {}
      /\ \A a \in closing \ {clients} : a \cap clients = {} /\ a \cap adrift = {}
      /\ \A a, b \in closing : a # b => a \cap b = {}
  BY <1>0 DEF SnapshotsApart
<1>3. /\ \A a \in closing' : a = left \/ a \in closing \ {clients}
      /\ \A a \in closing \ {clients} : a # {} => a \in closing'
      /\ left # {} => left \in closing'
  BY <1>1
<1>4. SnapshotsApart'
  BY <1>2, <1>3 DEF SnapshotsApart
<1>5. Leaving' = Leaving \ closed
  <2>1. ASSUME NEW c \in Leaving \ closed PROVE c \in Leaving'
    <3>1. CASE c \in adrift
      BY <3>1, WhoLeaves
    <3>2. ASSUME NEW a \in closing, c \in a PROVE c \in Leaving'
      <4>1. CASE a = clients
        BY <1>3, <2>1, <3>2, <4>1, WhoLeaves
      <4>2. CASE a # clients
        BY <1>3, <3>2, <4>2, WhoLeaves
      <4> QED
        BY <4>1, <4>2
    <3> QED
      BY <2>1, <3>1, <3>2, WhoLeaves
  <2>2. ASSUME NEW c \in Leaving' PROVE c \in Leaving \ closed
    <3>1. CASE c \in adrift
      BY <1>2, <3>1, WhoLeaves
    <3>2. CASE c \in gone
      BY <3>2, WhoLeaves
    <3>3. ASSUME NEW a \in closing', c \in a PROVE c \in Leaving \ closed
      BY <1>2, <1>3, <3>3, WhoLeaves
    <3> QED
      BY <2>2, <3>1, <3>2, <3>3, WhoLeaves
  <2> QED
    BY <2>1, <2>2
<1>6. closed \subseteq Leaving
  BY WhoLeaves
<1>7. ClientTypes'
  <2>1. \A u \in Clients!Users : got[u] \in open' \cup {0}
    BY <1>0, <1>u, <1>6 DEF ClientTypes, HoldersRight, PlacesApart
  <2>2. \A l \in Loops : registry[l] \in open' \cup {0}
    BY <1>0, <1>6 DEF ClientTypes, PlacesApart
  <2>3. registry' \in [Loops -> open' \cup {0}] /\ got' \in [Clients!Users -> open' \cup {0}]
    BY <1>0, <2>1, <2>2 DEF ClientTypes
  <2>4. sync' \in open' \cup {0} /\ preset' \in open' \cup {0}
    BY <1>0, <1>6 DEF ClientTypes, PlacesApart
  <2> QED
    BY <1>0, <1>5, <2>3, <2>4 DEF ClientTypes, Clients!Users
<1>8. PlacesApart'
  BY <1>0, <1>5 DEF PlacesApart
<1>9. NoneLost'
  BY <1>0, <1>5 DEF NoneLost
<1> QED
  BY <1>0, <1>4, <1>7, <1>8, <1>9 DEF ClientsInv, HoldersRight, WaitersRight

\* Every step keeps the strengthening.
LEMMA ClientsStep == ClientsInv /\ [Clients!Next]_clientVars => ClientsInv'
<1> SUFFICES ASSUME ClientsInv, [Clients!Next]_clientVars PROVE ClientsInv'
  OBVIOUS
<1>0. ClientTypes /\ NoneLost /\ PlacesApart /\ SnapshotsApart /\ HoldersRight
      /\ WaitersRight
  BY DEF ClientsInv
<1>u. /\ ThreadsOf \cap Loops = {} /\ Clients!Users = ThreadsOf \cup Loops
      /\ 0 \notin Clients!Clients
  BY UsersApart
<1>1. ASSUME NEW l \in Loops, Clients!AskAsync(l) PROVE ClientsInv'
  <2>1. /\ UNCHANGED <<open, sync, preset, registry, locked, closing, adrift, Leaving>>
        /\ asking[l] = "no"
        /\ \/ registry[l] = 0 /\ asking' = [asking EXCEPT ![l] = "waiting"] /\ got' = got
           \/ asking' = asking /\ got' = [got EXCEPT ![l] = registry[l]]
    BY <1>1 DEF Clients!AskAsync, Clients!Move, Clients!Give, Leaving
  <2>2. ClientTypes'
    BY <1>0, <2>1 DEF ClientTypes, Clients!Users
  <2>3. HoldersRight' /\ WaitersRight'
    <3>1. CASE registry[l] = 0 /\ asking' = [asking EXCEPT ![l] = "waiting"] /\ got' = got
      <4>1. \A u \in Clients!Users : asking'[u] = IF u = l THEN "waiting" ELSE asking[u]
        BY <1>0, <3>1 DEF ClientTypes
      <4> QED
        BY <1>0, <1>u, <2>1, <3>1, <4>1 DEF HoldersRight, WaitersRight
    <3>2. CASE asking' = asking /\ got' = [got EXCEPT ![l] = registry[l]]
      <4>1. \A u \in Clients!Users : got'[u] = IF u = l THEN registry[l] ELSE got[u]
        BY <1>0, <3>2 DEF ClientTypes
      <4> QED
        BY <1>0, <1>u, <2>1, <3>2, <4>1 DEF HoldersRight, WaitersRight
    <3> QED
      BY <2>1, <3>1, <3>2
  <2> QED
    BY <1>0, <2>1, <2>2, <2>3 DEF ClientsInv, SnapshotsApart, NoneLost, PlacesApart
<1>2. ASSUME NEW l \in Loops, Clients!Register(l) PROVE ClientsInv'
  <2>1. /\ asking[l] = "waiting" /\ asking' = [asking EXCEPT ![l] = "no"]
        /\ got' = [got EXCEPT ![l] = registry'[l]]
        /\ UNCHANGED <<sync, locked, closing, adrift, Leaving>>
    BY <1>2 DEF Clients!Register, Clients!Move, Clients!Give, Leaving
  <2>2. CASE preset # 0
    <3>1. /\ registry' = [registry EXCEPT ![l] = preset] /\ preset' = 0 /\ open' = open
      BY <1>2, <2>2 DEF Clients!Register, Clients!Promote
    <3>2. preset \in Clients!Clients /\ open' = open \cup {preset}
      BY <1>0, <2>2, <3>1 DEF ClientTypes
    <3> QED
      BY <2>1, <3>1, <3>2, Registered
  <2>3. CASE preset = 0
    <3>1. PICK client \in Clients!Clients :
            Clients!Make(client) /\ registry' = [registry EXCEPT ![l] = client]
      BY <1>2, <2>3 DEF Clients!Register
    <3>2. client \in Clients!Clients \ open /\ open' = open \cup {client}
      BY <3>1, NewClient
    <3>3. preset' = preset
      BY <1>2, <2>3 DEF Clients!Register
    <3> QED
      BY <2>1, <3>1, <3>2, <3>3, Registered
  <2> QED
    BY <2>2, <2>3
<1>3. ASSUME NEW l \in Loops, Clients!RegisterFails(l) PROVE ClientsInv'
  <2>1. /\ UNCHANGED <<open, sync, preset, registry, locked, got, closing, adrift, Leaving>>
        /\ asking' = [asking EXCEPT ![l] = "no"]
    BY <1>3 DEF Clients!RegisterFails, Clients!Move, Leaving
  <2>2. \A u \in Clients!Users : asking'[u] = IF u = l THEN "no" ELSE asking[u]
    BY <1>0, <2>1 DEF ClientTypes
  <2>3. ClientTypes'
    BY <1>0, <2>1 DEF ClientTypes, Clients!Users
  <2>4. WaitersRight'
    BY <1>0, <1>u, <2>1, <2>2 DEF WaitersRight
  <2> QED
    BY <1>0, <2>1, <2>3, <2>4 DEF ClientsInv, SnapshotsApart, NoneLost, PlacesApart, HoldersRight
<1>4. ASSUME NEW l \in Loops, Clients!LoopEnds(l) PROVE ClientsInv'
  <2>1. /\ asking[l] = "no" /\ registry[l] # 0 /\ open' = open \ {registry[l]}
        /\ registry' = [registry EXCEPT ![l] = 0] /\ got' = [got EXCEPT ![l] = 0]
        /\ UNCHANGED <<sync, preset, asking, locked, closing, adrift, Leaving>>
    BY <1>4 DEF Clients!LoopEnds, Clients!Give, Leaving
  <2>2. /\ \A k \in Loops : registry'[k] = IF k = l THEN 0 ELSE registry[k]
        /\ \A u \in Clients!Users : got'[u] = IF u = l THEN 0 ELSE got[u]
    BY <1>0, <2>1 DEF ClientTypes
  <2>3. /\ registry[l] \notin Leaving /\ registry[l] # sync /\ registry[l] # preset
        /\ \A k \in Loops \ {l} : registry[k] # registry[l]
    BY <1>0, <2>1 DEF PlacesApart
  <2>4. ClientTypes'
    <3>1. \A k \in Loops : registry'[k] \in open' \cup {0}
      BY <1>0, <2>1, <2>2, <2>3 DEF ClientTypes
    <3>2. \A u \in Clients!Users : got'[u] \in open' \cup {0}
      BY <1>0, <1>u, <2>1, <2>2, <2>3 DEF ClientTypes, HoldersRight
    <3>3. registry' \in [Loops -> open' \cup {0}] /\ got' \in [Clients!Users -> open' \cup {0}]
      BY <1>0, <2>1, <3>1, <3>2 DEF ClientTypes
    <3> QED
      BY <1>0, <2>1, <2>3, <3>3 DEF ClientTypes, Clients!Users
  <2>5. PlacesApart'
    BY <1>0, <2>1, <2>2 DEF PlacesApart
  <2>6. HoldersRight'
    BY <1>0, <1>u, <2>1, <2>2 DEF HoldersRight
  <2>7. WaitersRight'
    BY <1>0, <2>1, <2>2 DEF WaitersRight
  <2>8. NoneLost'
    <3>1. ASSUME NEW c \in open' \ (Leaving' \cup {sync', preset'})
          PROVE  \E k \in Loops : c = registry'[k]
      <4>1. PICK k \in Loops : c = registry[k]
        BY <1>0, <2>1, <3>1 DEF NoneLost
      <4>2. k # l
        BY <2>1, <3>1, <4>1
      <4> QED
        BY <2>2, <4>1, <4>2
    <3> QED
      BY <3>1 DEF NoneLost
  <2> QED
    BY <1>0, <2>1, <2>4, <2>5, <2>6, <2>7, <2>8 DEF ClientsInv, SnapshotsApart
<1>5. CASE Clients!Close
  <2>1. /\ sync # 0 /\ \A t \in ThreadsOf : asking[t] = "no"
        /\ open' = open \ {sync} /\ sync' = 0
        /\ got' = [u \in Clients!Users |-> IF u \in ThreadsOf THEN 0 ELSE got[u]]
        /\ UNCHANGED <<preset, registry, asking, locked, closing, adrift, Leaving>>
    BY <1>5 DEF Clients!Close, Leaving
  <2>2. sync \notin Leaving /\ sync # preset /\ \A l \in Loops : registry[l] # sync
    BY <1>0, <2>1 DEF PlacesApart
  <2>3. ClientTypes'
    <3>1. \A u \in Clients!Users : got'[u] \in open' \cup {0}
      BY <1>0, <1>u, <2>1, <2>2 DEF ClientTypes, HoldersRight
    <3>2. got' \in [Clients!Users -> open' \cup {0}]
      BY <2>1, <3>1
    <3>3. \A l \in Loops : registry[l] \in open' \cup {0}
      BY <1>0, <2>1, <2>2 DEF ClientTypes
    <3>4. registry' \in [Loops -> open' \cup {0}]
      BY <1>0, <2>1, <3>3 DEF ClientTypes
    <3> QED
      BY <1>0, <2>1, <2>2, <3>2, <3>4 DEF ClientTypes, Clients!Users
  <2>4. PlacesApart'
    <3>1. \A l \in Loops : registry[l] # 0 => registry[l] # preset /\ registry[l] \notin Leaving
      BY <1>0 DEF PlacesApart
    <3> QED
      BY <1>0, <2>1, <3>1 DEF PlacesApart
  <2>5. HoldersRight'
    BY <1>0, <1>u, <2>1 DEF HoldersRight
  <2>6. WaitersRight'
    BY <1>0, <2>1 DEF WaitersRight
  <2>7. NoneLost'
    BY <1>0, <2>1 DEF NoneLost
  <2> QED
    BY <1>0, <2>1, <2>3, <2>4, <2>5, <2>6, <2>7 DEF ClientsInv, SnapshotsApart
<1>6. CASE Clients!BeginAclose
  <2> DEFINE known0 == Clients!ClientsOf(Loops)
  <2>1. /\ closing' = (closing \cup {known0}) \ {{}}
        /\ registry' = [l \in Loops |-> 0]
        /\ got' = [u \in Clients!Users |-> IF u \in Loops THEN 0 ELSE got[u]]
        /\ UNCHANGED <<open, sync, preset, asking, locked, adrift>>
    BY <1>6 DEF Clients!BeginAclose, Clients!Snapshot, Clients!Nowhere
  <2>2. /\ known0 \subseteq open /\ known0 \cap Leaving = {}
        /\ sync # 0 => sync \notin known0
        /\ preset # 0 => preset \notin known0
        /\ \A l \in Loops : registry[l] # 0 => registry[l] \in known0
    BY <1>0 DEF ClientTypes, PlacesApart, Clients!ClientsOf
  <2> HIDE DEF known0
  <2>3. Leaving' = Leaving \cup known0
    BY <2>1, WhoLeaves
  <2>4. ClientTypes'
    BY <1>0, <2>1, <2>2, <2>3 DEF ClientTypes, Clients!Users
  <2>5. PlacesApart'
    BY <1>0, <2>1, <2>2, <2>3 DEF PlacesApart
  <2>6. HoldersRight'
    BY <1>0, <1>u, <2>1 DEF HoldersRight
  <2>7. WaitersRight'
    BY <1>0, <2>1 DEF WaitersRight
  <2>8. NoneLost'
    BY <1>0, <1>u, <2>1, <2>2, <2>3 DEF NoneLost, ClientTypes
  <2>9. SnapshotsApart'
    <3>1. \A a \in closing' : a = known0 \/ a \in closing
      BY <2>1
    <3>2. known0 \cap adrift = {} /\ \A a \in closing : a \cap known0 = {}
      BY <2>2, WhoLeaves
    <3> QED
      BY <1>0, <2>1, <3>1, <3>2 DEF SnapshotsApart
  <2> QED
    BY <2>4, <2>5, <2>6, <2>7, <2>8, <2>9 DEF ClientsInv
<1>7. ASSUME NEW clients \in closing, NEW client \in clients,
             \/ Clients!CloseNext(clients, client) \/ Clients!CloseFails(clients, client)
             \/ Clients!Cancelled(clients, client)
      PROVE  ClientsInv'
  <2> DEFINE others == clients \ {client}
  <2>0. /\ others \in SUBSET clients /\ {client} \in SUBSET clients /\ {} \in SUBSET clients
        /\ clients \in SUBSET clients
        /\ clients = others \cup {} \cup {client} /\ clients = others \cup {client} \cup {}
        /\ clients = {} \cup others \cup {client} /\ clients = {} \cup clients \cup {}
        /\ others \cap {client} = {} /\ others \cap {} = {} /\ {} \cap {client} = {}
        /\ {} \cap others = {} /\ {client} \cap {} = {} /\ {} \cap {} = {}
        /\ {} \cap clients = {} /\ clients \cap {} = {}
    OBVIOUS
  <2>1. CASE Clients!CloseNext(clients, client)
    <3>1. /\ Clients!Becomes(clients, others)
          /\ open' = open \ {client} /\ adrift' = adrift \cup {}
          /\ UNCHANGED <<sync, preset, registry, asking, locked, got>>
      BY <2>1 DEF Clients!CloseNext
    <3> HIDE DEF others
    <3> QED
      BY <2>0, <3>1, ClosingStep
  <2>2. CASE Clients!CloseFails(clients, client)
    <3>1. /\ Clients!Becomes(clients, others)
          /\ open' = open \ {} /\ adrift' = adrift \cup {client}
          /\ UNCHANGED <<sync, preset, registry, asking, locked, got>>
      BY <2>2 DEF Clients!CloseFails
    <3> HIDE DEF others
    <3> QED
      BY <2>0, <3>1, ClosingStep
  <2>3. CASE Clients!Cancelled(clients, client)
    <3>1. /\ Clients!Becomes(clients, {})
          /\ \/ open' = open \ {client} /\ adrift' = adrift \cup others
             \/ open' = open \ {} /\ adrift' = adrift \cup clients
          /\ UNCHANGED <<sync, preset, registry, asking, locked, got>>
      BY <2>3 DEF Clients!Cancelled
    <3> HIDE DEF others
    <3>2. CASE open' = open \ {client} /\ adrift' = adrift \cup others
      BY <2>0, <3>1, <3>2, ClosingStep
    <3>3. CASE open' = open \ {} /\ adrift' = adrift \cup clients
      BY <2>0, <3>1, <3>3, ClosingStep
    <3> QED
      BY <3>1, <3>2, <3>3
  <2> QED
    BY <1>7, <2>1, <2>2, <2>3
<1>8. CASE UNCHANGED clientVars
  BY <1>0, <1>8 DEF clientVars, ClientsInv, ClientTypes, NoneLost, PlacesApart,
      HoldersRight, WaitersRight, SnapshotsApart, Leaving
<1> QED
  BY <1>1, <1>2, <1>3, <1>4, <1>5, <1>6, <1>7, <1>8, ThreadSteps DEF Clients!Next

\* At first the manager has what it was given.
LEMMA ClientsStart == Clients!Init => ClientsInv
<1> SUFFICES ASSUME Clients!Init PROVE ClientsInv
  OBVIOUS
<1>0. MaxClients \in Nat /\ MaxClients >= 2
  BY ToolkitAssumption DEF Clients!ConnectionsAssumption
<1>u. /\ ThreadsOf \cap Loops = {} /\ Clients!Users = ThreadsOf \cup Loops
      /\ 0 \notin Clients!Clients
  BY UsersApart
<1>1. /\ sync \in {0, 1} /\ preset \in {0, 2}
      /\ registry \in {Clients!Nowhere} \cup
            {[Clients!Nowhere EXCEPT ![l] = 2] : l \in IF preset = 0 THEN Loops ELSE {}}
      /\ open = ({sync, preset} \cup {registry[l] : l \in Loops}) \ {0}
      /\ asking = [u \in Clients!Users |-> "no"] /\ locked = {}
      /\ closing = {} /\ adrift = {}
      /\ got = [u \in Clients!Users |-> 0]
  BY DEF Clients!Init
<1>2. /\ registry \in [Loops -> {0, 2}]
      /\ preset # 0 => \A l \in Loops : registry[l] = 0
      /\ \A l, k \in Loops : registry[l] # 0 /\ registry[k] # 0 => l = k
  <2>1. CASE registry = Clients!Nowhere
    BY <2>1 DEF Clients!Nowhere
  <2>2. ASSUME preset = 0, NEW l \in Loops, registry = [Clients!Nowhere EXCEPT ![l] = 2]
        PROVE  /\ registry \in [Loops -> {0, 2}]
               /\ \A j, k \in Loops : registry[j] # 0 /\ registry[k] # 0 => j = k
    BY <2>2 DEF Clients!Nowhere
  <2> QED
    BY <1>1, <2>1, <2>2
<1>3. open \subseteq {1, 2} /\ {1, 2} \subseteq Clients!Clients
  BY <1>0, <1>1, <1>2 DEF Clients!Clients
<1>l. Leaving = {} /\ SnapshotsApart
  BY <1>1 DEF Leaving, SnapshotsApart
<1>4. ClientTypes
  <2>1. registry \in [Loops -> open \cup {0}]
    BY <1>1, <1>2
  <2> QED
    BY <1>1, <1>3, <1>l, <2>1 DEF ClientTypes
<1>5. PlacesApart
  BY <1>1, <1>2, <1>l DEF PlacesApart
<1>6. HoldersRight /\ WaitersRight
  BY <1>1, <1>u DEF HoldersRight, WaitersRight
<1>7. NoneLost
  BY <1>1 DEF NoneLost
<1> QED
  BY <1>4, <1>5, <1>6, <1>7, <1>l DEF ClientsInv

\* The types follow.
LEMMA ClientsTyped == ClientsInv => Clients!TypeOK
<1> SUFFICES ASSUME ClientTypes PROVE Clients!TypeOK
  BY DEF ClientsInv
<1>1. closing \subseteq SUBSET open /\ adrift \subseteq open
  <2>1. ASSUME NEW a \in closing, NEW c \in a PROVE c \in open
    BY WhoLeaves DEF ClientTypes
  <2>2. adrift \subseteq open
    BY WhoLeaves DEF ClientTypes
  <2> QED
    BY <2>1, <2>2
<1> QED
  BY <1>1 DEF ClientTypes, Clients!TypeOK

\* So does the property.
LEMMA ClientsPlaced == ClientsInv => EveryClientHasItsPlace
<1> SUFFICES ASSUME ClientsInv PROVE Clients!NoClientShared /\ Clients!NoClientLost
  BY DEF EveryClientHasItsPlace
<1>0. ClientTypes /\ PlacesApart /\ HoldersRight /\ NoneLost
  BY DEF ClientsInv
<1>u. /\ ThreadsOf \cap Loops = {} /\ Clients!Users = ThreadsOf \cup Loops
  BY UsersApart
<1>1. ASSUME NEW u \in Clients!Users, NEW v \in Clients!Users, u # v, got[u] # 0, got[v] # 0
      PROVE  IF {u, v} \subseteq ThreadsOf THEN got[u] = got[v] /\ got[u] \in open
             ELSE got[u] # got[v]
  <2>1. CASE u \in ThreadsOf /\ v \in ThreadsOf
    BY <1>0, <1>1, <2>1 DEF HoldersRight, ClientTypes
  <2>2. CASE u \in ThreadsOf /\ v \in Loops
    BY <1>0, <1>1, <1>u, <2>2 DEF HoldersRight, PlacesApart
  <2>3. CASE u \in Loops /\ v \in ThreadsOf
    BY <1>0, <1>1, <1>u, <2>3 DEF HoldersRight, PlacesApart
  <2>4. CASE u \in Loops /\ v \in Loops
    BY <1>0, <1>1, <1>u, <2>4 DEF HoldersRight, PlacesApart
  <2> QED
    BY <1>u, <2>1, <2>2, <2>3, <2>4
<1>2. Clients!NoClientShared
  BY <1>1 DEF Clients!NoClientShared
<1>3. Clients!NoClientLost
  BY <1>0 DEF NoneLost, Leaving, Clients!NoClientLost
<1> QED
  BY <1>2, <1>3

----------------------------------------------------------------------------
(* Bloom filter *)

\* A call has yet to come to bits of its item only.  Until a reset, an add() has set those
\* that it came to, and an exists() looks for an item that is there and has missed no bit.
ProbeSound(p) ==
    p # Bloom!NoProbe =>
        /\ p.todo \subseteq OffsetsOf[p.item]
        /\ p.op = "add" /\ p.sure => OffsetsOf[p.item] \ p.todo \subseteq bits
        /\ p.op = "exists" /\ p.sure => p.item \in present /\ p.found

BloomInv ==
    /\ Bloom!TypeOK
    /\ \A u \in BloomUsers : ProbeSound(probes[u])
    /\ \A item \in present : OffsetsOf[item] \subseteq bits

\* The call of one user goes on, and nothing is reset.
LEMMA OneProbeMoves ==
    ASSUME BloomInv, NEW u \in BloomUsers, NEW p \in {Bloom!NoProbe} \cup Bloom!Calls,
           probes' = [probes EXCEPT ![u] = p],
           bits \subseteq bits', bits' \subseteq Bloom!AllBits,
           present \subseteq present', present' \subseteq Bloom!BloomItems,
           p # Bloom!NoProbe =>
                /\ p.todo \subseteq OffsetsOf[p.item]
                /\ p.op = "add" /\ p.sure => OffsetsOf[p.item] \ p.todo \subseteq bits'
                /\ p.op = "exists" /\ p.sure => p.item \in present' /\ p.found,
           \A item \in present' \ present : OffsetsOf[item] \subseteq bits'
    PROVE  BloomInv'
<1>1. Bloom!TypeOK'
  BY DEF BloomInv, Bloom!TypeOK
<1>2. ASSUME NEW v \in BloomUsers PROVE ProbeSound(probes[v])'
  <2>1. CASE v = u
    <3>1. probes'[v] = p
      BY <2>1 DEF BloomInv, Bloom!TypeOK
    <3> QED
      BY <3>1 DEF ProbeSound
  <2>2. CASE v # u
    <3>1. probes'[v] = probes[v] /\ ProbeSound(probes[v])
      BY <2>2 DEF BloomInv, Bloom!TypeOK
    <3> QED
      BY <3>1 DEF ProbeSound
  <2> QED
    BY <2>1, <2>2
<1>3. ASSUME NEW item \in present' PROVE OffsetsOf[item] \subseteq bits'
  BY <1>3 DEF BloomInv
<1> QED
  BY <1>1, <1>2, <1>3 DEF BloomInv

\* Every step keeps the strengthening.
LEMMA BloomStep == BloomInv /\ [Bloom!Next]_bloomVars => BloomInv'
<1> SUFFICES ASSUME BloomInv, [Bloom!Next]_bloomVars PROVE BloomInv'
  OBVIOUS
<1>0. /\ bits \subseteq Bloom!AllBits /\ present \subseteq Bloom!BloomItems
      /\ \A u \in BloomUsers : probes[u] \in {Bloom!NoProbe} \cup Bloom!Calls
      /\ \A u \in BloomUsers : ProbeSound(probes[u])
      /\ \A item \in present : OffsetsOf[item] \subseteq bits
      /\ \A item \in Bloom!BloomItems : OffsetsOf[item] \subseteq Bloom!AllBits
      /\ probes \in [BloomUsers -> {Bloom!NoProbe} \cup Bloom!Calls]
  BY DEF BloomInv, Bloom!TypeOK, Bloom!AllBits
<1>n. Bloom!NoProbe.op = "none"
  BY DEF Bloom!NoProbe
<1>1. ASSUME NEW u \in BloomUsers, NEW item \in Bloom!BloomItems, NEW op \in {"add", "exists"},
             Bloom!Begin(u, op, item)
      PROVE  BloomInv'
  <2> DEFINE p == [op |-> op, item |-> item, todo |-> OffsetsOf[item],
                   found |-> TRUE, sure |-> op = "add" \/ item \in present]
  <2>1. /\ probes' = [probes EXCEPT ![u] = p] /\ UNCHANGED <<bits, present>>
    BY <1>1 DEF Bloom!Begin
  <2>2. p \in Bloom!Calls
    BY <1>0 DEF Bloom!Calls
  <2>3. /\ p.todo \subseteq OffsetsOf[p.item]
        /\ OffsetsOf[p.item] \ p.todo \subseteq bits'
        /\ p.op = "exists" /\ p.sure => p.item \in present' /\ p.found
    BY <2>1
  <2> HIDE DEF p
  <2> QED
    BY <1>0, <2>1, <2>2, <2>3, OneProbeMoves
<1>2. ASSUME NEW u \in BloomUsers, NEW bit \in Bloom!AllBits, Bloom!SetBit(u, bit)
      PROVE  BloomInv'
  <2> DEFINE q == probes[u]
             p == [probes[u] EXCEPT !.todo = probes[u].todo \ {bit}]
  <2>1. /\ q.op = "add" /\ q \in Bloom!Calls /\ q # Bloom!NoProbe
        /\ probes' = [probes EXCEPT ![u] = p]
        /\ bits' = bits \cup {bit} /\ present' = present
    BY <1>0, <1>n, <1>2 DEF Bloom!SetBit, Bloom!Done
  <2>2. /\ p \in Bloom!Calls /\ p.op = "add" /\ p.item = q.item /\ p.sure = q.sure
        /\ p.todo = q.todo \ {bit}
    BY <2>1 DEF Bloom!Calls
  <2>3. ProbeSound(q)
    BY <1>0
  <2> HIDE DEF p, q
  <2>4. /\ p.todo \subseteq OffsetsOf[p.item]
        /\ p.op = "add" /\ p.sure => OffsetsOf[p.item] \ p.todo \subseteq bits'
        /\ p.op # "exists"
    BY <2>1, <2>2, <2>3 DEF ProbeSound
  <2> QED
    BY <1>0, <2>1, <2>2, <2>4, OneProbeMoves
<1>3. ASSUME NEW u \in BloomUsers, NEW bit \in Bloom!AllBits, Bloom!GetBit(u, bit)
      PROVE  BloomInv'
  <2> DEFINE q == probes[u]
             p == [probes[u] EXCEPT !.todo = probes[u].todo \ {bit},
                                    !.found = probes[u].found /\ bit \in bits]
  <2>1. /\ q.op = "exists" /\ q \in Bloom!Calls /\ q # Bloom!NoProbe /\ bit \in q.todo
        /\ probes' = [probes EXCEPT ![u] = p]
        /\ UNCHANGED <<bits, present>>
    BY <1>0, <1>n, <1>3 DEF Bloom!GetBit
  <2>2. /\ p \in Bloom!Calls /\ p.op = "exists" /\ p.item = q.item /\ p.sure = q.sure
        /\ p.todo = q.todo \ {bit} /\ p.found = (q.found /\ bit \in bits)
    BY <2>1 DEF Bloom!Calls
  <2>3. ProbeSound(q)
    BY <1>0
  <2> HIDE DEF p, q
  <2>4. /\ p.todo \subseteq OffsetsOf[p.item]
        /\ p.op # "add"
    BY <2>1, <2>2, <2>3 DEF ProbeSound
  <2>5. ASSUME p.sure PROVE p.item \in present' /\ p.found
    <3>1. q.item \in present /\ q.found /\ q.todo \subseteq OffsetsOf[q.item]
      BY <2>1, <2>2, <2>3, <2>5 DEF ProbeSound
    <3>2. bit \in bits
      BY <1>0, <2>1, <3>1
    <3> QED
      BY <2>1, <2>2, <3>1, <3>2
  <2> QED
    BY <1>0, <2>1, <2>2, <2>4, <2>5, OneProbeMoves
<1>4. ASSUME NEW u \in BloomUsers, Bloom!Resend(u) PROVE BloomInv'
  <2> DEFINE q == probes[u]
             p == [probes[u] EXCEPT !.todo = OffsetsOf[probes[u].item], !.found = TRUE]
  <2>1. /\ q \in Bloom!Calls /\ q # Bloom!NoProbe
        /\ probes' = [probes EXCEPT ![u] = p]
        /\ UNCHANGED <<bits, present>>
    BY <1>0, <1>4 DEF Bloom!Resend
  <2>2. /\ p \in Bloom!Calls /\ p.op = q.op /\ p.item = q.item /\ p.sure = q.sure
        /\ p.todo = OffsetsOf[q.item] /\ p.found
    BY <1>0, <2>1 DEF Bloom!Calls
  <2>3. ProbeSound(q)
    BY <1>0
  <2> HIDE DEF p, q
  <2>4. /\ p.todo \subseteq OffsetsOf[p.item]
        /\ OffsetsOf[p.item] \ p.todo \subseteq bits'
        /\ p.op = "exists" /\ p.sure => p.item \in present' /\ p.found
    BY <2>1, <2>2, <2>3 DEF ProbeSound
  <2> QED
    BY <1>0, <2>1, <2>2, <2>4, OneProbeMoves
<1>5. ASSUME NEW u \in BloomUsers, Bloom!Return(u) PROVE BloomInv'
  <2> DEFINE q == probes[u]
  <2>1. /\ q \in Bloom!Calls /\ q # Bloom!NoProbe /\ q.todo = {} /\ ProbeSound(q)
        /\ probes' = [probes EXCEPT ![u] = Bloom!NoProbe] /\ bits' = bits
        /\ present' = IF q.op = "add" /\ q.sure THEN present \cup {q.item} ELSE present
    BY <1>0, <1>5 DEF Bloom!Return
  <2> HIDE DEF q
  <2>2. q.item \in Bloom!BloomItems
    BY <2>1 DEF Bloom!Calls
  <2>3. \A item \in present' \ present : OffsetsOf[item] \subseteq bits'
    BY <2>1 DEF ProbeSound
  <2> QED
    BY <1>0, <2>1, <2>2, <2>3, OneProbeMoves
<1>6. ASSUME NEW u \in BloomUsers, Bloom!Break(u) PROVE BloomInv'
  BY <1>0, <1>6, OneProbeMoves DEF Bloom!Break
<1>7. CASE Bloom!Reset
  <2>1. /\ bits' = {} /\ present' = {}
        /\ probes' = [u \in BloomUsers |-> IF probes[u] = Bloom!NoProbe THEN Bloom!NoProbe
                                           ELSE [probes[u] EXCEPT !.sure = FALSE]]
    BY <1>7 DEF Bloom!Reset
  <2>2. ASSUME NEW u \in BloomUsers
        PROVE  probes'[u] \in {Bloom!NoProbe} \cup Bloom!Calls /\ ProbeSound(probes[u])'
    <3>1. CASE probes[u] = Bloom!NoProbe
      BY <2>1, <3>1 DEF ProbeSound
    <3>2. CASE probes[u] # Bloom!NoProbe
      <4> DEFINE q == probes[u]
                 p == [probes[u] EXCEPT !.sure = FALSE]
      <4>1. q \in Bloom!Calls /\ probes'[u] = p /\ ProbeSound(q) /\ q # Bloom!NoProbe
        BY <1>0, <2>1, <3>2
      <4>2. p \in Bloom!Calls /\ p.item = q.item /\ p.todo = q.todo /\ p.sure = FALSE
        BY <4>1 DEF Bloom!Calls
      <4> HIDE DEF p, q
      <4> QED
        BY <4>1, <4>2 DEF ProbeSound
    <3> QED
      BY <3>1, <3>2
  <2> QED
    BY <2>1, <2>2 DEF BloomInv, Bloom!TypeOK
<1>8. CASE UNCHANGED bloomVars
  BY <1>8 DEF bloomVars, BloomInv, Bloom!TypeOK, ProbeSound
<1> QED
  BY <1>1, <1>2, <1>3, <1>4, <1>5, <1>6, <1>7, <1>8 DEF Bloom!Next

\* At first no bit is set and nobody calls.
LEMMA BloomStart == Bloom!Init => BloomInv
BY DEF Bloom!Init, BloomInv, Bloom!TypeOK, ProbeSound

\* The property follows.
LEMMA BloomFinds == BloomInv => NoFalseNegative
<1> SUFFICES ASSUME BloomInv PROVE Bloom!NoFalseNegative
  BY DEF NoFalseNegative
<1>1. ASSUME NEW u \in BloomUsers, probes[u].op = "exists", probes[u].sure PROVE probes[u].found
  BY <1>1 DEF BloomInv, ProbeSound, Bloom!NoProbe
<1> QED
  BY <1>1 DEF BloomInv, Bloom!NoFalseNegative

----------------------------------------------------------------------------
(* All of them *)

\* A step of the toolkit is for each component a step of its own, or it is at rest.
LEMMA StepOfEach ==
    [Next]_vars =>
        /\ [Bucket!Next]_bucketVars
        /\ [Sliding!Next]_windowVars
        /\ [Delayed!Next]_delayedVars
        /\ [Sessions!Next]_sessionVars
        /\ [Messages!Next]_messageVars
        /\ [Cached!Next]_cachedVars
        /\ [Clients!Next]_clientVars
        /\ [Bloom!Next]_bloomVars
<1> SUFFICES ASSUME [Next]_vars
             PROVE  /\ [Bucket!Next]_bucketVars
                    /\ [Sliding!Next]_windowVars
                    /\ [Delayed!Next]_delayedVars
                    /\ [Sessions!Next]_sessionVars
                    /\ [Messages!Next]_messageVars
                    /\ [Cached!Next]_cachedVars
                    /\ [Clients!Next]_clientVars
                    /\ [Bloom!Next]_bloomVars
  OBVIOUS
<1>1. CASE Only("bucket") /\ Bucket!Next
  <2>1. UNCHANGED <<windowVars, delayedVars, sessionVars, messageVars, cachedVars, clientVars, bloomVars>>
    BY <1>1 DEF Only
  <2> QED
    BY <1>1, <2>1
<1>2. CASE Only("window") /\ Sliding!Next
  <2>1. UNCHANGED <<bucketVars, delayedVars, sessionVars, messageVars, cachedVars, clientVars, bloomVars>>
    BY <1>2 DEF Only
  <2> QED
    BY <1>2, <2>1
<1>3. CASE Only("delayed") /\ Delayed!Next
  <2>1. UNCHANGED <<bucketVars, windowVars, sessionVars, messageVars, cachedVars, clientVars, bloomVars>>
    BY <1>3 DEF Only
  <2> QED
    BY <1>3, <2>1
<1>4. CASE Only("sessions") /\ Sessions!Next
  <2>1. UNCHANGED <<bucketVars, windowVars, delayedVars, messageVars, cachedVars, clientVars, bloomVars>>
    BY <1>4 DEF Only
  <2> QED
    BY <1>4, <2>1
<1>5. CASE Only("messages") /\ Messages!Next
  <2>1. UNCHANGED <<bucketVars, windowVars, delayedVars, sessionVars, cachedVars, clientVars, bloomVars>>
    BY <1>5 DEF Only
  <2> QED
    BY <1>5, <2>1
<1>6. CASE Only("cached") /\ Cached!Next
  <2>1. UNCHANGED <<bucketVars, windowVars, delayedVars, sessionVars, messageVars, clientVars, bloomVars>>
    BY <1>6 DEF Only
  <2> QED
    BY <1>6, <2>1
<1>7. CASE Only("clients") /\ Clients!Next
  <2>1. UNCHANGED <<bucketVars, windowVars, delayedVars, sessionVars, messageVars, cachedVars, bloomVars>>
    BY <1>7 DEF Only
  <2> QED
    BY <1>7, <2>1
<1>8. CASE Only("bloom") /\ Bloom!Next
  <2>1. UNCHANGED <<bucketVars, windowVars, delayedVars, sessionVars, messageVars, cachedVars, clientVars>>
    BY <1>8 DEF Only
  <2> QED
    BY <1>8, <2>1
<1>9. CASE UNCHANGED vars
  BY <1>9 DEF vars
<1> QED
  BY <1>1, <1>2, <1>3, <1>4, <1>5, <1>6, <1>7, <1>8, <1>9 DEF Next

\* The invariants of the components, together.
ToolkitInv ==
    /\ active \in Components
    /\ BucketInv
    /\ WindowInv
    /\ DelayedInv
    /\ SessionInv
    /\ MessagesInv
    /\ CachedInv
    /\ ClientsInv
    /\ BloomInv

\* It holds in every state of every behaviour.
THEOREM ToolkitInvariant == Spec => []ToolkitInv
<1>1. Init => ToolkitInv
  BY BucketStart, WindowStart, DelayedStart, SessionStart, MessagesStart,
     CachedStart, ClientsStart, BloomStart DEF Init, ToolkitInv
<1>2. ToolkitInv /\ [Next]_vars => ToolkitInv'
  <2> SUFFICES ASSUME ToolkitInv, [Next]_vars PROVE ToolkitInv'
    OBVIOUS
  <2>1. [Bucket!Next]_bucketVars
    BY StepOfEach
  <2>2. [Sliding!Next]_windowVars
    BY StepOfEach
  <2>3. [Delayed!Next]_delayedVars
    BY StepOfEach
  <2>4. [Sessions!Next]_sessionVars
    BY StepOfEach
  <2>5. [Messages!Next]_messageVars
    BY StepOfEach
  <2>6. [Cached!Next]_cachedVars
    BY StepOfEach
  <2>7. [Clients!Next]_clientVars
    BY StepOfEach
  <2>8. [Bloom!Next]_bloomVars
    BY StepOfEach
  <2>9. BucketInv'
    BY <2>1, BucketStep DEF ToolkitInv
  <2>10. WindowInv'
    BY <2>2, WindowStep DEF ToolkitInv
  <2>11. DelayedInv'
    BY <2>3, DelayedStep DEF ToolkitInv
  <2>12. SessionInv'
    BY <2>4, SessionStep DEF ToolkitInv
  <2>13. MessagesInv'
    BY <2>5, MessagesStep DEF ToolkitInv
  <2>14. CachedInv'
    BY <2>6, CachedStep DEF ToolkitInv
  <2>15. ClientsInv'
    BY <2>7, ClientsStep DEF ToolkitInv
  <2>16. BloomInv'
    BY <2>8, BloomStep DEF ToolkitInv
  <2>17. active' \in Components
    <3>1. active' = active
      BY DEF Next, Only, vars
    <3> QED
      BY <3>1 DEF ToolkitInv, Components
  <2> QED
    BY <2>9, <2>10, <2>11, <2>12, <2>13, <2>14, <2>15, <2>16, <2>17 DEF ToolkitInv
<1> QED
  BY <1>1, <1>2, PTL DEF Spec

\* The variables of every component have their types.
THEOREM TypeCorrect == Spec => []TypeOK
<1>1. ToolkitInv => TypeOK
  BY ClientsTyped DEF ToolkitInv, TypeOK, BucketInv, WindowInv, DelayedInv, SessionInv,
      MessagesInv, CachedInv, BloomInv
<1> QED
  BY <1>1, ToolkitInvariant, PTL

\* In no interval does the bucket permit more than its capacity and what the rate brings
\* in, whichever keys expire and whichever commands are sent again; nor does the window
\* permit more than its limit in an interval a millisecond shorter than it.
THEOREM LimitsKept == Spec => []LimitNeverExceeded
<1>1. ToolkitInv => LimitNeverExceeded
  BY BucketKept, WindowKept DEF ToolkitInv, LimitNeverExceeded
<1> QED
  BY <1>1, ToolkitInvariant, PTL

\* A caller that waits as long as retry_after said is allowed when nobody came between,
\* with either limiter, although both count in whole milliseconds.
THEOREM AdviceHolds == Spec => []AdviceSuffices
<1>1. ToolkitInv => AdviceSuffices
  BY BucketKept, WindowKept DEF ToolkitInv, AdviceSuffices
<1> QED
  BY <1>1, ToolkitInvariant, PTL

\* An item of the delay queue is returned by one poll() for each execution of its put() at
\* most and not before its time, and is missing only if a reply was lost.
THEOREM PutsAccountedFor == Spec => []ItemsAccountedFor
<1>1. ToolkitInv => ItemsAccountedFor
  BY DEF ToolkitInv, DelayedInv, ItemsAccountedFor
<1> QED
  BY <1>1, ToolkitInvariant, PTL

\* A session exists as long as it is neither deleted nor idle for the ttl, with all its
\* fields, whatever updates, touches and deletions interleave.
THEOREM SessionsKept == Spec => []SessionLifetime
<1>1. ToolkitInv => SessionLifetime
  BY SessionsLive DEF ToolkitInv
<1> QED
  BY <1>1, ToolkitInvariant, PTL

\* A message of a subscribed channel finds its handler, unless an unsubscribe() met a
\* subscribe().
THEOREM HandlersThere == Spec => []HandlerForEverySubscription
<1>1. ToolkitInv => HandlerForEverySubscription
  BY MessagesHandled DEF ToolkitInv
<1> QED
  BY <1>1, ToolkitInvariant, PTL

\* An invalidated result comes back only from a call that had it before.
THEOREM InvalidationsHold == Spec => []InvalidationHolds
<1>1. ToolkitInv => InvalidationHolds
  BY CachedHolds DEF ToolkitInv
<1> QED
  BY <1>1, ToolkitInvariant, PTL

\* Neither do two event loops get the same client, nor threads different ones, nor is a
\* client lost that is open.
THEOREM ClientsInPlace == Spec => []EveryClientHasItsPlace
<1>1. ToolkitInv => EveryClientHasItsPlace
  BY ClientsPlaced DEF ToolkitInv
<1> QED
  BY <1>1, ToolkitInvariant, PTL

\* An item that was added is found, unless a reset() overlapped the call.
THEOREM NoneMissed == Spec => []NoFalseNegative
<1>1. ToolkitInv => NoFalseNegative
  BY BloomFinds DEF ToolkitInv
<1> QED
  BY <1>1, ToolkitInvariant, PTL
=============================================================================
