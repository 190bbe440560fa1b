------------------------- MODULE ReliableQueueProofs -------------------------
(***************************************************************************)
(* Theorems about ReliableQueue, for every set of messages and consumers,  *)
(* any number of faults and nacks, and any max_items of recover_stale.     *)
(***************************************************************************)
EXTENDS ReliableQueue, TLAPS, SequenceTheorems,
        FiniteSetTheorems, WellFoundedInduction

----------------------------------------------------------------------------
(* What LPUSH, the pop of LMOVE and LREM do to the messages of a list. *)

\* LPUSH adds its message.
LEMMA ConsAdds ==
    ASSUME NEW S, NEW list \in Seq(S), NEW m \in S
    PROVE  /\ Cons(m, list) \in Seq(S)
           /\ ToSet(Cons(m, list)) = ToSet(list) \cup {m}
<1> DEFINE new == <<m>> \o list
<1>1. <<m>> \in Seq(S) /\ Len(<<m>>) = 1 /\ <<m>>[1] = m
  OBVIOUS
<1>2. new \in Seq(S) /\ Len(new) = Len(list) + 1
  BY <1>1, ConcatProperties
<1>3. \A i \in 1 .. Len(new) : new[i] = IF i = 1 THEN m ELSE list[i - 1]
  BY <1>1, ConcatProperties
<1>4. ToSet(new) \subseteq ToSet(list) \cup {m}
  BY <1>2, <1>3 DEF ToSet
<1>5. \A i \in 1 .. Len(list) : list[i] = new[i + 1] /\ i + 1 \in 1 .. Len(new)
  BY <1>2, <1>3
<1>6. \A i \in 1 .. Len(new) : new[i] \in ToSet(new)
  BY <1>2, LenProperties DEF ToSet
<1>7. m \in ToSet(new)
  BY <1>2, <1>3, <1>6, LenProperties
<1>8. ToSet(list) \subseteq ToSet(new)
  BY <1>5, <1>6, LenProperties DEF ToSet
<1> QED
  BY <1>2, <1>4, <1>7, <1>8 DEF Cons

\* The right end that LMOVE takes: nothing else leaves the list.
LEMMA FrontAndLast ==
    ASSUME NEW S, NEW list \in Seq(S), list # <<>>
    PROVE  /\ Front(list) \in Seq(S)
           /\ Last(list) \in S
           /\ ToSet(list) = ToSet(Front(list)) \cup {Last(list)}
<1> DEFINE n == Len(list)
<1>1. n \in Nat \ {0} /\ DOMAIN list = 1 .. n /\ \A i \in 1 .. n : list[i] \in S
  BY EmptySeq, LenProperties, ElementOfSeq
<1>2. /\ Front(list) \in Seq(S)
      /\ Len(Front(list)) = n - 1
      /\ \A i \in 1 .. n - 1 : Front(list)[i] = list[i]
  BY <1>1, SubSeqProperties DEF Front
<1>3. DOMAIN Front(list) = 1 .. n - 1
  BY <1>2, LenProperties
<1> QED
  BY <1>1, <1>2, <1>3 DEF ToSet, Last

\* A non-empty set of indices has a smallest one.
LEMMA SmallestIndex ==
    ASSUME NEW I \in SUBSET Nat, I # {}
    PROVE  Min(I) \in I
<1>1. \E i \in I : \A j \in I : i <= j
  <2>1. IsWellFoundedOn(OpToRel(<, Nat), Nat)
    BY NatLessThanWellFounded
  <2>2. PICK i \in I : \A j \in I : <<j, i>> \notin OpToRel(<, Nat)
    BY <2>1, WFMin, Zenon
  <2>3. i \in I /\ \A j \in I : ~(j < i)
    BY <2>2 DEF OpToRel
  <2>4. I \subseteq Nat
    OBVIOUS
  <2> QED
    BY <2>3, <2>4
<1> QED
  BY <1>1 DEF Min

\* The part of a list before its k-th element.
LEMMA CutBefore ==
    ASSUME NEW S, NEW list \in Seq(S), NEW n \in Nat, Len(list) = n, NEW k \in 1 .. n
    PROVE  /\ SubSeq(list, 1, k - 1) \in Seq(S)
           /\ Len(SubSeq(list, 1, k - 1)) = k - 1
           /\ \A i \in 1 .. k - 1 : SubSeq(list, 1, k - 1)[i] = list[i]
<1>1. k - 1 \in Int /\ \A i \in 1 .. k - 1 : list[i] \in S
  BY ElementOfSeq
<1>2. /\ SubSeq(list, 1, k - 1) \in Seq(S)
      /\ Len(SubSeq(list, 1, k - 1)) = IF 1 <= k - 1 THEN (k - 1) - 1 + 1 ELSE 0
      /\ \A i \in 1 .. (k - 1) - 1 + 1 : SubSeq(list, 1, k - 1)[i] = list[1 + i - 1]
  BY <1>1, SubSeqProperties
<1> DEFINE part == SubSeq(list, 1, k - 1)
<1> HIDE DEF part
<1>3. part \in Seq(S) /\ Len(part) = IF 1 <= k - 1 THEN (k - 1) - 1 + 1 ELSE 0
  BY <1>2 DEF part
<1>4. \A i \in 1 .. (k - 1) - 1 + 1 : part[i] = list[1 + i - 1]
  BY <1>2 DEF part
<1>5. Len(part) = k - 1
  BY <1>3
<1>6. \A i \in 1 .. k - 1 : i \in 1 .. (k - 1) - 1 + 1 /\ 1 + i - 1 = i
  OBVIOUS
<1>7. \A i \in 1 .. k - 1 : part[i] = list[i]
  BY <1>4, <1>6
<1> QED
  BY <1>3, <1>5, <1>7 DEF part

\* The part of a list after its k-th element.
LEMMA CutAfter ==
    ASSUME NEW S, NEW list \in Seq(S), NEW n \in Nat, Len(list) = n, NEW k \in 1 .. n
    PROVE  /\ SubSeq(list, k + 1, n) \in Seq(S)
           /\ Len(SubSeq(list, k + 1, n)) = n - k
           /\ \A i \in 1 .. n - k : SubSeq(list, k + 1, n)[i] = list[k + i]
<1>1. k + 1 \in Int /\ n \in Int /\ \A i \in k + 1 .. n : list[i] \in S
  BY ElementOfSeq
<1>2. /\ SubSeq(list, k + 1, n) \in Seq(S)
      /\ Len(SubSeq(list, k + 1, n)) = IF k + 1 <= n THEN n - (k + 1) + 1 ELSE 0
      /\ \A i \in 1 .. n - (k + 1) + 1 : SubSeq(list, k + 1, n)[i] = list[(k + 1) + i - 1]
  BY <1>1, SubSeqProperties
<1> DEFINE part == SubSeq(list, k + 1, n)
<1> HIDE DEF part
<1>3. part \in Seq(S) /\ Len(part) = IF k + 1 <= n THEN n - (k + 1) + 1 ELSE 0
  BY <1>2 DEF part
<1>4. \A i \in 1 .. n - (k + 1) + 1 : part[i] = list[(k + 1) + i - 1]
  BY <1>2 DEF part
<1>5. Len(part) = n - k
  BY <1>3
<1>6. \A i \in 1 .. n - k : i \in 1 .. n - (k + 1) + 1 /\ (k + 1) + i - 1 = k + i
  OBVIOUS
<1>7. \A i \in 1 .. n - k : part[i] = list[k + i]
  BY <1>4, <1>6
<1> QED
  BY <1>3, <1>5, <1>7 DEF part

\* The two parts together are the list without its k-th element.
LEMMA Joined ==
    ASSUME NEW S, NEW n \in Nat, NEW k \in 1 .. n, NEW list,
           NEW before \in Seq(S), NEW after \in Seq(S),
           Len(before) = k - 1, \A i \in 1 .. k - 1 : before[i] = list[i],
           Len(after) = n - k, \A i \in 1 .. n - k : after[i] = list[k + i]
    PROVE  /\ before \o after \in Seq(S)
           /\ Len(before \o after) = n - 1
           /\ \A i \in 1 .. n - 1 :
                 (before \o after)[i] = IF i < k THEN list[i] ELSE list[i + 1]
<1> DEFINE new == before \o after
<1>1. /\ new \in Seq(S)
      /\ Len(new) = Len(before) + Len(after)
      /\ \A i \in 1 .. Len(before) + Len(after) :
            new[i] = IF i <= Len(before) THEN before[i] ELSE after[i - Len(before)]
  BY ConcatProperties
<1> HIDE DEF new
<1>2. Len(before) + Len(after) = n - 1
  OBVIOUS
<1>3. ASSUME NEW i \in 1 .. n - 1
      PROVE  new[i] = IF i < k THEN list[i] ELSE list[i + 1]
  <2>1. CASE i < k
    <3>1. i \in 1 .. k - 1 /\ i \in 1 .. Len(before) + Len(after) /\ i <= Len(before)
      BY <2>1
    <3> QED
      BY <1>1, <2>1, <3>1
  <2>2. CASE i >= k
    <3>1. /\ i \in 1 .. Len(before) + Len(after)
          /\ ~(i <= Len(before)) /\ ~(i < k)
          /\ i - Len(before) \in 1 .. n - k
          /\ k + (i - Len(before)) = i + 1
      BY <2>2
    <3> QED
      BY <1>1, <3>1
  <2> QED
    BY <2>1, <2>2
<1> QED
  BY <1>1, <1>2, <1>3 DEF new

\* A list's length is a number, its places are those up to it, and it has
\* some number of copies of each message.
LEMMA ListShape ==
    ASSUME NEW S, NEW list \in Seq(S)
    PROVE  /\ Len(list) \in Nat /\ DOMAIN list = 1 .. Len(list)
           /\ \A i \in 1 .. Len(list) : list[i] \in S
           /\ \A m : Copies(list, m) \in Nat /\ (Copies(list, m) = 0 <=> m \notin ToSet(list))
<1>1. /\ Len(list) \in Nat /\ DOMAIN list = 1 .. Len(list)
      /\ \A i \in 1 .. Len(list) : list[i] \in S
  BY LenProperties, ElementOfSeq
<1>2. IsFiniteSet(DOMAIN list)
  BY <1>1, FS_Interval
<1>3. ASSUME NEW m
      PROVE  Copies(list, m) \in Nat /\ (Copies(list, m) = 0 <=> m \notin ToSet(list))
  <2> DEFINE At == {i \in DOMAIN list : list[i] = m}
  <2>1. IsFiniteSet(At)
    BY <1>2, FS_Subset
  <2>2. Cardinality(At) \in Nat /\ (Cardinality(At) = 0 <=> At = {})
    BY <2>1, FS_CardinalityType, FS_EmptySet
  <2>3. At = {} <=> m \notin ToSet(list)
    BY <1>1 DEF ToSet
  <2> QED
    BY <2>1, <2>2, <2>3 DEF Copies
<1> QED
  BY <1>1, <1>3

\* A list without its k-th element has one copy less of that element, the same of every
\* other, and nothing new.
LEMMA WithoutOne ==
    ASSUME NEW S, NEW list \in Seq(S), NEW new \in Seq(S),
           NEW n \in Nat, Len(list) = n, NEW k \in 1 .. n, Len(new) = n - 1,
           \A i \in 1 .. n - 1 : new[i] = IF i < k THEN list[i] ELSE list[i + 1]
    PROVE  /\ \A m : Copies(list, m) = IF m = list[k] THEN Copies(new, m) + 1 ELSE Copies(new, m)
           /\ ToSet(new) \subseteq ToSet(list)
<1>1. DOMAIN list = 1 .. n /\ DOMAIN new = 1 .. n - 1
  BY ListShape
<1>2. ASSUME NEW m
      PROVE  Copies(list, m) = IF m = list[k] THEN Copies(new, m) + 1 ELSE Copies(new, m)
  <2> DEFINE Old == {i \in DOMAIN list : list[i] = m}
             Others == Old \ {k}
             At == {i \in DOMAIN new : new[i] = m}
             Old2New == [i \in Others |-> IF i < k THEN i ELSE i - 1]
  <2>1. IsFiniteSet(Old) /\ IsFiniteSet(Others) /\ IsFiniteSet(At)
    <3>0. IsFiniteSet(DOMAIN list) /\ IsFiniteSet(DOMAIN new)
      BY <1>1, FS_Interval
    <3>1. IsFiniteSet(Old)
      BY <3>0, FS_Subset
    <3>2. IsFiniteSet(At)
      BY <3>0, FS_Subset
    <3> QED
      BY <3>1, <3>2, FS_RemoveElement
  <2>2. ASSUME NEW i \in Others
        PROVE  Old2New[i] \in At
    <3>1. i \in 1 .. n /\ i # k /\ list[i] = m
      BY <1>1
    <3>2. CASE i < k
      <4>1. i \in 1 .. n - 1 /\ new[i] = list[i] /\ Old2New[i] = i
        BY <3>1, <3>2
      <4> QED
        BY <1>1, <3>1, <4>1
    <3>3. CASE i > k
      <4>1. i - 1 \in 1 .. n - 1 /\ ~(i - 1 < k) /\ (i - 1) + 1 = i
        BY <3>1, <3>3
      <4>2. new[i - 1] = list[i]
        BY <4>1
      <4>3. Old2New[i] = i - 1
        BY <3>1, <3>3
      <4> QED
        BY <1>1, <3>1, <4>1, <4>2, <4>3
    <3> QED
      <4>1. i < k \/ i > k
        BY <3>1
      <4> QED
        BY <3>2, <3>3, <4>1
  <2>3. \A i, j \in Others : Old2New[i] = Old2New[j] => i = j
    BY <1>1
  <2>4. ASSUME NEW j \in At
        PROVE  \E i \in Others : Old2New[i] = j
    <3>1. j \in 1 .. n - 1 /\ new[j] = m
      BY <1>1
    <3>2. CASE j < k
      <4>1. j \in Others
        BY <1>1, <3>1, <3>2
      <4> QED
        BY <3>2, <4>1
    <3>3. CASE j >= k
      <4>1. j + 1 \in 1 .. n /\ j + 1 # k /\ ~(j + 1 < k) /\ (j + 1) - 1 = j /\ ~(j < k)
        BY <3>1, <3>3
      <4>2. list[j + 1] = m
        BY <3>1, <4>1
      <4>3. j + 1 \in Others
        BY <1>1, <4>1, <4>2
      <4> QED
        BY <4>1, <4>3
    <3> QED
      <4>1. j < k \/ j >= k
        BY <3>1
      <4> QED
        BY <3>2, <3>3, <4>1
  <2>5. Old2New \in Bijection(Others, At)
    <3>1. Old2New \in [Others -> At]
      BY <2>2
    <3> QED
      BY <2>3, <2>4, <3>1 DEF Bijection, Injection, Surjection, IsInjective
  <2>6. Cardinality(At) = Cardinality(Others)
    <3> HIDE DEF Old2New, Others, At
    <3> QED
      BY <2>1, <2>5, FS_Bijection DEF ExistsBijection
  <2>7. Cardinality(Others) = IF k \in Old THEN Cardinality(Old) - 1 ELSE Cardinality(Old)
    BY <2>1, FS_RemoveElement
  <2>8. Cardinality(Old) \in Nat
    BY <2>1, FS_CardinalityType
  <2>9. k \in Old <=> m = list[k]
    BY <1>1
  <2> QED
    BY <2>6, <2>7, <2>8, <2>9 DEF Copies
<1>3. ToSet(new) \subseteq ToSet(list)
  <2>1. \A i \in 1 .. n - 1 : i \in 1 .. n /\ i + 1 \in 1 .. n
    OBVIOUS
  <2> QED
    BY <1>1, <2>1 DEF ToSet
<1> QED
  BY <1>2, <1>3

\* LPUSH puts its message before the others.
LEMMA ConsPushes ==
    ASSUME NEW S, NEW list \in Seq(S), NEW m \in S
    PROVE  /\ Cons(m, list) \in Seq(S)
           /\ Len(Cons(m, list)) = Len(list) + 1
           /\ \A i \in 1 .. Len(list) + 1 : Cons(m, list)[i] = IF i = 1 THEN m ELSE list[i - 1]
<1>1. <<m>> \in Seq(S) /\ Len(<<m>>) = 1 /\ <<m>>[1] = m
  OBVIOUS
<1> QED
  BY <1>1, ConcatProperties DEF Cons

\* LPUSH adds one copy of its message.
LEMMA ConsCopies ==
    ASSUME NEW S, NEW list \in Seq(S), NEW m \in S, NEW p
    PROVE  Copies(Cons(m, list), p) = IF p = m THEN Copies(list, p) + 1 ELSE Copies(list, p)
<1> DEFINE new == Cons(m, list)
<1>2. /\ new \in Seq(S) /\ Len(new) = Len(list) + 1
      /\ \A i \in 1 .. Len(list) + 1 : new[i] = IF i = 1 THEN m ELSE list[i - 1]
  BY ConsPushes
<1> HIDE DEF new
<1>3. PICK n \in Nat : n = Len(new) /\ Len(list) = n - 1 /\ 1 \in 1 .. n
  BY <1>2, ListShape
<1>4. \A i \in 1 .. n - 1 : list[i] = IF i < 1 THEN new[i] ELSE new[i + 1]
  <2>1. \A i \in 1 .. n - 1 : i + 1 \in 1 .. Len(list) + 1 /\ i + 1 # 1 /\ (i + 1) - 1 = i /\ ~(i < 1)
    BY <1>3
  <2> QED
    BY <1>2, <2>1
<1>5. Copies(new, p) = IF p = new[1] THEN Copies(list, p) + 1 ELSE Copies(list, p)
  BY <1>2, <1>3, <1>4, WithoutOne
<1>6. new[1] = m
  BY <1>2, <1>3
<1> QED
  BY <1>5, <1>6 DEF new

\* The pop of LMOVE takes one copy of the last message, and leaves the others in place.
LEMMA FrontPops ==
    ASSUME NEW S, NEW list \in Seq(S), list # <<>>
    PROVE  /\ Front(list) \in Seq(S)
           /\ Len(list) \in Nat \ {0} /\ Last(list) = list[Len(list)]
           /\ Len(Front(list)) = Len(list) - 1
           /\ \A i \in 1 .. Len(list) - 1 : Front(list)[i] = list[i]
           /\ \A m : Copies(list, m) = IF m = Last(list) THEN Copies(Front(list), m) + 1
                                                         ELSE Copies(Front(list), m)
<1> DEFINE new == Front(list)
<1>1. PICK n \in Nat \ {0} : n = Len(list) /\ n \in 1 .. n
  BY EmptySeq, ListShape
<1>2. \A i \in 1 .. n : list[i] \in S
  BY <1>1, ListShape
<1>3. new \in Seq(S) /\ Len(new) = n - 1 /\ \A i \in 1 .. n - 1 : new[i] = list[i]
  BY <1>1, <1>2, SubSeqProperties DEF Front
<1> HIDE DEF new
<1>4. \A m : Copies(list, m) = IF m = list[n] THEN Copies(new, m) + 1 ELSE Copies(new, m)
  <2>1. \A i \in 1 .. n - 1 : new[i] = IF i < n THEN list[i] ELSE list[i + 1]
    BY <1>3
  <2>2. n \in Nat /\ n \in 1 .. n /\ Len(list) = n
    BY <1>1
  <2> QED
    BY <1>3, <2>1, <2>2, WithoutOne
<1> QED
  BY <1>1, <1>3, <1>4 DEF new, Last

\* LREM with count 1 takes away one copy of its message, if there is one, and nothing else.
LEMMA LRemRemoves ==
    ASSUME NEW S, NEW list \in Seq(S), NEW m
    PROVE  /\ LRem(list, m) \in Seq(S)
           /\ ToSet(LRem(list, m)) \subseteq ToSet(list)
           /\ Copies(list, m) = 0 => LRem(list, m) = list
           /\ \A p : Copies(list, p) = IF p = m /\ Copies(list, m) # 0
                                       THEN Copies(LRem(list, m), p) + 1
                                       ELSE Copies(LRem(list, m), p)
<1> DEFINE I == {i \in 1 .. Len(list) : list[i] = m}
<1>0. Len(list) \in Nat /\ DOMAIN list = 1 .. Len(list)
  BY ListShape
<1>a. Copies(list, m) = 0 <=> I = {}
  BY <1>0, ListShape DEF ToSet
<1>1. CASE I = {}
  BY <1>1, <1>a DEF LRem, RemoveFirst
<1>2. CASE I # {}
  <2>a. I \in SUBSET Nat
    BY <1>0
  <2>b. Min(I) \in I
    BY <1>2, <2>a, SmallestIndex
  <2>c. PICK n \in Nat : Len(list) = n
    BY <1>0
  <2>d. PICK k \in 1 .. n : k = Min(I) /\ list[k] = m
    BY <2>b, <2>c
  <2> DEFINE new == SubSeq(list, 1, k - 1) \o SubSeq(list, k + 1, n)
  <2>1. LRem(list, m) = new
    BY <1>2, <2>c, <2>d DEF LRem, RemoveFirst, RemoveAt, SelectInSeq
  <2>2. /\ SubSeq(list, 1, k - 1) \in Seq(S)
        /\ Len(SubSeq(list, 1, k - 1)) = k - 1
        /\ \A i \in 1 .. k - 1 : SubSeq(list, 1, k - 1)[i] = list[i]
    BY <2>c, CutBefore
  <2>3. /\ SubSeq(list, k + 1, n) \in Seq(S)
        /\ Len(SubSeq(list, k + 1, n)) = n - k
        /\ \A i \in 1 .. n - k : SubSeq(list, k + 1, n)[i] = list[k + i]
    BY <2>c, CutAfter
  <2>4. /\ new \in Seq(S) /\ Len(new) = n - 1
        /\ \A i \in 1 .. n - 1 : new[i] = IF i < k THEN list[i] ELSE list[i + 1]
    BY <2>2, <2>3, Joined
  <2> HIDE DEF new
  <2>5. /\ \A p : Copies(list, p) = IF p = list[k] THEN Copies(new, p) + 1 ELSE Copies(new, p)
        /\ ToSet(new) \subseteq ToSet(list)
    BY <2>c, <2>4, WithoutOne
  <2> QED
    BY <1>2, <1>a, <2>1, <2>4, <2>5, <2>d
<1> QED
  BY <1>1, <1>2

\* LREM with count 1 takes away nothing but one copy of its message.
LEMMA LRemKeepsTheOthers ==
    ASSUME NEW S, NEW list \in Seq(S), NEW m
    PROVE  /\ LRem(list, m) \in Seq(S)
           /\ ToSet(list) \ {m} \subseteq ToSet(LRem(list, m))
<1>1. LRem(list, m) \in Seq(S)
  BY LRemRemoves
<1>2. ASSUME NEW p \in ToSet(list), p # m
      PROVE  p \in ToSet(LRem(list, m))
  <2>1. Copies(LRem(list, m), p) = Copies(list, p) /\ Copies(list, p) # 0
    BY <1>2, LRemRemoves, ListShape
  <2> QED
    BY <1>1, <2>1, ListShape
<1> QED
  BY <1>1, <1>2

----------------------------------------------------------------------------
(* The three ways a command moves messages between the two lists. *)

InLists == ToSet(queue) \cup ToSet(processing)

\* get()'s LMOVE loses nothing.
LEMMA TakeMoves ==
    ASSUME TypeOK, Take
    PROVE  /\ queue' \in Seq(Messages) /\ processing' \in Seq(Messages)
           /\ Last(queue) \in Messages
           /\ InLists' = InLists
<1>1. /\ Front(queue) \in Seq(Messages) /\ Last(queue) \in Messages
      /\ ToSet(queue) = ToSet(Front(queue)) \cup {Last(queue)}
  BY FrontAndLast DEF TypeOK, Take
<1>2. /\ Cons(Last(queue), processing) \in Seq(Messages)
      /\ ToSet(Cons(Last(queue), processing)) = ToSet(processing) \cup {Last(queue)}
  BY <1>1, ConsAdds DEF TypeOK
<1>3. queue' = Front(queue) /\ processing' = Cons(Last(queue), processing)
  BY DEF Take, LPush
<1>4. ToSet(queue') \cup ToSet(processing') = ToSet(queue) \cup ToSet(processing)
  BY <1>1, <1>2, <1>3
<1> QED
  BY <1>1, <1>2, <1>3, <1>4 DEF InLists

\* recover_stale's LMOVE loses nothing.
LEMMA PutBackMoves ==
    ASSUME TypeOK, PutBack
    PROVE  /\ queue' \in Seq(Messages) /\ processing' \in Seq(Messages)
           /\ InLists' = InLists
<1>1. /\ Front(processing) \in Seq(Messages) /\ Last(processing) \in Messages
      /\ ToSet(processing) = ToSet(Front(processing)) \cup {Last(processing)}
  BY FrontAndLast DEF TypeOK, PutBack
<1>2. /\ Cons(Last(processing), queue) \in Seq(Messages)
      /\ ToSet(Cons(Last(processing), queue)) = ToSet(queue) \cup {Last(processing)}
  BY <1>1, ConsAdds DEF TypeOK
<1>3. processing' = Front(processing) /\ queue' = Cons(Last(processing), queue)
  BY DEF PutBack, LPush
<1>4. ToSet(queue') \cup ToSet(processing') = ToSet(queue) \cup ToSet(processing)
  BY <1>1, <1>2, <1>3
<1> QED
  BY <1>1, <1>2, <1>3, <1>4 DEF InLists

\* The nack script loses nothing, whether or not it finds its message.
LEMMA RequeueKeeps ==
    ASSUME TypeOK, NEW m \in Messages, Requeue(m)
    PROVE  /\ queue' \in Seq(Messages) /\ processing' \in Seq(Messages)
           /\ InLists \subseteq InLists'
<1>1. /\ LRem(processing, m) \in Seq(Messages)
      /\ ToSet(processing) \ {m} \subseteq ToSet(LRem(processing, m))
  BY LRemKeepsTheOthers DEF TypeOK
<1>2. /\ Cons(m, queue) \in Seq(Messages)
      /\ ToSet(Cons(m, queue)) = ToSet(queue) \cup {m}
  BY ConsAdds DEF TypeOK
<1>3. processing' = LRem(processing, m) /\ queue' = Cons(m, queue)
  BY DEF Requeue, LPush
<1>4. ToSet(queue) \cup ToSet(processing) \subseteq ToSet(queue') \cup ToSet(processing')
  BY <1>1, <1>2, <1>3
<1> QED
  BY <1>1, <1>2, <1>3, <1>4 DEF InLists

----------------------------------------------------------------------------
(* Type correctness *)

\* A consumer that holds no message has nothing under way.
LEMMA HeldWhenBusy ==
    ASSUME TypeOK, NEW c \in Consumers, phase[c] # "idle"
    PROVE  held[c] \in Messages
BY DEF TypeOK

\* A consumer has a message exactly in the phases in which it works on one.
LEMMA BecomeType ==
    ASSUME TypeOK, NEW c \in Consumers,
           NEW p \in {"idle", "working", "ack_failed"},
           NEW m \in Messages \cup {None},
           m = None <=> p = "idle",
           Become(c, p, m)
    PROVE  /\ phase' \in [Consumers -> {"idle", "working", "ack_failed"}]
           /\ held' \in [Consumers -> Messages \cup {None}]
           /\ \A d \in Consumers : held'[d] = None <=> phase'[d] = "idle"
BY DEF TypeOK, Become

\* The faults stay within their bound.
LEMMA FaultType ==
    ASSUME TypeOK, Fault
    PROVE  faults' \in 0..MaxFaults
BY QueueAssumption DEF TypeOK, Fault

\* The initial state is well formed.
LEMMA InitType == Init => TypeOK
<1>1. <<>> \in Seq(Messages)
  BY EmptySeq
<1>2. 0 \in 0..MaxItems /\ 0 \in 0..MaxNacks /\ 0 \in 0..MaxFaults
  BY QueueAssumption
<1> SUFFICES ASSUME Init
             PROVE  TypeOK
  OBVIOUS
<1>3. /\ phase \in [Consumers -> {"idle", "working", "ack_failed"}]
      /\ held \in [Consumers -> Messages \cup {None}]
      /\ \A c \in Consumers : held[c] = None <=> phase[c] = "idle"
  BY DEF Init
<1> QED
  BY <1>1, <1>2, <1>3 DEF Init, TypeOK

\* Every command keeps the lists' messages and the consumers' objects well formed.
LEMMA NextType == TypeOK /\ [Next]_vars => TypeOK'
<1> SUFFICES ASSUME TypeOK, [Next]_vars
             PROVE  TypeOK'
  OBVIOUS
<1>a. \A m \in Messages : LPush(queue, m) \in Seq(Messages)
  BY ConsAdds DEF TypeOK, LPush
<1>b. \A m \in Messages : LRem(processing, m) \in Seq(Messages)
  BY LRemKeepsTheOthers DEF TypeOK
<1>1. ASSUME NEW m \in Messages, Put(m)
      PROVE  TypeOK'
  BY <1>1, <1>a DEF Put, TypeOK, consumer
<1>2. ASSUME NEW m \in Messages, PutUnheard(m)
      PROVE  TypeOK'
  BY <1>2, <1>a, FaultType DEF PutUnheard, TypeOK, consumer
<1>3. ASSUME NEW c \in Consumers, Get(c)
      PROVE  TypeOK'
  <2>1. Last(queue) # None /\ Last(queue) \in Messages /\ Become(c, "working", Last(queue))
    BY <1>3, TakeMoves, QueueAssumption DEF Get
  <2>2. /\ phase' \in [Consumers -> {"idle", "working", "ack_failed"}]
        /\ held' \in [Consumers -> Messages \cup {None}]
        /\ \A d \in Consumers : held'[d] = None <=> phase'[d] = "idle"
    BY <2>1, BecomeType
  <2>3. queue' \in Seq(Messages) /\ processing' \in Seq(Messages)
    BY <1>3, TakeMoves DEF Get
  <2> QED
    BY <1>3, <2>2, <2>3 DEF Get, TypeOK, history
<1>4. ASSUME NEW c \in Consumers, GetUnheard(c)
      PROVE  TypeOK'
  BY <1>4, TakeMoves, FaultType DEF GetUnheard, TypeOK, consumer
<1>5. ASSUME NEW c \in Consumers, Ack(c)
      PROVE  TypeOK'
  <2>1. held[c] \in Messages /\ Become(c, "idle", None)
    BY <1>5, HeldWhenBusy DEF Ack
  <2>2. /\ phase' \in [Consumers -> {"idle", "working", "ack_failed"}]
        /\ held' \in [Consumers -> Messages \cup {None}]
        /\ \A d \in Consumers : held'[d] = None <=> phase'[d] = "idle"
    BY <2>1, BecomeType
  <2> QED
    BY <1>5, <1>b, <2>1, <2>2 DEF Ack, TypeOK
<1>6. ASSUME NEW c \in Consumers, AckFails(c)
      PROVE  TypeOK'
  <2>1. held[c] \in Messages /\ held[c] # None /\ Become(c, "ack_failed", held[c])
    BY <1>6, HeldWhenBusy, QueueAssumption DEF AckFails
  <2>2. /\ phase' \in [Consumers -> {"idle", "working", "ack_failed"}]
        /\ held' \in [Consumers -> Messages \cup {None}]
        /\ \A d \in Consumers : held'[d] = None <=> phase'[d] = "idle"
    BY <2>1, BecomeType
  <2> QED
    BY <1>6, <1>b, <2>1, <2>2, FaultType DEF AckFails, TypeOK
<1>7. ASSUME NEW c \in Consumers, Nack(c)
      PROVE  TypeOK'
  <2>1. held[c] \in Messages /\ Become(c, "idle", None) /\ Requeue(held[c])
    BY <1>7, HeldWhenBusy DEF Nack
  <2>2. /\ phase' \in [Consumers -> {"idle", "working", "ack_failed"}]
        /\ held' \in [Consumers -> Messages \cup {None}]
        /\ \A d \in Consumers : held'[d] = None <=> phase'[d] = "idle"
    BY <2>1, BecomeType
  <2>3. queue' \in Seq(Messages) /\ processing' \in Seq(Messages)
    BY <2>1, RequeueKeeps
  <2>4. nacks' \in 0..MaxNacks
    BY <1>7, QueueAssumption DEF Nack, TypeOK
  <2> QED
    BY <1>7, <2>2, <2>3, <2>4 DEF Nack, TypeOK, history
<1>8. ASSUME NEW c \in Consumers, NackFails(c)
      PROVE  TypeOK'
  <2>1. held[c] \in Messages /\ held[c] # None
    BY <1>8, HeldWhenBusy, QueueAssumption DEF NackFails
  <2>2. /\ phase' \in [Consumers -> {"idle", "working", "ack_failed"}]
        /\ held' \in [Consumers -> Messages \cup {None}]
        /\ \A d \in Consumers : held'[d] = None <=> phase'[d] = "idle"
    <3>1. Become(c, "idle", None) \/ Become(c, "ack_failed", held[c])
      BY <1>8 DEF NackFails
    <3> QED
      BY <2>1, <3>1, BecomeType
  <2>3. queue' \in Seq(Messages) /\ processing' \in Seq(Messages)
    BY <1>8, <2>1, RequeueKeeps DEF NackFails, lists, TypeOK
  <2>4. repeated' \in BOOLEAN
    BY <1>8 DEF NackFails, TypeOK
  <2> QED
    BY <1>8, <2>2, <2>3, <2>4, FaultType DEF NackFails, TypeOK
<1>9. ASSUME NEW c \in Consumers, Crash(c)
      PROVE  TypeOK'
  <2>1. /\ phase' \in [Consumers -> {"idle", "working", "ack_failed"}]
        /\ held' \in [Consumers -> Messages \cup {None}]
        /\ \A d \in Consumers : held'[d] = None <=> phase'[d] = "idle"
    BY <1>9, BecomeType DEF Crash
  <2> QED
    BY <1>9, <2>1, FaultType DEF Crash, TypeOK, lists, history
<1>10. CASE StartRecovery
  BY <1>10, QueueAssumption DEF StartRecovery, TypeOK, lists, consumer, history
<1>11. CASE Recover
  <2>1. queue' \in Seq(Messages) /\ processing' \in Seq(Messages)
    BY <1>11, PutBackMoves DEF Recover, TypeOK, lists
  <2>2. left' \in 0..MaxItems
    BY <1>11, QueueAssumption DEF Recover, TypeOK
  <2>3. recovered' \in BOOLEAN
    BY <1>11 DEF Recover, TypeOK
  <2> QED
    BY <1>11, <2>1, <2>2, <2>3 DEF Recover, TypeOK, consumer
<1>12. CASE RecoverFails
  <2>1. queue' \in Seq(Messages) /\ processing' \in Seq(Messages)
    BY <1>12, PutBackMoves DEF RecoverFails, TypeOK, lists
  <2>2. left' \in 0..MaxItems
    BY <1>12, QueueAssumption DEF RecoverFails, TypeOK
  <2>3. recovered' \in BOOLEAN
    BY <1>12 DEF RecoverFails, TypeOK
  <2> QED
    BY <1>12, <2>1, <2>2, <2>3, FaultType DEF RecoverFails, TypeOK, consumer
<1>13. CASE UNCHANGED vars
  BY <1>13 DEF vars, TypeOK
<1> QED
  BY <1>1, <1>2, <1>3, <1>4, <1>5, <1>6, <1>7, <1>8, <1>9, <1>10, <1>11, <1>12, <1>13 DEF Next

\* Type correctness: the lists hold messages and nothing else, and a consumer holds
\* a message exactly while it works on one.
THEOREM TypeCorrect == Spec => []TypeOK
  BY InitType, NextType, PTL DEF Spec

----------------------------------------------------------------------------
(* No message is lost *)

\* No step, lost or not, takes the last copy of a message that is not acked.
LEMMA NextLosesNothing == TypeOK /\ NoLoss /\ [Next]_vars => NoLoss'
<1> SUFFICES ASSUME TypeOK, NoLoss, [Next]_vars
             PROVE  NoLoss'
  OBVIOUS
<1>a. ASSUME InLists \subseteq InLists', stored' = stored, acked' = acked
      PROVE  NoLoss'
  BY <1>a DEF NoLoss, InLists
<1>b. ASSUME NEW m \in Messages, queue' = LPush(queue, m), processing' = processing,
             stored' = stored \cup {m}, acked' = acked
      PROVE  NoLoss'
  <2>1. ToSet(queue') = ToSet(queue) \cup {m}
    BY <1>b, ConsAdds DEF TypeOK, LPush
  <2> QED
    BY <1>b, <2>1 DEF NoLoss
<1>c. ASSUME NEW m \in Messages, queue' = queue, processing' = LRem(processing, m),
             stored' = stored, acked' = acked \cup {m}
      PROVE  NoLoss'
  <2>1. ToSet(processing) \ {m} \subseteq ToSet(processing')
    BY <1>c, LRemKeepsTheOthers DEF TypeOK
  <2> QED
    BY <1>c, <2>1 DEF NoLoss
<1>1. ASSUME NEW m \in Messages, Put(m) \/ PutUnheard(m)
      PROVE  NoLoss'
  BY <1>1, <1>b DEF Put, PutUnheard
<1>2. ASSUME NEW c \in Consumers, Get(c) \/ GetUnheard(c)
      PROVE  NoLoss'
  <2>1. Take /\ stored' = stored /\ acked' = acked
    BY <1>2 DEF Get, GetUnheard, history
  <2> QED
    BY <1>a, <2>1, TakeMoves
<1>3. ASSUME NEW c \in Consumers, Ack(c) \/ AckFails(c)
      PROVE  NoLoss'
  <2>1. held[c] \in Messages
    BY <1>3, HeldWhenBusy DEF Ack, AckFails
  <2>2. CASE processing' = processing
    BY <1>3, <2>2, <1>a DEF Ack, AckFails, InLists, NoLoss
  <2>3. CASE processing' = LRem(processing, held[c]) /\ acked' = acked \cup {held[c]}
    BY <1>3, <1>c, <2>1, <2>3 DEF Ack, AckFails
  <2> QED
    BY <1>3, <2>2, <2>3 DEF Ack, AckFails
<1>4. ASSUME NEW c \in Consumers, Nack(c) \/ NackFails(c) \/ Crash(c)
      PROVE  NoLoss'
  <2>1. held[c] \in Messages
    BY <1>4, HeldWhenBusy DEF Nack, NackFails, Crash
  <2>2. stored' = stored /\ acked' = acked
    BY <1>4 DEF Nack, NackFails, Crash, history
  <2>3. Requeue(held[c]) \/ UNCHANGED lists
    BY <1>4 DEF Nack, NackFails, Crash
  <2>4. InLists \subseteq InLists'
    BY <2>1, <2>3, RequeueKeeps DEF InLists, lists
  <2> QED
    BY <1>a, <2>2, <2>4
<1>5. CASE StartRecovery \/ Recover \/ RecoverFails
  <2>1. stored' = stored /\ acked' = acked
    BY <1>5 DEF StartRecovery, Recover, RecoverFails, history
  <2>2. PutBack \/ UNCHANGED lists
    BY <1>5 DEF StartRecovery, Recover, RecoverFails
  <2>3. InLists \subseteq InLists'
    BY <2>2, PutBackMoves DEF InLists, lists
  <2> QED
    BY <1>a, <2>1, <2>3
<1>6. CASE UNCHANGED vars
  BY <1>6, <1>a DEF vars, InLists
<1> QED
  BY <1>1, <1>2, <1>3, <1>4, <1>5, <1>6 DEF Next

\* At least once, whatever the faults: a message that Redis received stays in one of
\* the two lists until a consumer's ack is executed.
THEOREM NothingLost == Spec => []NoLoss
<1>1. Init => NoLoss
  BY DEF Init, NoLoss
<1> QED
  BY <1>1, TypeCorrect, NextLosesNothing, PTL DEF Spec
----------------------------------------------------------------------------
(* What the steps that move messages do to the copies of each. *)

\* get()'s LMOVE moves one copy of the last message, and no other.
LEMMA TakeCopies ==
    ASSUME TypeOK, Take, NEW m \in Messages
    PROVE  /\ Copies(queue, m) = IF m = Last(queue) THEN Copies(queue', m) + 1 ELSE Copies(queue', m)
           /\ Copies(processing', m) = IF m = Last(queue) THEN Copies(processing, m) + 1
                                                          ELSE Copies(processing, m)
<1>1. queue \in Seq(Messages) /\ queue # <<>> /\ processing \in Seq(Messages)
  BY DEF TypeOK, Take
<1>2. queue' = Front(queue) /\ processing' = Cons(Last(queue), processing)
  BY DEF Take, LPush
<1>3. Last(queue) \in Messages
  BY TakeMoves
<1>4. Copies(queue, m) = IF m = Last(queue) THEN Copies(Front(queue), m) + 1
                                            ELSE Copies(Front(queue), m)
  BY <1>1, FrontPops
<1>5. Copies(Cons(Last(queue), processing), m) =
         IF m = Last(queue) THEN Copies(processing, m) + 1 ELSE Copies(processing, m)
  BY <1>1, <1>3, ConsCopies
<1> QED
  BY <1>2, <1>4, <1>5

\* The nack script adds one copy to the queue, and takes one from processing if it can.
LEMMA RequeueCopies ==
    ASSUME TypeOK, NEW p \in Messages, Requeue(p), NEW m \in Messages
    PROVE  /\ Copies(queue', m) = IF m = p THEN Copies(queue, m) + 1 ELSE Copies(queue, m)
           /\ Copies(processing, m) = IF m = p /\ Copies(processing, p) # 0
                                      THEN Copies(processing', m) + 1
                                      ELSE Copies(processing', m)
<1>1. queue \in Seq(Messages) /\ processing \in Seq(Messages)
  BY DEF TypeOK
<1>2. queue' = Cons(p, queue) /\ processing' = LRem(processing, p)
  BY DEF Requeue, LPush
<1>3. Copies(Cons(p, queue), m) = IF m = p THEN Copies(queue, m) + 1 ELSE Copies(queue, m)
  BY <1>1, ConsCopies
<1>4. Copies(processing, m) = IF m = p /\ Copies(processing, p) # 0
                              THEN Copies(LRem(processing, p), m) + 1
                              ELSE Copies(LRem(processing, p), m)
  BY <1>1, LRemRemoves
<1> QED
  BY <1>2, <1>3, <1>4

\* Without faults only put, get, ack, nack and recover_stale's moves happen.
LEMMA Faultless ==
    ASSUME TypeOK, [Next]_vars, faults' = 0
    PROVE  /\ faults = 0
           /\ \/ \E m \in Messages : Put(m)
              \/ \E c \in Consumers : Get(c) \/ Ack(c) \/ Nack(c)
              \/ StartRecovery \/ Recover \/ UNCHANGED vars
<1>1. faults \in Nat
  BY QueueAssumption DEF TypeOK
<1>2. ~Fault
  BY <1>1 DEF Fault
<1>3. /\ \A m \in Messages : ~PutUnheard(m)
      /\ \A c \in Consumers : ~GetUnheard(c) /\ ~AckFails(c) /\ ~NackFails(c) /\ ~Crash(c)
      /\ ~RecoverFails
  BY <1>2 DEF PutUnheard, GetUnheard, AckFails, NackFails, Crash, RecoverFails
<1>4. \/ \E m \in Messages : Put(m)
      \/ \E c \in Consumers : Get(c) \/ Ack(c) \/ Nack(c)
      \/ StartRecovery \/ Recover \/ UNCHANGED vars
  BY <1>3 DEF Next
<1>5. faults' = faults
  BY <1>4 DEF Put, Get, Ack, Nack, StartRecovery, Recover, vars
<1> QED
  BY <1>4, <1>5

----------------------------------------------------------------------------
(* Nothing is stranded *)

Busy == {c \in Consumers : held[c] # None}
FinitelyManyBusy == IsFiniteSet(Busy)

\* A step changes the message of one consumer at most.
LEMMA OneConsumerMoves ==
    ASSUME TypeOK, [Next]_vars
    PROVE  \/ held' = held
           \/ \E c \in Consumers : \E x : held' = [held EXCEPT ![c] = x]
<1>1. ASSUME NEW m \in Messages, Put(m) \/ PutUnheard(m)
      PROVE  held' = held
  BY <1>1 DEF Put, PutUnheard, consumer
<1>2. ASSUME NEW c \in Consumers,
             \/ Get(c) \/ Ack(c) \/ Nack(c)
             \/ GetUnheard(c) \/ AckFails(c) \/ NackFails(c) \/ Crash(c)
      PROVE  held' = held \/ \E x : held' = [held EXCEPT ![c] = x]
  BY <1>2 DEF Get, Ack, Nack, GetUnheard, AckFails, NackFails, Crash, Become, consumer
<1>3. CASE StartRecovery \/ Recover \/ RecoverFails \/ UNCHANGED vars
  BY <1>3 DEF StartRecovery, Recover, RecoverFails, vars, consumer
<1> QED
  BY <1>1, <1>2, <1>3 DEF Next

\* The busy consumers are finitely many: they start one at a time.
LEMMA NextBusy == TypeOK /\ FinitelyManyBusy /\ [Next]_vars => FinitelyManyBusy'
<1> SUFFICES ASSUME TypeOK, FinitelyManyBusy, [Next]_vars
             PROVE  FinitelyManyBusy'
  OBVIOUS
<1>1. CASE held' = held
  BY <1>1 DEF FinitelyManyBusy, Busy
<1>2. ASSUME NEW c \in Consumers, NEW x, held' = [held EXCEPT ![c] = x]
      PROVE  FinitelyManyBusy'
  <2>1. Busy' \subseteq Busy \cup {c}
    BY <1>2 DEF Busy, TypeOK
  <2>2. IsFiniteSet(Busy \cup {c})
    BY FS_AddElement DEF FinitelyManyBusy
  <2> QED
    BY <2>1, <2>2, FS_Subset DEF FinitelyManyBusy
<1> QED
  BY <1>1, <1>2, OneConsumerMoves

\* Each message has a finite number of holders.
LEMMA HoldersCount ==
    ASSUME FinitelyManyBusy, NEW m \in Messages
    PROVE  IsFiniteSet(Holders(m)) /\ Cardinality(Holders(m)) \in Nat
<1>1. Holders(m) \subseteq Busy
  BY QueueAssumption DEF Holders, Busy
<1> QED
  BY <1>1, FS_Subset, FS_CardinalityType DEF FinitelyManyBusy

\* A consumer that lets go of its message is one holder less of it.
LEMMA LetsGo ==
    ASSUME TypeOK, FinitelyManyBusy, NEW c \in Consumers, NEW m \in Messages,
           held' = [held EXCEPT ![c] = None]
    PROVE  Cardinality(Holders(m)) =
              IF m = held[c] THEN Cardinality(Holders(m)') + 1 ELSE Cardinality(Holders(m)')
<1>1. Holders(m)' = Holders(m) \ {c}
  BY QueueAssumption DEF Holders, TypeOK
<1>2. c \in Holders(m) <=> m = held[c]
  BY DEF Holders
<1>3. IsFiniteSet(Holders(m)) /\ Cardinality(Holders(m)) \in Nat
  BY HoldersCount
<1>4. Cardinality(Holders(m) \ {c}) =
         IF c \in Holders(m) THEN Cardinality(Holders(m)) - 1 ELSE Cardinality(Holders(m))
  BY <1>3, FS_RemoveElement
<1> QED
  BY <1>1, <1>2, <1>3, <1>4

\* A consumer that takes a message is one holder more of it.
LEMMA TakesHold ==
    ASSUME TypeOK, FinitelyManyBusy, NEW c \in Consumers, NEW m \in Messages, NEW x \in Messages,
           held[c] = None, held' = [held EXCEPT ![c] = x]
    PROVE  Cardinality(Holders(m)') =
              IF m = x THEN Cardinality(Holders(m)) + 1 ELSE Cardinality(Holders(m))
<1>1. Holders(m)' = IF m = x THEN Holders(m) \cup {c} ELSE Holders(m)
  BY QueueAssumption DEF Holders, TypeOK
<1>2. c \notin Holders(m)
  BY QueueAssumption DEF Holders
<1> QED
  BY <1>1, <1>2, HoldersCount, FS_AddElement

\* A get adds a copy and its holder, an ack or a nack removes at most one of each.
LEMMA NextStrandsNothing ==
    TypeOK /\ FinitelyManyBusy /\ NothingStranded /\ [Next]_vars => NothingStranded'
<1> SUFFICES ASSUME TypeOK, FinitelyManyBusy, NothingStranded, [Next]_vars,
                    faults' = 0, NEW m \in Messages
             PROVE  Copies(processing', m) <= Cardinality(Holders(m)')
  BY DEF NothingStranded
<1>a. faults = 0 /\ Copies(processing, m) <= Cardinality(Holders(m))
  BY Faultless DEF NothingStranded
<1>b. Copies(processing, m) \in Nat /\ Copies(processing', m) \in Nat
  <2>1. processing \in Seq(Messages) /\ processing' \in Seq(Messages)
    BY NextType DEF TypeOK
  <2> QED
    BY <2>1, ListShape
<1>c. /\ Cardinality(Holders(m)) \in Nat
      /\ Cardinality(Holders(m)') \in Nat
  <2>1. FinitelyManyBusy'
    BY NextBusy
  <2>2. Holders(m)' \subseteq Busy'
    BY QueueAssumption DEF Holders, Busy
  <2> QED
    BY <2>1, <2>2, HoldersCount, FS_Subset, FS_CardinalityType DEF FinitelyManyBusy
<1>1. CASE processing' = processing /\ held' = held
  BY <1>1, <1>a DEF Holders
<1>2. ASSUME NEW c \in Consumers, Get(c)
      PROVE  Copies(processing', m) <= Cardinality(Holders(m)')
  <2>1. Take /\ held[c] = None /\ held' = [held EXCEPT ![c] = Last(queue)]
    BY <1>2 DEF Get, Become, TypeOK
  <2>2. Last(queue) \in Messages
    BY <2>1, TakeMoves
  <2>3. Copies(processing', m) = IF m = Last(queue) THEN Copies(processing, m) + 1
                                                    ELSE Copies(processing, m)
    BY <2>1, TakeCopies
  <2>4. Cardinality(Holders(m)') = IF m = Last(queue) THEN Cardinality(Holders(m)) + 1
                                                      ELSE Cardinality(Holders(m))
    BY <2>1, <2>2, TakesHold
  <2> QED
    BY <1>a, <1>b, <1>c, <2>3, <2>4
<1>3. ASSUME NEW c \in Consumers, Ack(c) \/ Nack(c)
      PROVE  Copies(processing', m) <= Cardinality(Holders(m)')
  <2>1. /\ processing' = LRem(processing, held[c]) /\ held' = [held EXCEPT ![c] = None]
        /\ processing \in Seq(Messages)
    BY <1>3 DEF Ack, Nack, Become, Requeue, TypeOK
  <2>2. Copies(processing, m) = IF m = held[c] /\ Copies(processing, held[c]) # 0
                                THEN Copies(processing', m) + 1 ELSE Copies(processing', m)
    BY <2>1, LRemRemoves
  <2>3. Cardinality(Holders(m)) = IF m = held[c] THEN Cardinality(Holders(m)') + 1
                                                 ELSE Cardinality(Holders(m)')
    BY <2>1, LetsGo
  <2>4. CASE m = held[c]
    BY <1>a, <1>b, <1>c, <2>2, <2>3, <2>4
  <2>5. CASE m # held[c]
    BY <1>a, <1>b, <1>c, <2>2, <2>3, <2>5
  <2> QED
    BY <2>4, <2>5
<1>4. CASE Recover
  <2>1. held' = held
    BY <1>4 DEF Recover, consumer
  <2>2. CASE PutBack
    <3>1. processing' = Front(processing) /\ processing \in Seq(Messages) /\ processing # <<>>
      BY <2>2 DEF PutBack, TypeOK
    <3>2. Copies(processing', m) <= Copies(processing, m)
      BY <1>b, <3>1, FrontPops
    <3> QED
      BY <1>a, <1>b, <1>c, <2>1, <3>2 DEF Holders
  <2>3. CASE UNCHANGED lists
    BY <1>1, <2>1, <2>3 DEF lists
  <2> QED
    BY <1>4, <2>2, <2>3 DEF Recover, lists
<1>5. CASE (\E p \in Messages : Put(p)) \/ StartRecovery \/ UNCHANGED vars
  BY <1>1, <1>5 DEF Put, StartRecovery, vars, lists, consumer
<1> QED
  BY <1>2, <1>3, <1>4, <1>5, Faultless

\* Without faults nothing is stranded: each copy in the processing list has a consumer
\* that will ack or nack it, whatever recover_stale moves meanwhile.
THEOREM EveryCopyHasAConsumer == Spec => []NothingStranded
<1>1. Init => FinitelyManyBusy
  <2>1. Init => Busy = {}
    BY DEF Init, Busy
  <2> QED
    BY <2>1, FS_EmptySet DEF FinitelyManyBusy
<1>2. Init => NothingStranded
  <2> SUFFICES ASSUME Init, NEW m \in Messages
               PROVE  Copies(processing, m) <= Cardinality(Holders(m))
    BY DEF NothingStranded
  <2>1. Copies(processing, m) = 0
    <3>1. processing \in Seq(Messages) /\ m \notin ToSet(processing)
      BY EmptySeq DEF Init, ToSet
    <3> QED
      BY <3>1, ListShape
  <2>2. Cardinality(Holders(m)) \in Nat
    BY <1>1, HoldersCount
  <2> QED
    BY <2>1, <2>2
<1> QED
  BY <1>1, <1>2, TypeCorrect, NextBusy, NextStrandsNothing, PTL DEF Spec

----------------------------------------------------------------------------
(* Exactly once, until something is repeated *)

Fresh == ~(recovered \/ repeated)

\* How many copies the two lists have of a message between its put and its ack.
Kept(m) == IF m \in stored \ acked THEN 1 ELSE 0

\* The strengthening: what is not stored has no copy either, and a message that a
\* consumer holds is in the processing list, not in the queue, and held by no other.
OnePlace ==
    /\ acked \subseteq stored /\ unsent \cap stored = {}
    /\ \A m \in Messages : Copies(queue, m) + Copies(processing, m) = Kept(m)
    /\ \A c \in Consumers : held[c] # None => Copies(processing, held[c]) = 1
    /\ \A c, d \in Consumers : held[c] # None /\ held[c] = held[d] => c = d

\* While nothing is repeated or recovered, a step is a put, a get, an ack or a nack, or
\* it leaves the lists alone.
LEMMA FreshSteps ==
    ASSUME TypeOK, [Next]_vars, Fresh'
    PROVE  /\ Fresh
           /\ \/ \E m \in Messages : Put(m)
              \/ \E c \in Consumers : Get(c) \/ Ack(c) \/ Nack(c)
              \/ /\ UNCHANGED <<lists, unsent, stored, acked>>
                 /\ \/ held' = held
                    \/ \E c \in Consumers : held' = [held EXCEPT ![c] = None]
<1>1. ASSUME NEW c \in Consumers, AckFails(c)
      PROVE  UNCHANGED <<lists, unsent, stored, acked, held, recovered, repeated>>
  <2>1. UNCHANGED <<lists, unsent, stored, acked, recovered, repeated>>
    BY <1>1 DEF AckFails, Fresh, lists
  <2>2. held' = held
    BY <1>1 DEF AckFails, Become, TypeOK
  <2> QED
    BY <2>1, <2>2
<1>2. ASSUME NEW c \in Consumers, NackFails(c) \/ Crash(c)
      PROVE  /\ UNCHANGED <<lists, unsent, stored, acked, recovered, repeated>>
             /\ held' = [held EXCEPT ![c] = None]
  BY <1>2 DEF NackFails, Crash, Fresh, Become, lists, history
<1>3. ASSUME StartRecovery \/ Recover \/ RecoverFails \/ UNCHANGED vars
      PROVE  UNCHANGED <<lists, unsent, stored, acked, held, recovered, repeated>>
  BY <1>3 DEF StartRecovery, Recover, RecoverFails, vars, Fresh, lists, history, consumer
<1>4. /\ \A m \in Messages : ~PutUnheard(m)
      /\ \A c \in Consumers : ~GetUnheard(c)
  BY DEF PutUnheard, GetUnheard, Fresh
<1>5. \/ \E m \in Messages : Put(m)
      \/ \E c \in Consumers : Get(c) \/ Ack(c) \/ Nack(c)
      \/ /\ UNCHANGED <<lists, unsent, stored, acked, recovered, repeated>>
         /\ \/ held' = held
            \/ \E c \in Consumers : held' = [held EXCEPT ![c] = None]
  BY <1>1, <1>2, <1>3, <1>4 DEF Next
<1>6. recovered' = recovered /\ repeated' = repeated
  BY <1>5 DEF Put, Get, Ack, Nack, history
<1> QED
  BY <1>5, <1>6 DEF Fresh

\* A held message is stored and not acked, and the queue has no copy of it.
LEMMA HeldIsKept ==
    ASSUME TypeOK, OnePlace, NEW c \in Consumers, held[c] # None
    PROVE  /\ held[c] \in Messages /\ held[c] \in stored \ acked
           /\ Copies(processing, held[c]) = 1 /\ Copies(queue, held[c]) = 0
<1>1. held[c] \in Messages /\ Copies(processing, held[c]) = 1
  BY DEF TypeOK, OnePlace
<1>2. Copies(queue, held[c]) \in Nat
  BY <1>1, ListShape DEF TypeOK
<1>3. Copies(queue, held[c]) + Copies(processing, held[c]) = Kept(held[c])
  BY <1>1 DEF OnePlace
<1> QED
  BY <1>1, <1>2, <1>3 DEF Kept

\* The strengthening is inductive as long as nothing is repeated or recovered.
LEMMA NextKeepsOnePlace ==
    TypeOK /\ (Fresh => OnePlace) /\ [Next]_vars => (Fresh => OnePlace)'
<1> SUFFICES ASSUME TypeOK, Fresh => OnePlace, [Next]_vars, Fresh'
             PROVE  OnePlace'
  OBVIOUS
<1>a. OnePlace
  BY FreshSteps
<1>b. /\ queue \in Seq(Messages) /\ processing \in Seq(Messages)
      /\ held \in [Consumers -> Messages \cup {None}]
  BY DEF TypeOK
<1>c. \A m \in Messages : Copies(queue, m) \in Nat /\ Copies(processing, m) \in Nat
  BY <1>b, ListShape
<1>d. \A m \in Messages : Copies(queue, m) + Copies(processing, m) = Kept(m)
  BY <1>a DEF OnePlace
<1>1. ASSUME NEW m \in Messages, Put(m)
      PROVE  OnePlace'
  <2>1. /\ queue' = Cons(m, queue) /\ processing' = processing /\ held' = held
        /\ unsent' = unsent \ {m} /\ stored' = stored \cup {m} /\ acked' = acked
        /\ m \in unsent
    BY <1>1 DEF Put, LPush, consumer
  <2>2. m \notin stored /\ m \notin acked
    BY <1>a, <2>1 DEF OnePlace
  <2>3. ASSUME NEW p \in Messages
        PROVE  Copies(queue', p) + Copies(processing', p) = Kept(p)'
    <3>1. Copies(queue', p) = IF p = m THEN Copies(queue, p) + 1 ELSE Copies(queue, p)
      BY <1>b, <2>1, ConsCopies
    <3>2. Kept(p)' = IF p = m THEN 1 ELSE Kept(p)
      BY <2>1, <2>2 DEF Kept
    <3>3. Kept(m) = 0
      BY <2>2 DEF Kept
    <3> QED
      BY <1>c, <1>d, <2>1, <3>1, <3>2, <3>3
  <2>4. acked' \subseteq stored' /\ unsent' \cap stored' = {}
    BY <1>a, <2>1 DEF OnePlace
  <2>5. /\ \A c \in Consumers : held'[c] # None => Copies(processing', held'[c]) = 1
        /\ \A c, d \in Consumers : held'[c] # None /\ held'[c] = held'[d] => c = d
    BY <1>a, <2>1 DEF OnePlace
  <2> QED
    BY <2>3, <2>4, <2>5 DEF OnePlace
<1>2. ASSUME NEW c \in Consumers, Get(c)
      PROVE  OnePlace'
  <2>1. /\ Take /\ held[c] = None /\ held' = [held EXCEPT ![c] = Last(queue)]
        /\ unsent' = unsent /\ stored' = stored /\ acked' = acked
    BY <1>2 DEF Get, Become, TypeOK, history
  <2>2. Last(queue) \in Messages
    BY <2>1, TakeMoves
  <2> DEFINE m == Last(queue)
  <2>3. \A p \in Messages :
           /\ Copies(queue, p) = IF p = m THEN Copies(queue', p) + 1 ELSE Copies(queue', p)
           /\ Copies(processing', p) = IF p = m THEN Copies(processing, p) + 1
                                                ELSE Copies(processing, p)
    BY <2>1, TakeCopies
  <2>4. \A p \in Messages : Copies(queue', p) \in Nat
    <3>1. queue' \in Seq(Messages)
      BY <2>1, TakeMoves
    <3> QED
      BY <3>1, ListShape
  <2> HIDE DEF m
  <2>5. Copies(queue, m) = 1 /\ Copies(processing, m) = 0 /\ Copies(processing', m) = 1
    <3>1. m \in Messages
      BY <2>2 DEF m
    <3> QED
      BY <1>c, <1>d, <2>3, <2>4, <3>1 DEF Kept
  <2>6. \A d \in Consumers : held[d] # m
    BY <1>a, <2>2, <2>5, HeldIsKept, QueueAssumption DEF m
  <2>7. \A p \in Messages : Copies(queue', p) + Copies(processing', p) = Kept(p)'
    <3>1. \A p \in Messages : Kept(p)' = Kept(p)
      BY <2>1 DEF Kept
    <3> QED
      BY <1>c, <1>d, <2>3, <2>4, <3>1
  <2>8. \A d \in Consumers : held'[d] # None => Copies(processing', held'[d]) = 1
    <3> SUFFICES ASSUME NEW d \in Consumers, held'[d] # None
                 PROVE  Copies(processing', held'[d]) = 1
      OBVIOUS
    <3>1. CASE d = c
      BY <1>b, <2>1, <2>5, <3>1 DEF m
    <3>2. CASE d # c
      <4>1. held'[d] = held[d] /\ held[d] \in Messages
        BY <1>b, <2>1, <3>2
      <4>2. Copies(processing, held[d]) = 1 /\ held[d] # m
        BY <1>a, <2>6, <4>1 DEF OnePlace
      <4> QED
        BY <2>3, <4>1, <4>2
    <3> QED
      BY <3>1, <3>2
  <2>9. \A d, e \in Consumers : held'[d] # None /\ held'[d] = held'[e] => d = e
    BY <1>a, <1>b, <2>1, <2>6 DEF OnePlace, m
  <2> QED
    BY <1>a, <2>1, <2>7, <2>8, <2>9 DEF OnePlace
<1>3. ASSUME NEW c \in Consumers, Ack(c) \/ Nack(c)
      PROVE  OnePlace'
  <2> DEFINE m == held[c]
  <2>1. /\ processing' = LRem(processing, m) /\ held' = [held EXCEPT ![c] = None]
        /\ unsent' = unsent /\ stored' = stored
        /\ \/ queue' = queue /\ acked' = acked \cup {m}
           \/ Requeue(m) /\ acked' = acked
    BY <1>3 DEF Ack, Nack, Become, Requeue, history
  <2>2. held[c] # None
    BY <1>3, HeldWhenBusy, QueueAssumption DEF Ack, Nack
  <2>3. /\ m \in Messages /\ m \in stored \ acked
        /\ Copies(processing, m) = 1 /\ Copies(queue, m) = 0
    BY <1>a, <2>2, HeldIsKept
  <2> HIDE DEF m
  <2>4. \A p \in Messages : Copies(processing, p) = IF p = m THEN Copies(processing', p) + 1
                                                             ELSE Copies(processing', p)
    BY <1>b, <2>1, <2>3, LRemRemoves
  <2>5. \A p \in Messages : Copies(processing', p) \in Nat
    <3>1. processing' \in Seq(Messages)
      BY <1>b, <2>1, LRemRemoves
    <3> QED
      BY <3>1, ListShape
  <2>6. \A p \in Messages : Copies(queue', p) + Copies(processing', p) = Kept(p)'
    <3>1. CASE queue' = queue /\ acked' = acked \cup {m}
      <4>1. \A p \in Messages : Kept(p)' = IF p = m THEN 0 ELSE Kept(p)
        BY <2>1, <3>1 DEF Kept
      <4> QED
        BY <1>c, <1>d, <2>3, <2>4, <2>5, <3>1, <4>1
    <3>2. CASE Requeue(m) /\ acked' = acked
      <4>1. \A p \in Messages : Kept(p)' = Kept(p)
        BY <2>1, <3>2 DEF Kept
      <4>2. \A p \in Messages :
               Copies(queue', p) = IF p = m THEN Copies(queue, p) + 1 ELSE Copies(queue, p)
        BY <2>3, <3>2, RequeueCopies
      <4> QED
        BY <1>c, <1>d, <2>3, <2>4, <2>5, <4>1, <4>2
    <3> QED
      BY <2>1, <3>1, <3>2
  <2>7. ASSUME NEW d \in Consumers, held'[d] # None
        PROVE  /\ held'[d] = held[d] /\ d # c /\ held[d] # m
               /\ Copies(processing', held'[d]) = 1
    <3>1. held'[d] = held[d] /\ d # c /\ held[d] \in Messages
      BY <1>b, <2>1, <2>7
    <3>2. held[d] # m
      BY <1>a, <2>2, <3>1 DEF OnePlace, m
    <3>3. Copies(processing, held[d]) = 1
      BY <1>a, <2>7, <3>1 DEF OnePlace
    <3> QED
      BY <2>4, <2>5, <3>1, <3>2, <3>3
  <2>8. \A d, e \in Consumers : held'[d] # None /\ held'[d] = held'[e] => d = e
    BY <1>a, <2>7 DEF OnePlace
  <2>9. acked' \subseteq stored'
    BY <1>a, <2>1, <2>3 DEF OnePlace
  <2> QED
    BY <1>a, <2>1, <2>6, <2>7, <2>8, <2>9 DEF OnePlace
<1>4. ASSUME UNCHANGED <<lists, unsent, stored, acked>>,
             held' = held \/ \E c \in Consumers : held' = [held EXCEPT ![c] = None]
      PROVE  OnePlace'
  <2>1. \A d \in Consumers : held'[d] # None => held'[d] = held[d]
    BY <1>4, <1>b
  <2>2. \A m \in Messages : Kept(m)' = Kept(m)
    BY <1>4 DEF Kept
  <2> QED
    BY <1>a, <1>4, <2>1, <2>2 DEF OnePlace, lists
<1> QED
  BY <1>1, <1>2, <1>3, <1>4, FreshSteps

\* Exactly once: until recover_stale moves a message or a reply is lost, a message that
\* Redis received is in one place until its ack, in none after it, and with one consumer.
THEOREM ExactlyOnce == Spec => []ExactlyOnceUntilRepeated
<1>1. Init => (Fresh => OnePlace)
  <2> SUFFICES ASSUME Init
               PROVE  OnePlace
    OBVIOUS
  <2>1. \A m \in Messages : Copies(<<>>, m) = 0
    <3>1. <<>> \in Seq(Messages) /\ ToSet(<<>>) = {}
      BY EmptySeq DEF ToSet
    <3> QED
      BY <3>1, ListShape
  <2> QED
    BY <2>1 DEF Init, OnePlace, Kept
<1>2. TypeOK /\ (Fresh => OnePlace) => ExactlyOnceUntilRepeated
  <2> SUFFICES ASSUME TypeOK, OnePlace, NEW m \in stored
               PROVE  /\ Copies(queue, m) + Copies(processing, m) = IF m \in acked THEN 0 ELSE 1
                      /\ Cardinality(Holders(m)) <= 1
    BY DEF ExactlyOnceUntilRepeated, Fresh
  <2>1. m \in Messages
    BY DEF TypeOK
  <2>2. Copies(queue, m) + Copies(processing, m) = IF m \in acked THEN 0 ELSE 1
    BY <2>1 DEF OnePlace, Kept
  <2>3. CASE Holders(m) = {}
    <3>1. Cardinality({}) = 0
      BY FS_EmptySet
    <3>2. Cardinality(Holders(m)) = 0
      BY <2>3, <3>1, Zenon
    <3> QED
      BY <2>2, <3>2
  <2>4. ASSUME NEW c \in Holders(m)
        PROVE  Cardinality(Holders(m)) <= 1
    <3>1. Holders(m) = {c}
      BY <2>1, QueueAssumption DEF Holders, OnePlace
    <3>2. Cardinality({c}) = 1
      BY FS_Singleton
    <3> QED
      BY <3>1, <3>2
  <2> QED
    BY <2>2, <2>3, <2>4
<1> QED
  BY <1>1, <1>2, TypeCorrect, NextKeepsOnePlace, PTL DEF Spec

----------------------------------------------------------------------------
(* First in, first out *)

Undisturbed == nacks = 0 /\ faults = 0 /\ ~recovered

Decreasing(list) == \A i, j \in DOMAIN list : i < j => list[i] > list[j]

\* What left the queue for good, or is under way.
Taken == acked \cup ToSet(processing) \cup {m \in Messages : Holders(m) # {}}

\* The strengthening: the messages that consumers hold are older than the queue's too,
\* and what is still to be put is younger than everything in the lists.
InOrder ==
    /\ Decreasing(queue)
    /\ \A m \in Taken : \A n \in ToSet(queue) \cup unsent : m < n
    /\ \A m \in ToSet(queue) : \A n \in unsent : m < n
    /\ \A c \in Consumers : phase[c] # "ack_failed"

\* While nothing is put back, a step is a put, a get or an ack, or it changes nothing
\* of the order.
LEMMA UndisturbedSteps ==
    ASSUME TypeOK, Undisturbed => InOrder, [Next]_vars, Undisturbed'
    PROVE  /\ Undisturbed /\ InOrder
           /\ \/ \E m \in Messages : Put(m)
              \/ \E c \in Consumers : Get(c) \/ Ack(c)
              \/ UNCHANGED <<lists, consumer, unsent, acked>>
<1>1. faults = 0 /\ faults' = 0 /\ nacks' = 0 /\ ~recovered' /\ nacks \in Nat
  BY Faultless, QueueAssumption DEF Undisturbed, TypeOK
<1>2. \A c \in Consumers : Nack(c) => phase[c] = "ack_failed" /\ nacks' = nacks
  BY <1>1 DEF Nack
<1>3. nacks = 0 /\ ~recovered
  <2>1. \A c \in Consumers : Nack(c) => recovered' = recovered
    BY DEF Nack, history
  <2>2. (\E m \in Messages : Put(m)) => nacks' = nacks /\ recovered' = recovered
    BY DEF Put
  <2>3. \A c \in Consumers : Get(c) \/ Ack(c) => nacks' = nacks /\ recovered' = recovered
    BY DEF Get, Ack, history
  <2>4. StartRecovery \/ UNCHANGED vars => nacks' = nacks /\ recovered' = recovered
    BY DEF StartRecovery, vars, history
  <2>5. Recover => nacks' = nacks /\ recovered' = recovered
    BY <1>1 DEF Recover
  <2> QED
    BY <1>1, <1>2, <2>1, <2>2, <2>3, <2>4, <2>5, Faultless
<1>4. Undisturbed /\ InOrder
  BY <1>1, <1>3 DEF Undisturbed
<1>5. \A c \in Consumers : ~Nack(c)
  BY <1>2, <1>4 DEF InOrder
<1>6. StartRecovery \/ Recover \/ UNCHANGED vars => UNCHANGED <<lists, consumer, unsent, acked>>
  BY <1>1 DEF StartRecovery, Recover, vars, lists, consumer, history
<1> QED
  BY <1>1, <1>4, <1>5, <1>6, Faultless

\* The strengthening is inductive as long as nothing is put back.
LEMMA NextKeepsOrder ==
    TypeOK /\ (Undisturbed => InOrder) /\ [Next]_vars => (Undisturbed => InOrder)'
<1> SUFFICES ASSUME TypeOK, Undisturbed => InOrder, [Next]_vars, Undisturbed'
             PROVE  InOrder'
  OBVIOUS
<1>a. InOrder
  BY UndisturbedSteps
<1>b. /\ queue \in Seq(Messages) /\ processing \in Seq(Messages)
      /\ unsent \subseteq Messages /\ acked \subseteq Messages
      /\ held \in [Consumers -> Messages \cup {None}]
  BY DEF TypeOK
<1>c. /\ ToSet(queue) \subseteq Messages
      /\ Len(queue) \in Nat /\ DOMAIN queue = 1 .. Len(queue)
      /\ \A i \in 1 .. Len(queue) : queue[i] \in ToSet(queue)
  BY <1>b, ListShape DEF ToSet
<1>1. ASSUME NEW m \in Messages, Put(m)
      PROVE  InOrder'
  <2>1. /\ queue' = Cons(m, queue) /\ UNCHANGED <<processing, acked, held, phase>>
        /\ unsent' = unsent \ {m} /\ m \in unsent /\ \A n \in unsent : m <= n
    BY <1>1 DEF Put, LPush, consumer
  <2>2. ToSet(queue') = ToSet(queue) \cup {m} /\ queue' \in Seq(Messages)
    BY <1>b, <2>1, ConsAdds
  <2>3. Taken' = Taken
    BY <2>1 DEF Taken, Holders
  <2>4. \A n \in unsent' : m < n
    BY <1>b, <2>1, QueueAssumption
  <2>5. Decreasing(queue')
    <3>1. /\ DOMAIN queue' = 1 .. Len(queue) + 1
          /\ \A i \in 1 .. Len(queue) + 1 : queue'[i] = IF i = 1 THEN m ELSE queue[i - 1]
      <4>1. /\ Len(queue') = Len(queue) + 1
            /\ \A i \in 1 .. Len(queue) + 1 : queue'[i] = IF i = 1 THEN m ELSE queue[i - 1]
        <5>1. /\ Len(Cons(m, queue)) = Len(queue) + 1
              /\ \A i \in 1 .. Len(queue) + 1 :
                    Cons(m, queue)[i] = IF i = 1 THEN m ELSE queue[i - 1]
          BY <1>b, ConsPushes
        <5> QED
          BY <2>1, <5>1
      <4> QED
        BY <2>2, <4>1, ListShape
    <3> SUFFICES ASSUME NEW i \in 1 .. Len(queue) + 1, NEW j \in 1 .. Len(queue) + 1, i < j
                 PROVE  queue'[i] > queue'[j]
      BY <3>1 DEF Decreasing
    <3>2. j - 1 \in 1 .. Len(queue) /\ j # 1
      BY <1>c
    <3>3. queue'[j] = queue[j - 1] /\ queue[j - 1] \in ToSet(queue)
      BY <1>c, <3>1, <3>2
    <3>4. CASE i = 1
      <4>1. queue'[i] = m /\ queue[j - 1] < m
        BY <1>a, <2>1, <3>1, <3>3, <3>4 DEF InOrder
      <4> QED
        BY <1>c, <3>3, <4>1, QueueAssumption
    <3>5. CASE i # 1
      <4>1. i - 1 \in 1 .. Len(queue) /\ i - 1 < j - 1
        BY <1>c, <3>5
      <4>2. queue[i - 1] > queue[j - 1]
        BY <1>a, <1>c, <3>2, <4>1 DEF InOrder, Decreasing
      <4> QED
        BY <3>1, <3>3, <3>5, <4>2
    <3> QED
      BY <3>4, <3>5
  <2>6. \A p \in Taken' : \A n \in ToSet(queue') \cup unsent' : p < n
    BY <1>a, <2>1, <2>2, <2>3 DEF InOrder
  <2>7. \A p \in ToSet(queue') : \A n \in unsent' : p < n
    BY <1>a, <2>1, <2>2, <2>4 DEF InOrder
  <2> QED
    BY <1>a, <2>1, <2>5, <2>6, <2>7 DEF InOrder
<1>2. ASSUME NEW c \in Consumers, Get(c)
      PROVE  InOrder'
  <2> DEFINE m == Last(queue)
  <2>1. /\ queue # <<>> /\ queue' = Front(queue) /\ processing' = Cons(m, processing)
        /\ held' = [held EXCEPT ![c] = m] /\ phase' = [phase EXCEPT ![c] = "working"]
        /\ unsent' = unsent /\ acked' = acked
    BY <1>2 DEF Get, Take, LPush, Become, history
  <2>2. /\ queue' \in Seq(Messages) /\ m \in Messages
        /\ ToSet(queue) = ToSet(queue') \cup {m}
    BY <1>b, <2>1, FrontAndLast
  <2>3. /\ Len(queue) \in Nat \ {0} /\ m = queue[Len(queue)]
        /\ DOMAIN queue' = 1 .. Len(queue) - 1
        /\ \A i \in 1 .. Len(queue) - 1 : queue'[i] = queue[i]
    BY <1>b, <2>1, <2>2, FrontPops, ListShape
  <2> HIDE DEF m
  <2>4. ToSet(processing') = ToSet(processing) \cup {m}
    <3>1. ToSet(Cons(m, processing)) = ToSet(processing) \cup {m}
      BY <1>b, <2>2, ConsAdds
    <3> QED
      BY <2>1, <3>1
  <2>5. Taken' \subseteq Taken \cup {m}
    <3>1. \A p \in Messages : Holders(p)' # {} => p = m \/ Holders(p) # {}
      BY <1>b, <2>1 DEF Holders
    <3> QED
      BY <2>1, <2>4, <3>1 DEF Taken
  <2>6. \A n \in ToSet(queue') : m < n
    <3> SUFFICES ASSUME NEW i \in 1 .. Len(queue) - 1
                 PROVE  m < queue'[i]
      BY <2>3 DEF ToSet
    <3>1. i \in 1 .. Len(queue) /\ Len(queue) \in 1 .. Len(queue) /\ i < Len(queue)
      BY <2>3
    <3>2. queue[i] > queue[Len(queue)]
      BY <1>a, <1>c, <3>1 DEF InOrder, Decreasing
    <3>3. queue[i] \in Nat /\ m \in Nat
      BY <1>c, <2>2, <3>1, QueueAssumption
    <3> QED
      BY <2>3, <3>2, <3>3
  <2>7. \A n \in unsent : m < n
    BY <1>a, <2>2 DEF InOrder
  <2>8. Decreasing(queue')
    <3>1. \A i \in 1 .. Len(queue) - 1 : i \in 1 .. Len(queue)
      BY <2>3
    <3> QED
      BY <1>a, <1>c, <2>3, <3>1 DEF InOrder, Decreasing
  <2>9. /\ \A p \in Taken' : \A n \in ToSet(queue') \cup unsent' : p < n
        /\ \A p \in ToSet(queue') : \A n \in unsent' : p < n
    BY <1>a, <2>1, <2>2, <2>5, <2>6, <2>7 DEF InOrder
  <2>10. \A d \in Consumers : phase'[d] # "ack_failed"
    BY <1>a, <2>1 DEF InOrder, TypeOK
  <2> QED
    BY <2>8, <2>9, <2>10 DEF InOrder
<1>3. ASSUME NEW c \in Consumers, Ack(c)
      PROVE  InOrder'
  <2>1. /\ queue' = queue /\ processing' = LRem(processing, held[c])
        /\ held' = [held EXCEPT ![c] = None] /\ phase' = [phase EXCEPT ![c] = "idle"]
        /\ unsent' = unsent /\ acked' = acked \cup {held[c]}
        /\ held[c] \in Messages
    BY <1>3, HeldWhenBusy DEF Ack, Become
  <2>2. ToSet(processing') \subseteq ToSet(processing)
    BY <1>b, <2>1, LRemRemoves
  <2>3. held[c] \in Taken
    BY <2>1 DEF Taken, Holders
  <2>4. \A p \in Messages : Holders(p)' \subseteq Holders(p)
    BY <1>b, <2>1, QueueAssumption DEF Holders
  <2>5. Taken' \subseteq Taken
    BY <2>1, <2>2, <2>3, <2>4 DEF Taken
  <2>6. \A d \in Consumers : phase'[d] # "ack_failed"
    BY <1>a, <2>1 DEF InOrder, TypeOK
  <2> QED
    BY <1>a, <2>1, <2>5, <2>6 DEF InOrder
<1>4. CASE UNCHANGED <<lists, consumer, unsent, acked>>
  BY <1>a, <1>4 DEF InOrder, Taken, Holders, lists, consumer
<1> QED
  BY <1>1, <1>2, <1>3, <1>4, UndisturbedSteps

\* First in, first out: until a message is put back, the queue is in the order of the
\* puts, and what was taken from it is older than all that it still holds.
THEOREM FirstOut == Spec => []FirstInFirstOut
<1>1. Init => (Undisturbed => InOrder)
  <2> SUFFICES ASSUME Init
               PROVE  InOrder
    OBVIOUS
  <2>1. ToSet(<<>>) = {} /\ DOMAIN <<>> = {}
    BY DEF ToSet
  <2>2. Taken = {}
    BY <2>1, QueueAssumption DEF Init, Taken, Holders
  <2> QED
    BY <2>1, <2>2 DEF Init, InOrder, Decreasing
<1>2. TypeOK /\ (Undisturbed => InOrder) => FirstInFirstOut
  <2> SUFFICES ASSUME TypeOK, InOrder
               PROVE  /\ \A i, j \in DOMAIN queue : i < j => queue[i] > queue[j]
                      /\ \A i \in DOMAIN queue :
                            \A m \in acked \cup ToSet(processing) : m < queue[i]
    BY DEF FirstInFirstOut, Undisturbed
  <2>1. \A i \in DOMAIN queue : queue[i] \in ToSet(queue)
    BY DEF ToSet
  <2>2. acked \cup ToSet(processing) \subseteq Taken
    BY DEF Taken
  <2> QED
    BY <2>1, <2>2 DEF InOrder, Decreasing
<1> QED
  BY <1>1, <1>2, TypeCorrect, NextKeepsOrder, PTL DEF Spec

=============================================================================
