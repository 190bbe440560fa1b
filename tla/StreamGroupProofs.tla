-------------------------- MODULE StreamGroupProofs --------------------------
(***************************************************************************)
(* Theorems about StreamGroup, for any consumers, entries, counts, bounds  *)
(* of the stream and numbers of faults; StreamAssumption is all they need. *)
(***************************************************************************)
EXTENDS StreamGroup, TLAPS, FiniteSetTheorems, WellFoundedInduction

----------------------------------------------------------------------------
(* The inductive invariant: the types, and three facts that they leave open. *)

Hand ==
    [how : {"none", "listen", "claim"}, ages : UNION {Ages(S) : S \in SUBSET Entries},
     done : BOOLEAN, group : Nat]

\* Every consumer's hands are a record, and the first of its messages was handled when it
\* is marked as done.
HandsFormed ==
    /\ hands \in [Consumers -> Hand]
    /\ \A c \in Consumers : hands[c].done => hands[c].how # "none" /\ Current(c) \in handled

\* A group that is gone has delivered nothing; one that exists was made.
GroupFormed == (~exists => last = 0) /\ (exists => groups > 0)

StreamInv == TypeOK /\ HandsFormed /\ GroupFormed

----------------------------------------------------------------------------
(* Smallest and largest entries *)

\* A non-empty set of naturals has a least element.
LEMMA Smallest ==
    ASSUME NEW S \in SUBSET Nat, S # {}
    PROVE  Min(S) \in S /\ \A e \in S : Min(S) <= e
<1>1. \E m \in S : \A e \in S : m <= e
  <2>1. IsWellFoundedOn(OpToRel(<, Nat), Nat)
    BY NatLessThanWellFounded
  <2>2. PICK m \in S : \A e \in S : <<e, m>> \notin OpToRel(<, Nat)
    BY <2>1, WFMin, Zenon
  <2>3. \A e \in S : ~(e < m)
    BY <2>2 DEF OpToRel
  <2>4. S \subseteq Nat
    OBVIOUS
  <2> QED
    BY <2>3, <2>4
<1> QED
  BY <1>1 DEF Min

\* A non-empty, bounded set of naturals has a greatest element.
LEMMA Largest ==
    ASSUME NEW n \in Nat, NEW S \in SUBSET (0 .. n), S # {}
    PROVE  Max(S) \in S /\ \A e \in S : e <= Max(S)
<1> DEFINE T == {n - e : e \in S}
<1>1. \A e \in S : e \in Nat /\ n - e \in Nat
  OBVIOUS
<1>2. T \in SUBSET Nat /\ T # {}
  BY <1>1
<1> HIDE DEF T
<1>3. Min(T) \in T /\ \A t \in T : Min(T) <= t
  BY <1>2, Smallest
<1>4. PICK m \in S : Min(T) = n - m
  BY <1>3 DEF T
<1>5. \A e \in S : n - m <= n - e
  BY <1>3, <1>4 DEF T
<1>6. \A e \in S : m >= e
  BY <1>1, <1>5
<1>7. Max(S) \in S /\ \A e \in S : Max(S) >= e
  BY <1>6 DEF Max
<1> QED
  BY <1>1, <1>7

\* The oldest of some entries are entries that no other one among them precedes.
LEMMA OldestPrecede ==
    ASSUME NEW n \in Nat, NEW S \in SUBSET (1 .. n), NEW k \in Nat
    PROVE  /\ Oldest(S, k) \subseteq S
           /\ \A e \in S, f \in Oldest(S, k) : e <= f => e \in Oldest(S, k)
<1> SUFFICES ASSUME NEW e \in S, NEW f \in Oldest(S, k), e <= f
             PROVE  e \in Oldest(S, k)
  BY DEF Oldest
<1> DEFINE Before(x) == {g \in S : g < x}
<1>0. f \in S /\ S \subseteq Nat
  BY DEF Oldest
<1>1. IsFiniteSet(S)
  <2>1. IsFiniteSet(1 .. n)
    BY FS_Interval
  <2> QED
    BY <2>1, FS_Subset
<1>2. IsFiniteSet(Before(f)) /\ Before(e) \in SUBSET Before(f)
  <2>1. Before(f) \in SUBSET S
    OBVIOUS
  <2>2. Before(e) \in SUBSET Before(f)
    <3>1. \A g \in S : g < e => g < f
      BY <1>0
    <3> QED
      BY <3>1
  <2> QED
    BY <1>1, <2>1, <2>2, FS_Subset
<1>3. /\ Cardinality(Before(e)) <= Cardinality(Before(f))
      /\ Cardinality(Before(e)) \in Nat /\ Cardinality(Before(f)) \in Nat
  BY <1>2, FS_Subset, FS_CardinalityType
<1>4. Cardinality(Before(f)) < k
  BY DEF Oldest
<1> QED
  BY <1>3, <1>4 DEF Oldest

----------------------------------------------------------------------------
(* The parts of an action *)

\* The bound of the stream leaves MaxLen entries.
LEMMA TrimBounds ==
    ASSUME NEW n \in Nat, first \in 1 .. n + 1, Trimmed(n)
    PROVE  first' \in first .. n + 1 /\ \A e \in Nat : e < first' => e < first \/ n - e >= MaxLen
<1> DEFINE S == {first, n - MaxLen + 1}
<1>0. MaxLen \in Nat \ {0}
  BY StreamAssumption
<1>1. Max(S) \in S
  <2>1. first \in Int /\ n - MaxLen + 1 \in Int
    BY <1>0
  <2>2. CASE first >= n - MaxLen + 1
    BY <2>1, <2>2 DEF Max
  <2>3. CASE n - MaxLen + 1 >= first
    BY <2>1, <2>3 DEF Max
  <2> QED
    BY <2>1, <2>2, <2>3
<1>2. first' \in first .. Max(S)
  BY DEF Trimmed
<1> QED
  BY <1>0, <1>1, <1>2

\* What listen() reads: the stream's next entries, which become pending.
LEMMA ReadNewKeeps ==
    ASSUME StreamInv, ReadNew(Oldest(Fresh, Count))
    PROVE  /\ Oldest(Fresh, Count) \in SUBSET (1 .. added)
           /\ last' \in last .. added
           /\ DOMAIN pending' \subseteq 1 .. last' /\ pending' \in Ages(DOMAIN pending')
           /\ \A e \in first .. added :
                (e > last \/ e \in DOMAIN pending) <=> (e > last' \/ e \in DOMAIN pending')
           /\ UNCHANGED <<exists, groups>>
<1> DEFINE E == Oldest(Fresh, Count)
<1>0. /\ added \in Nat /\ first \in 1 .. added + 1 /\ last \in 0 .. added /\ MinIdle \in Nat
      /\ DOMAIN pending \subseteq 1 .. last /\ pending \in Ages(DOMAIN pending)
      /\ Count \in Nat
  BY StreamAssumption DEF StreamInv, TypeOK
<1>1. Fresh \subseteq 1 .. added /\ \A e \in Fresh : e > last
  BY <1>0 DEF Fresh
<1>2. E \subseteq Fresh /\ \A e \in Fresh, f \in E : e <= f => e \in E
  BY <1>0, <1>1, OldestPrecede
<1>3. /\ E # {} /\ last' = Max(E) /\ UNCHANGED <<exists, groups>>
      /\ pending' = [e \in DOMAIN pending \cup E |-> IF e \in E THEN 0 ELSE pending[e]]
  BY DEF ReadNew
<1> HIDE DEF E
<1>a. E \in SUBSET (0 .. added) /\ E \in SUBSET (1 .. added) /\ \A e \in E : e > last
  BY <1>1, <1>2
<1>4. last' \in E /\ \A e \in E : e <= last'
  BY <1>0, <1>3, <1>a, Largest
<1>5. DOMAIN pending' = DOMAIN pending \cup E /\ pending' \in Ages(DOMAIN pending')
  BY <1>0, <1>3 DEF Ages
<1>6. last' \in last .. added /\ DOMAIN pending' \subseteq 1 .. last'
  <2>1. last' \in 1 .. added /\ last' > last
    BY <1>4, <1>a
  <2>2. \A e \in DOMAIN pending \cup E : e \in 1 .. last'
    <3>1. \A e \in DOMAIN pending : e \in 1 .. last'
      BY <1>0, <2>1
    <3>2. \A e \in E : e \in 1 .. last'
      BY <1>4, <1>a, <2>1
    <3> QED
      BY <3>1, <3>2
  <2> QED
    BY <1>0, <1>5, <2>1, <2>2
<1>7. ASSUME NEW e \in first .. added
      PROVE  (e > last \/ e \in DOMAIN pending) <=> (e > last' \/ e \in DOMAIN pending')
  <2>1. e > last <=> e \in Fresh
    BY <1>0 DEF Fresh
  <2>2. e > last' => e \in Fresh
    BY <1>0, <1>6, <2>1
  <2>3. e \in Fresh => e > last' \/ e \in E
    <3>1. e \in Int /\ last' \in Int
      BY <1>0, <1>6
    <3> QED
      BY <3>1, <1>2, <1>4
  <2> QED
    BY <1>2, <1>5, <2>1, <2>2, <2>3
<1> QED
  BY <1>3, <1>5, <1>6, <1>7, <1>a DEF E

\* What claim_stale() finds: of the pending entries only trimmed ones go.
LEMMA ClaimKeeps ==
    ASSUME StreamInv, Claim
    PROVE  /\ Claimed \in SUBSET (1 .. added)
           /\ UNCHANGED last
           /\ DOMAIN pending' \subseteq 1 .. last /\ pending' \in Ages(DOMAIN pending')
           /\ \A e \in first .. added : e \in DOMAIN pending <=> e \in DOMAIN pending'
           /\ UNCHANGED <<exists, groups>>
<1>0. /\ added \in Nat /\ first \in 1 .. added + 1 /\ last \in 0 .. added /\ MinIdle \in Nat
      /\ DOMAIN pending \subseteq 1 .. last /\ pending \in Ages(DOMAIN pending)
      /\ Scan \in Nat /\ ClaimCount \in Nat
  BY StreamAssumption DEF StreamInv, TypeOK
<1>1. Oldest(DOMAIN pending, Scan) \subseteq DOMAIN pending
  BY DEF Oldest
<1>2. Reached \subseteq DOMAIN pending /\ Claimed \subseteq Reached
  BY <1>1 DEF Reached, Claimed, Oldest
<1>3. \A e \in Reached \ Claimed : e < first
  BY <1>0, <1>2 DEF Claimed
<1>4. /\ pending' = [e \in (DOMAIN pending \ Reached) \cup Claimed |->
                        IF e \in Claimed THEN 0 ELSE pending[e]]
      /\ UNCHANGED <<exists, last, groups>>
  BY DEF Claim
<1>5. DOMAIN pending' = (DOMAIN pending \ Reached) \cup Claimed
  BY <1>4
<1>6. pending' \in Ages(DOMAIN pending')
  BY <1>0, <1>2, <1>4, <1>5 DEF Ages
<1> QED
  BY <1>0, <1>2, <1>3, <1>4, <1>5, <1>6

\* Nobody's hands change, while the entries, the groups and what was handled only grow.
LEMMA SameHands ==
    ASSUME StreamInv, UNCHANGED hands, added' \in Nat, added' >= added,
           groups' \in Nat, groups' >= groups, handled \subseteq handled'
    PROVE  HandsTyped' /\ HandsFormed'
<1>0. /\ added \in Nat /\ groups \in Nat
      /\ HandsTyped /\ HandsFormed
  BY StreamAssumption DEF StreamInv, TypeOK, HandsTyped
<1>1. 1 .. added \subseteq 1 .. added' /\ 1 .. groups \subseteq 1 .. groups'
  BY <1>0
<1>2. HandsTyped'
  BY <1>0, <1>1 DEF HandsTyped
<1>3. \A c \in Consumers : Current(c)' = Current(c)
  BY DEF Current
<1> QED
  BY <1>0, <1>2, <1>3 DEF HandsFormed

\* One consumer's hands become what they may be, the others' stay.
LEMMA NewHands ==
    ASSUME StreamInv, NEW c \in Consumers, NEW h \in Hand,
           hands' = [hands EXCEPT ![c] = h], UNCHANGED <<added, groups>>,
           handled \subseteq handled',
           \/ h = EmptyHands
           \/ /\ h.how # "none" /\ h.group \in 1 .. groups
              /\ DOMAIN h.ages \in (SUBSET (1 .. added)) \ {{}}
              /\ h.ages \in Ages(DOMAIN h.ages),
           h.done => h.how # "none" /\ Min(DOMAIN h.ages) \in handled'
    PROVE  HandsTyped' /\ HandsFormed'
<1>0. HandsTyped /\ HandsFormed
  BY DEF StreamInv, TypeOK, HandsTyped
<1>1. hands' \in [Consumers -> Hand] /\ hands'[c] = h
      /\ \A d \in Consumers : d # c => hands'[d] = hands[d]
  BY <1>0 DEF HandsFormed
<1>2. h.how \in {"none", "listen", "claim"} /\ h.done \in BOOLEAN
  BY DEF Hand
<1>3. HandsTyped'
  <2> SUFFICES ASSUME NEW d \in Consumers
               PROVE \/ hands'[d] = EmptyHands
                     \/ /\ hands'[d].how \in {"listen", "claim"} /\ hands'[d].done \in BOOLEAN
                        /\ DOMAIN hands'[d].ages \in (SUBSET (1 .. added)) \ {{}}
                        /\ hands'[d].ages \in Ages(DOMAIN hands'[d].ages)
                        /\ hands'[d].group \in 1 .. groups
    BY DEF HandsTyped, EmptyHands, Ages
  <2>1. CASE d = c
    BY <2>1, <1>1, <1>2
  <2>2. CASE d # c
    BY <2>2, <1>0, <1>1 DEF HandsTyped
  <2> QED
    BY <2>1, <2>2
<1>4. HandsFormed'
  <2> SUFFICES ASSUME NEW d \in Consumers, hands'[d].done
               PROVE  hands'[d].how # "none" /\ Min(DOMAIN hands'[d].ages) \in handled'
    BY <1>1 DEF HandsFormed, Current
  <2>1. CASE d = c
    BY <2>1, <1>1
  <2>2. CASE d # c
    BY <2>2, <1>0, <1>1 DEF HandsFormed, Current
  <2> QED
    BY <2>1, <2>2
<1> QED
  BY <1>3, <1>4

\* A consumer that holds nothing is well formed.
LEMMA EmptyIsHand == EmptyHands \in Hand
<1>1. <<>> \in Ages({})
  BY DEF Ages
<1>2. <<>> \in UNION {Ages(S) : S \in SUBSET Entries}
  BY <1>1
<1> QED
  BY <1>2 DEF EmptyHands, Hand

\* Handing entries to a consumer keeps the hands well formed.
LEMMA GiveKeeps ==
    ASSUME StreamInv, NEW c \in Consumers, NEW how \in {"none", "listen", "claim"},
           NEW E \in SUBSET (1 .. added), E # {} => how # "none" /\ groups > 0,
           Give(c, how, E), UNCHANGED <<added, groups, handled>>
    PROVE  HandsTyped' /\ HandsFormed'
<1> DEFINE h == IF E = {} THEN EmptyHands
                ELSE [how |-> how, ages |-> [e \in E |-> 0], done |-> FALSE, group |-> groups]
<1>0. added \in 0 .. MaxEntries /\ groups \in Nat /\ MinIdle \in Nat /\ MaxEntries \in Nat
  BY StreamAssumption DEF StreamInv, TypeOK
<1>1. [e \in E |-> 0] \in Ages(E) /\ E \in SUBSET Entries
  BY <1>0 DEF Ages, Entries
<1>2. [e \in E |-> 0] \in UNION {Ages(S) : S \in SUBSET Entries}
  BY <1>1
<1>3. h \in Hand
  BY <1>0, <1>2, EmptyIsHand DEF Hand
<1>4. hands' = [hands EXCEPT ![c] = h]
  BY DEF Give
<1>5. \/ h = EmptyHands
      \/ /\ h.how # "none" /\ h.group \in 1 .. groups
         /\ DOMAIN h.ages \in (SUBSET (1 .. added)) \ {{}}
         /\ h.ages \in Ages(DOMAIN h.ages)
  BY <1>0, <1>1
<1>6. ~h.done
  BY DEF EmptyHands
<1> HIDE DEF h
<1> QED
  BY <1>3, <1>4, <1>5, <1>6, NewHands

\* What a consumer has in hand: entries of the stream, the current one among them.
LEMMA InHand ==
    ASSUME StreamInv, NEW c \in Consumers, hands[c].how # "none"
    PROVE  /\ DOMAIN hands[c].ages \in SUBSET (1 .. added)
           /\ hands[c].ages \in Ages(DOMAIN hands[c].ages)
           /\ hands[c].group \in 1 .. groups
           /\ Current(c) \in DOMAIN hands[c].ages
           /\ hands[c] \in Hand
<1>1. hands[c] # EmptyHands
  BY DEF EmptyHands
<1>2. /\ DOMAIN hands[c].ages \in (SUBSET (1 .. added)) \ {{}}
      /\ hands[c].ages \in Ages(DOMAIN hands[c].ages)
      /\ hands[c].group \in 1 .. groups
  BY <1>1 DEF StreamInv, TypeOK, HandsTyped
<1>3. hands[c] \in Hand
  BY DEF StreamInv, HandsFormed
<1>4. DOMAIN hands[c].ages \in SUBSET Nat /\ DOMAIN hands[c].ages # {}
  <2>1. 1 .. added \subseteq Nat
    OBVIOUS
  <2> QED
    BY <1>2, <2>1
<1> QED
  BY <1>2, <1>3, <1>4, Smallest DEF Current

\* Moving on to the next entry of a batch keeps the hands well formed.
LEMMA AdvanceKeeps ==
    ASSUME StreamInv, NEW c \in Consumers, hands[c].how # "none", Advance(c),
           UNCHANGED <<added, groups, handled>>
    PROVE  HandsTyped' /\ HandsFormed'
<1> DEFINE rest == DOMAIN hands[c].ages \ {Current(c)}
           ages == Restrict(hands[c].ages, rest)
           h == IF rest = {} THEN EmptyHands
                ELSE [hands[c] EXCEPT !.ages = ages, !.done = FALSE]
<1>0. /\ DOMAIN hands[c].ages \in SUBSET (1 .. added)
      /\ hands[c].ages \in Ages(DOMAIN hands[c].ages)
      /\ hands[c].group \in 1 .. groups
      /\ hands[c] \in Hand
  BY InHand
<1>1. added \in 0 .. MaxEntries /\ MaxEntries \in Nat
  BY StreamAssumption DEF StreamInv, TypeOK
<1>2. ages \in Ages(rest) /\ rest \in SUBSET Entries /\ DOMAIN ages = rest
  BY <1>0, <1>1 DEF Ages, Restrict, Entries
<1>3. ages \in UNION {Ages(S) : S \in SUBSET Entries}
  BY <1>2
<1>4. hands' = [hands EXCEPT ![c] = h]
  <2>1. hands \in [Consumers -> Hand]
    BY DEF StreamInv, HandsFormed
  <2>2. CASE rest = {}
    BY <2>1, <2>2 DEF Advance
  <2>3. CASE rest # {}
    BY <2>1, <2>3 DEF Advance
  <2> QED
    BY <2>2, <2>3
<1> HIDE DEF rest, ages
<1>5. h \in Hand
  BY <1>0, <1>3, EmptyIsHand DEF Hand
<1>6. \/ h = EmptyHands
      \/ /\ h.how # "none" /\ h.group \in 1 .. groups
         /\ DOMAIN h.ages \in (SUBSET (1 .. added)) \ {{}}
         /\ h.ages \in Ages(DOMAIN h.ages)
  <2>1. rest \in SUBSET (1 .. added)
    BY <1>0 DEF rest
  <2> QED
    BY <1>0, <1>2, <2>1 DEF Hand
<1>7. ~h.done
  BY <1>0 DEF EmptyHands, Hand
<1> HIDE DEF h
<1> QED
  BY <1>4, <1>5, <1>6, <1>7, NewHands

\* A message is done: it was handled.
LEMMA HandleKeeps ==
    ASSUME StreamInv, NEW c \in Consumers, Handle(c)
    PROVE  HandsTyped' /\ HandsFormed'
<1> DEFINE h == [hands[c] EXCEPT !.done = TRUE]
<1>0. /\ DOMAIN hands[c].ages \in (SUBSET (1 .. added)) \ {{}}
      /\ hands[c].ages \in Ages(DOMAIN hands[c].ages)
      /\ hands[c].group \in 1 .. groups
      /\ hands[c] \in Hand
  BY InHand DEF Handle
<1>1. h \in Hand /\ h.done /\ h.how = hands[c].how /\ h.ages = hands[c].ages
      /\ h.group = hands[c].group
  BY <1>0 DEF Hand
<1>2. hands' = [hands EXCEPT ![c] = h]
  BY DEF Handle, StreamInv, HandsFormed
<1>3. h.how # "none" /\ UNCHANGED <<added, groups>>
      /\ handled \subseteq handled' /\ Min(DOMAIN h.ages) \in handled'
  BY <1>1 DEF Handle, stream, group, Current
<1> HIDE DEF h
<1> QED
  BY <1>0, <1>1, <1>2, <1>3, NewHands

\* Time makes them older.
LEMMA TickKeeps ==
    ASSUME StreamInv, Tick
    PROVE  /\ HandsTyped' /\ HandsFormed'
           /\ DOMAIN pending' = DOMAIN pending /\ pending' \in Ages(DOMAIN pending)
<1>0. HandsTyped /\ HandsFormed /\ MinIdle \in Nat /\ pending \in Ages(DOMAIN pending)
  BY StreamAssumption DEF StreamInv, TypeOK, HandsTyped
<1>1. ASSUME NEW S, NEW f \in Ages(S)
      PROVE  Older(f) \in Ages(S) /\ DOMAIN Older(f) = S /\ DOMAIN f = S
  BY <1>0, <1>1 DEF Older, Ages
<1>2. DOMAIN pending' = DOMAIN pending /\ pending' \in Ages(DOMAIN pending)
  BY <1>0, <1>1 DEF Tick
<1>3. ASSUME NEW c \in Consumers
      PROVE  /\ hands'[c] = [hands[c] EXCEPT !.ages = Older(hands[c].ages)]
             /\ hands[c] \in Hand /\ hands'[c] \in Hand
             /\ hands'[c].how = hands[c].how /\ hands'[c].done = hands[c].done
             /\ hands'[c].group = hands[c].group
             /\ hands'[c].ages = Older(hands[c].ages)
             /\ DOMAIN hands'[c].ages = DOMAIN hands[c].ages
  <2>1. hands'[c] = [hands[c] EXCEPT !.ages = Older(hands[c].ages)] /\ hands[c] \in Hand
    BY <1>0 DEF Tick, HandsFormed
  <2>2. PICK S \in SUBSET Entries : hands[c].ages \in Ages(S)
    BY <2>1 DEF Hand
  <2>3. Older(hands[c].ages) \in Ages(S) /\ DOMAIN Older(hands[c].ages) = DOMAIN hands[c].ages
    BY <1>1, <2>2
  <2>4. Older(hands[c].ages) \in UNION {Ages(T) : T \in SUBSET Entries}
    BY <2>3
  <2> QED
    BY <2>1, <2>3, <2>4 DEF Hand
<1>4. hands' \in [Consumers -> Hand]
  <2>1. hands' = [c \in Consumers |-> hands'[c]]
    BY DEF Tick
  <2> QED
    BY <2>1, <1>3
<1>5. HandsFormed'
  BY <1>0, <1>3, <1>4 DEF HandsFormed, Current, Tick
<1>6. HandsTyped'
  <2> SUFFICES ASSUME NEW c \in Consumers
               PROVE \/ hands'[c] = EmptyHands
                     \/ /\ hands'[c].how \in {"listen", "claim"} /\ hands'[c].done \in BOOLEAN
                        /\ DOMAIN hands'[c].ages \in (SUBSET (1 .. added)) \ {{}}
                        /\ hands'[c].ages \in Ages(DOMAIN hands'[c].ages)
                        /\ hands'[c].group \in 1 .. groups
    BY DEF HandsTyped, EmptyHands, Ages, Tick, stream
  <2>1. CASE hands[c] = EmptyHands
    <3>1. Older(<<>>) = <<>>
      BY DEF Older
    <3> QED
      BY <3>1, <2>1, <1>3 DEF EmptyHands
  <2>2. CASE hands[c] # EmptyHands
    <3>1. /\ hands[c].how \in {"listen", "claim"} /\ hands[c].done \in BOOLEAN
          /\ DOMAIN hands[c].ages \in (SUBSET (1 .. added)) \ {{}}
          /\ hands[c].ages \in Ages(DOMAIN hands[c].ages)
          /\ hands[c].group \in 1 .. groups
      BY <2>2, <1>0 DEF HandsTyped
    <3>2. Older(hands[c].ages) \in Ages(DOMAIN hands[c].ages)
      BY <3>1, <1>1
    <3> QED
      BY <3>1, <3>2, <1>3
  <2> QED
    BY <2>1, <2>2
<1> QED
  BY <1>2, <1>5, <1>6

----------------------------------------------------------------------------
(* The invariant is inductive *)

Bounds ==
    /\ added \in 0 .. MaxEntries /\ first \in 1 .. added + 1
    /\ exists \in BOOLEAN /\ last \in 0 .. added
    /\ DOMAIN pending \subseteq 1 .. last /\ pending \in Ages(DOMAIN pending)
    /\ groups \in 0 .. MaxGroups /\ faults \in 0 .. MaxFaults
    /\ handled \subseteq 1 .. added

\* Every step keeps the invariant.
LEMMA StreamStep == StreamInv /\ [Next]_vars => StreamInv'
<1> SUFFICES ASSUME StreamInv, [Next]_vars PROVE StreamInv'
  OBVIOUS
<1> DEFINE Kept == Bounds' /\ HandsTyped' /\ HandsFormed' /\ GroupFormed'
<1>0. Bounds /\ GroupFormed
  BY DEF StreamInv, TypeOK, Bounds
<1>k. /\ MaxEntries \in Nat /\ MaxGroups \in Nat /\ MaxFaults \in Nat /\ MinIdle \in Nat
      /\ added \in Nat /\ groups \in Nat
  BY <1>0, StreamAssumption DEF Bounds
<1>e. <<>> \in Ages(DOMAIN <<>>) /\ DOMAIN <<>> = {}
  BY DEF Ages
<1>1. ASSUME Add PROVE Kept
  <2>1. first' \in first .. added' + 1 /\ added' = added + 1 /\ added' \in 0 .. MaxEntries
    BY <1>0, <1>1, <1>k, TrimBounds DEF Add, Bounds
  <2>2. HandsTyped' /\ HandsFormed'
    BY <1>1, <1>k, <2>1, SameHands DEF Add, group
  <2>3. Bounds' /\ GroupFormed'
    BY <1>0, <1>1, <1>k, <2>1 DEF Add, group, Bounds, GroupFormed
  <2> QED
    BY <2>2, <2>3
<1>2. ASSUME Trim PROVE Kept
  <2>1. first' \in first .. added + 1
    BY <1>0, <1>2, <1>k, TrimBounds DEF Trim, Bounds
  <2>2. HandsTyped' /\ HandsFormed'
    BY <1>2, <1>k, SameHands DEF Trim, group
  <2>3. Bounds' /\ GroupFormed'
    BY <1>0, <1>2, <1>k, <2>1 DEF Trim, group, Bounds, GroupFormed
  <2> QED
    BY <2>2, <2>3
<1>3. ASSUME EnsureGroup PROVE Kept
  <2>1. HandsTyped' /\ HandsFormed'
    BY <1>3, <1>k, SameHands DEF EnsureGroup, stream
  <2>2. DOMAIN pending = {}
    <3>1. last = 0 /\ DOMAIN pending \subseteq 1 .. last
      BY <1>0, <1>3 DEF EnsureGroup, Bounds, GroupFormed
    <3> QED
      BY <3>1
  <2>3. Bounds' /\ GroupFormed'
    BY <1>0, <1>3, <1>k, <2>2 DEF EnsureGroup, stream, Bounds, GroupFormed
  <2> QED
    BY <2>1, <2>3
<1>4. ASSUME DestroyGroup PROVE Kept
  <2>1. HandsTyped' /\ HandsFormed'
    BY <1>4, <1>k, SameHands DEF DestroyGroup, stream
  <2>2. Bounds' /\ GroupFormed'
    <3>1. pending' \in Ages(DOMAIN pending') /\ DOMAIN pending' = {}
      BY <1>4, <1>e DEF DestroyGroup
    <3>2. last' = 0 /\ exists' = FALSE /\ UNCHANGED <<added, first, groups, faults, handled>>
      BY <1>4 DEF DestroyGroup, stream
    <3>3. Bounds'
      <4>1. DOMAIN pending' \subseteq 1 .. last'
        BY <3>1
      <4>2. /\ added' \in 0 .. MaxEntries /\ first' \in 1 .. added' + 1
            /\ groups' \in 0 .. MaxGroups /\ faults' \in 0 .. MaxFaults
            /\ handled' \subseteq 1 .. added'
        BY <1>0, <3>2 DEF Bounds
      <4>3. last' \in 0 .. added'
        BY <1>k, <3>2
      <4>4. exists' \in BOOLEAN
        BY <3>2
      <4> QED
        BY <3>1, <4>1, <4>2, <4>3, <4>4 DEF Bounds
    <3>4. GroupFormed'
      BY <3>2 DEF GroupFormed
    <3> QED
      BY <3>3, <3>4
  <2> QED
    BY <2>1, <2>2
<1>5. ASSUME NEW c \in Consumers, Listen(c) PROVE Kept
  <2>1. /\ Oldest(Fresh, Count) \in SUBSET (1 .. added)
        /\ last' \in last .. added
        /\ DOMAIN pending' \subseteq 1 .. last' /\ pending' \in Ages(DOMAIN pending')
        /\ UNCHANGED <<exists, groups>>
    BY <1>5, ReadNewKeeps DEF Listen
  <2>2. Bounds' /\ GroupFormed'
    BY <1>0, <1>5, <1>k, <2>1 DEF Listen, Free, stream, Bounds, GroupFormed
  <2>3. HandsTyped' /\ HandsFormed'
    BY <1>0, <1>5, <1>k, <2>1, GiveKeeps DEF Listen, Free, stream, GroupFormed
  <2> QED
    BY <2>2, <2>3
<1>6. ASSUME NEW c \in Consumers, ListenUnheard(c) PROVE Kept
  <2>1. /\ last' \in last .. added
        /\ DOMAIN pending' \subseteq 1 .. last' /\ pending' \in Ages(DOMAIN pending')
        /\ UNCHANGED <<exists, groups>>
    BY <1>6, ReadNewKeeps DEF ListenUnheard
  <2>2. Bounds' /\ GroupFormed'
    BY <1>0, <1>6, <1>k, <2>1 DEF ListenUnheard, Free, Fault, stream, Bounds, GroupFormed
  <2>3. HandsTyped' /\ HandsFormed'
    BY <1>6, <1>k, <2>1, SameHands DEF ListenUnheard, stream
  <2> QED
    BY <2>2, <2>3
<1>7. ASSUME NEW c \in Consumers, ClaimStale(c) PROVE Kept
  <2>1. /\ Claimed \in SUBSET (1 .. added)
        /\ DOMAIN pending' \subseteq 1 .. last /\ pending' \in Ages(DOMAIN pending')
        /\ UNCHANGED <<last, exists, groups>>
    BY <1>7, ClaimKeeps DEF ClaimStale
  <2>2. Bounds' /\ GroupFormed'
    BY <1>0, <1>7, <1>k, <2>1 DEF ClaimStale, Free, stream, Bounds, GroupFormed
  <2>3. HandsTyped' /\ HandsFormed'
    BY <1>0, <1>7, <1>k, <2>1, GiveKeeps DEF ClaimStale, Free, stream, GroupFormed
  <2> QED
    BY <2>2, <2>3
<1>8. ASSUME NEW c \in Consumers, ClaimUnheard(c) PROVE Kept
  <2>1. /\ DOMAIN pending' \subseteq 1 .. last /\ pending' \in Ages(DOMAIN pending')
        /\ UNCHANGED <<last, exists, groups>>
    BY <1>8, ClaimKeeps DEF ClaimUnheard
  <2>2. Bounds' /\ GroupFormed'
    BY <1>0, <1>8, <1>k, <2>1 DEF ClaimUnheard, Free, Fault, stream, Bounds, GroupFormed
  <2>3. HandsTyped' /\ HandsFormed'
    BY <1>8, <1>k, <2>1, SameHands DEF ClaimUnheard, stream
  <2> QED
    BY <2>2, <2>3
<1>9. ASSUME NEW c \in Consumers, Handle(c) PROVE Kept
  <2>1. Current(c) \in 1 .. added
    BY <1>9, InHand DEF Handle
  <2>2. Bounds' /\ GroupFormed'
    BY <1>0, <1>9, <2>1 DEF Handle, stream, group, Bounds, GroupFormed
  <2> QED
    BY <1>9, <2>2, HandleKeeps
<1>x. ASSUME NEW e, XAck(e)
      PROVE  /\ UNCHANGED <<exists, last, groups>>
             /\ DOMAIN pending' \subseteq 1 .. last /\ pending' \in Ages(DOMAIN pending')
  BY <1>0, <1>x DEF XAck, Restrict, Bounds, Ages
<1>d. ASSUME NEW c \in Consumers, hands[c].done PROVE hands[c].how # "none"
  BY <1>d DEF StreamInv, HandsFormed
<1>10. ASSUME NEW c \in Consumers, Ack(c) PROVE Kept
  <2>1. /\ UNCHANGED <<exists, last, groups>>
        /\ DOMAIN pending' \subseteq 1 .. last /\ pending' \in Ages(DOMAIN pending')
    BY <1>10, <1>x DEF Ack
  <2>2. Bounds' /\ GroupFormed'
    BY <1>0, <1>10, <2>1 DEF Ack, stream, Bounds, GroupFormed
  <2>3. HandsTyped' /\ HandsFormed'
    BY <1>10, <1>d, <2>1, AdvanceKeeps DEF Ack, stream
  <2> QED
    BY <2>2, <2>3
<1>11. ASSUME NEW c \in Consumers, AckFails(c) PROVE Kept
  <2>1. /\ UNCHANGED <<exists, last, groups>>
        /\ DOMAIN pending' \subseteq 1 .. last /\ pending' \in Ages(DOMAIN pending')
    BY <1>0, <1>11, <1>x DEF AckFails, group, Bounds
  <2>2. Bounds' /\ GroupFormed'
    BY <1>0, <1>11, <1>k, <2>1 DEF AckFails, Fault, stream, Bounds, GroupFormed
  <2>3. HandsTyped' /\ HandsFormed'
    BY <1>11, <2>1, GiveKeeps DEF AckFails, stream
  <2> QED
    BY <2>2, <2>3
<1>12. ASSUME NEW c \in Consumers, Skip(c) PROVE Kept
  <2>1. Bounds' /\ GroupFormed'
    BY <1>0, <1>12, <1>k DEF Skip, Fault, stream, group, Bounds, GroupFormed
  <2>2. HandsTyped' /\ HandsFormed'
    BY <1>12, AdvanceKeeps DEF Skip, stream, group
  <2> QED
    BY <2>1, <2>2
<1>13. ASSUME NEW c \in Consumers, Leave(c) PROVE Kept
  <2>1. Bounds' /\ GroupFormed'
    BY <1>0, <1>13, <1>k DEF Leave, Fault, stream, group, Bounds, GroupFormed
  <2>2. HandsTyped' /\ HandsFormed'
    BY <1>13, GiveKeeps DEF Leave, stream, group
  <2> QED
    BY <2>1, <2>2
<1>14. ASSUME Tick PROVE Kept
  <2>1. Bounds' /\ GroupFormed'
    BY <1>0, <1>14, TickKeeps DEF Tick, stream, Bounds, GroupFormed
  <2> QED
    BY <1>14, <2>1, TickKeeps
<1>15. ASSUME UNCHANGED vars PROVE Kept
  <2>1. Bounds' /\ GroupFormed'
    BY <1>0, <1>15 DEF vars, Bounds, GroupFormed
  <2> QED
    BY <1>15, <1>k, <2>1, SameHands DEF vars
<1>16. Kept
  BY <1>1, <1>2, <1>3, <1>4, <1>5, <1>6, <1>7, <1>8, <1>9, <1>10, <1>11, <1>12, <1>13,
     <1>14, <1>15 DEF Next
<1> QED
  BY <1>16 DEF StreamInv, TypeOK, Bounds

\* The initial state satisfies it.
LEMMA StreamInit == Init => StreamInv
<1> SUFFICES ASSUME Init PROVE StreamInv
  OBVIOUS
<1>1. <<>> \in Ages(DOMAIN <<>>) /\ DOMAIN <<>> = {}
  BY DEF Ages
<1>2. Bounds
  <2>1. added \in 0 .. MaxEntries /\ groups \in 0 .. MaxGroups /\ faults \in 0 .. MaxFaults
    BY StreamAssumption DEF Init
  <2>2. first \in 1 .. added + 1 /\ last \in 0 .. added
    BY DEF Init
  <2>a. exists \in BOOLEAN
    BY DEF Init
  <2>3. pending \in Ages(DOMAIN pending) /\ DOMAIN pending \subseteq 1 .. last
    BY <1>1 DEF Init
  <2>4. handled \subseteq 1 .. added
    BY DEF Init
  <2> QED
    BY <2>1, <2>2, <2>3, <2>4, <2>a DEF Bounds
<1>a. GroupFormed
  BY DEF Init, GroupFormed
<1>3. \A c \in Consumers : hands[c] = EmptyHands /\ ~hands[c].done
  BY DEF Init, EmptyHands
<1>4. HandsTyped
  BY <1>3 DEF HandsTyped
<1>5. HandsFormed
  BY <1>3, EmptyIsHand DEF Init, HandsFormed
<1> QED
  BY <1>2, <1>4, <1>5, <1>a DEF StreamInv, TypeOK, Bounds

\* It holds in every state.
LEMMA StreamInvariance == Spec => []StreamInv
  BY StreamInit, StreamStep, PTL DEF Spec

\* The type invariant: what is pending was delivered, and a consumer holds entries of the
\* stream.
THEOREM TypeCorrect == Spec => []TypeOK
<1>1. StreamInv => TypeOK
  BY DEF StreamInv
<1> QED
  BY <1>1, StreamInvariance, PTL

----------------------------------------------------------------------------
(* The stream implements AtLeastOnce *)

\* The first state owes nothing.
LEMMA MapsInit == Init => Promise!Init
<1> SUFFICES ASSUME Init PROVE Promise!Init
  OBVIOUS
<1>1. Owed = {}
  BY DEF Init, Owed
<1> QED
  BY <1>1 DEF Init, Promise!Init

\* Where the group and the stream stay as they are nothing more or less is owed.
LEMMA SameOwed ==
    ASSUME UNCHANGED <<added, first, exists>>,
           \A e \in first .. added :
                (e > last \/ e \in DOMAIN pending) <=> (e > last' \/ e \in DOMAIN pending')
    PROVE  Owed' = Owed
  BY DEF Owed

\* Each step is one of AtLeastOnce or changes nothing that it can see.
LEMMA MapsStep == StreamInv /\ [Next]_vars => [Promise!Next]_(Promise!vars)
<1> SUFFICES ASSUME StreamInv, [Next]_vars PROVE Promise!Next \/ UNCHANGED Promise!vars
  OBVIOUS
<1> DEFINE Mapped == Promise!Next \/ UNCHANGED Promise!vars
<1>0. Bounds /\ GroupFormed /\ HandsFormed
  BY DEF StreamInv, TypeOK, Bounds
<1>k. /\ MaxEntries \in Nat /\ MaxLen \in Nat \ {0} /\ added \in 0 .. MaxEntries
      /\ first \in 1 .. added + 1 /\ last \in 0 .. added
  BY <1>0, StreamAssumption DEF Bounds
<1>1. ASSUME Add PROVE Mapped
  <2> DEFINE D == {e \in Owed : e < first'}
  <2>1. /\ added < MaxEntries /\ added' = added + 1 /\ first' \in first .. added' + 1
        /\ \A e \in Nat : e < first' => e < first \/ added' - e >= MaxLen
        /\ UNCHANGED <<exists, last, pending, handled>>
    BY <1>1, <1>k, TrimBounds DEF Add, group
  <2>2. D \in SUBSET Owed /\ \A e \in D : added' - e >= MaxLen
    BY <1>k, <2>1 DEF Owed
  <2>3. Owed' = (Owed \ D) \cup (IF exists THEN {added'} ELSE {})
    <3>1. CASE exists
      <4>1. first' <= added'
        BY <1>k, <1>1, <2>1, TrimBounds
      <4> QED
        BY <3>1, <4>1, <1>k, <2>1 DEF Owed
    <3>2. CASE ~exists
      BY <3>2, <2>1 DEF Owed
    <3> QED
      BY <3>1, <3>2
  <2>4. Promise!Accept
    BY <2>1, <2>2, <2>3 DEF Promise!Accept, Promise!Old
  <2> QED
    BY <2>4 DEF Promise!Next
<1>2. ASSUME Trim PROVE Mapped
  <2> DEFINE D == {e \in Owed : e < first'}
  <2>1. /\ first' \in first .. added + 1
        /\ \A e \in Nat : e < first' => e < first \/ added - e >= MaxLen
        /\ UNCHANGED <<added, exists, last, pending, handled>>
    BY <1>2, <1>k, TrimBounds DEF Trim, group
  <2>2. D \in SUBSET Owed /\ \A e \in D : added - e >= MaxLen
    BY <1>k, <2>1 DEF Owed
  <2>3. Owed' = Owed \ D
    BY <1>k, <2>1 DEF Owed
  <2>4. Promise!Shrink
    BY <2>1, <2>2, <2>3 DEF Promise!Shrink, Promise!Old
  <2> QED
    BY <2>4 DEF Promise!Next
<1>3. ASSUME EnsureGroup PROVE Mapped
  <2>1. /\ ~exists /\ exists' = TRUE /\ last' \in {0, added}
        /\ UNCHANGED <<added, first, pending, handled>>
    BY <1>3 DEF EnsureGroup, stream
  <2>2. DOMAIN pending = {}
    <3>1. last = 0 /\ DOMAIN pending \subseteq 1 .. last
      BY <1>0, <2>1 DEF Bounds, GroupFormed
    <3> QED
      BY <3>1
  <2>3. CASE last' = 0
    <3>1. Owed' = first .. added /\ first \in 1 .. added + 1
      BY <1>k, <2>1, <2>3 DEF Owed
    <3> QED
      BY <2>1, <3>1 DEF Promise!Next, Promise!Open
  <2>4. CASE last' = added
    <3>1. Owed' = (added + 1) .. added /\ added + 1 \in 1 .. added + 1
      BY <1>k, <2>1, <2>2, <2>4 DEF Owed
    <3> QED
      BY <2>1, <3>1 DEF Promise!Next, Promise!Open
  <2> QED
    BY <2>1, <2>3, <2>4
<1>4. ASSUME DestroyGroup PROVE Mapped
  <2>1. Owed' = {}
    BY <1>4 DEF DestroyGroup, Owed
  <2> QED
    BY <1>4, <2>1 DEF DestroyGroup, stream, Promise!Next, Promise!Close
<1>5. ASSUME UNCHANGED <<added, first, exists, handled>>,
             \A e \in first .. added :
                (e > last \/ e \in DOMAIN pending) <=> (e > last' \/ e \in DOMAIN pending')
      PROVE  Mapped
  <2>1. Owed' = Owed
    BY <1>5, SameOwed
  <2> QED
    BY <1>5, <2>1 DEF Promise!vars
<1>6. ASSUME NEW c \in Consumers, Listen(c) \/ ListenUnheard(c) PROVE Mapped
  BY <1>5, <1>6, ReadNewKeeps DEF Listen, ListenUnheard, stream
<1>7. ASSUME NEW c \in Consumers, ClaimStale(c) \/ ClaimUnheard(c) PROVE Mapped
  BY <1>5, <1>7, ClaimKeeps DEF ClaimStale, ClaimUnheard, stream
<1>8. ASSUME NEW c \in Consumers, Handle(c) PROVE Mapped
  <2>1. Current(c) \in 1 .. added
    BY <1>8, InHand DEF Handle
  <2>2. Owed' = Owed
    BY <1>8 DEF Handle, stream, group, Owed
  <2>3. Promise!Handle(Current(c))
    BY <1>8, <2>1, <2>2, <1>k DEF Handle, stream, group, Promise!Handle
  <2>4. Current(c) \in 1 .. MaxEntries
    BY <2>1, <1>k
  <2> QED
    BY <2>3, <2>4 DEF Promise!Next
<1>9. ASSUME NEW e \in handled, XAck(e), UNCHANGED <<added, first, handled>> PROVE Mapped
  <2>1. UNCHANGED <<exists, last>> /\ DOMAIN pending' = DOMAIN pending \ {e}
    BY <1>9 DEF XAck, Restrict
  <2>2. CASE e > last
    BY <1>5, <1>9, <1>k, <2>1, <2>2
  <2>3. CASE ~(e > last)
    <3>1. e \in 1 .. MaxEntries
      BY <1>0, <1>k DEF Bounds
    <3>2. Owed' = Owed \ {e}
      BY <1>9, <1>k, <2>1, <2>3 DEF Owed
    <3> QED
      BY <1>9, <2>1, <3>1, <3>2 DEF Promise!Next, Promise!Settle
  <2> QED
    BY <2>2, <2>3
<1>10. ASSUME NEW c \in Consumers, Ack(c) \/ AckFails(c) PROVE Mapped
  <2>1. Current(c) \in handled /\ UNCHANGED <<added, first, handled>>
    BY <1>0, <1>10 DEF Ack, AckFails, stream, HandsFormed
  <2>2. XAck(Current(c)) \/ UNCHANGED group
    BY <1>10 DEF Ack, AckFails
  <2>3. CASE UNCHANGED group
    BY <1>5, <2>1, <2>3 DEF group
  <2> QED
    BY <1>9, <2>1, <2>2, <2>3
<1>11. ASSUME UNCHANGED <<stream, group, handled>> PROVE Mapped
  BY <1>5, <1>11 DEF stream, group
<1>12. ASSUME NEW c \in Consumers, Skip(c) \/ Leave(c) PROVE Mapped
  BY <1>11, <1>12 DEF Skip, Leave
<1>13. ASSUME Tick PROVE Mapped
  BY <1>5, <1>13, TickKeeps DEF Tick, stream
<1>14. ASSUME UNCHANGED vars PROVE Mapped
  BY <1>11, <1>14 DEF vars, stream, group
<1> QED
  BY <1>1, <1>2, <1>3, <1>4, <1>6, <1>7, <1>8, <1>10, <1>12, <1>13, <1>14 DEF Next

\* At-least-once delivery: whatever is lost, claimed, skipped or killed, an entry leaves
\* the group handled, or trimmed with MaxLen newer ones behind it.
THEOREM AtLeastOnceDelivery == Spec => DeliversAtLeastOnce
  BY StreamInvariance, MapsInit, MapsStep, PTL DEF Spec, DeliversAtLeastOnce, Promise!Spec
----------------------------------------------------------------------------
(* Consumers that are on time have their messages alone *)

\* The strengthening: what a consumer got from the present group was delivered by it, and
\* has been pending no longer than the consumer has had it.
HandsDelivered ==
    exists => \A c \in Consumers : hands[c].group = groups =>
        \A e \in DOMAIN hands[c].ages :
            /\ e <= last
            /\ e \in DOMAIN pending => pending[e] <= hands[c].ages[e]

\* The part of a consumer's hands that it keeps: nothing, or some of the entries.
Keeps(c) ==
    \/ hands'[c] = EmptyHands
    \/ /\ hands'[c].group = hands[c].group
       /\ DOMAIN hands'[c].ages \subseteq DOMAIN hands[c].ages
       /\ \A e \in DOMAIN hands'[c].ages : hands'[c].ages[e] = hands[c].ages[e]

\* Of the entries delivered before, some stay pending, none with a longer idle time.
NoneIdler ==
    \A e \in DOMAIN pending' : e <= last => e \in DOMAIN pending /\ pending'[e] <= pending[e]

\* The numbers in the state.
LEMMA Numbers ==
    ASSUME StreamInv
    PROVE  /\ added \in Nat /\ last \in Nat /\ groups \in Nat /\ MinIdle \in Nat
           /\ \A e \in DOMAIN pending : e \in Nat /\ pending[e] \in Nat
           /\ \A c \in Consumers :
                /\ hands[c].group \in 0 .. groups
                /\ \A e \in DOMAIN hands[c].ages : e \in Nat /\ hands[c].ages[e] \in Nat
<1>1. /\ added \in Nat /\ last \in Nat /\ groups \in Nat /\ MinIdle \in Nat
      /\ DOMAIN pending \subseteq 1 .. last /\ pending \in Ages(DOMAIN pending)
      /\ HandsTyped
  BY StreamAssumption DEF StreamInv, TypeOK
<1>2. \A e \in DOMAIN pending : e \in Nat /\ pending[e] \in Nat
  BY <1>1 DEF Ages
<1>3. ASSUME NEW c \in Consumers
      PROVE  /\ hands[c].group \in 0 .. groups
             /\ \A e \in DOMAIN hands[c].ages : e \in Nat /\ hands[c].ages[e] \in Nat
  <2>1. CASE hands[c] = EmptyHands
    BY <1>1, <2>1 DEF EmptyHands
  <2>2. CASE hands[c] # EmptyHands
    <3>1. /\ DOMAIN hands[c].ages \in SUBSET (1 .. added) /\ hands[c].group \in 1 .. groups
          /\ hands[c].ages \in Ages(DOMAIN hands[c].ages)
      BY <1>1, <2>2 DEF HandsTyped
    <3>2. \A e \in DOMAIN hands[c].ages : hands[c].ages[e] \in 0 .. MinIdle
      BY <3>1 DEF Ages
    <3> QED
      BY <1>1, <3>1, <3>2
  <2> QED
    BY <2>1, <2>2
<1> QED
  BY <1>1, <1>2, <1>3

\* Nobody gets anything, and no pending entry becomes idler.
LEMMA NobodyGets ==
    ASSUME StreamInv, ExclusiveWhilePunctual, HandsDelivered,
           exists' => exists, groups' = groups, last' \in Int, exists' => last' >= last,
           pending' \in Ages(DOMAIN pending'), \A c \in Consumers : Keeps(c), NoneIdler
    PROVE  ExclusiveWhilePunctual' /\ HandsDelivered'
<1>1. ASSUME NEW c \in Consumers, NEW e \in DOMAIN hands'[c].ages
      PROVE  /\ e \in DOMAIN hands[c].ages /\ hands'[c].ages[e] = hands[c].ages[e]
             /\ hands'[c].group = hands[c].group
  <2>1. hands'[c] # EmptyHands
    BY <1>1 DEF EmptyHands
  <2> QED
    BY <1>1, <2>1 DEF Keeps
<1>2. ExclusiveWhilePunctual'
  BY <1>1 DEF ExclusiveWhilePunctual
<1>3. ASSUME exists', NEW c \in Consumers, hands'[c].group = groups',
             NEW e \in DOMAIN hands'[c].ages
      PROVE  e <= last' /\ (e \in DOMAIN pending' => pending'[e] <= hands'[c].ages[e])
  <2>1. /\ e \in DOMAIN hands[c].ages /\ hands'[c].ages[e] = hands[c].ages[e]
        /\ e <= last /\ (e \in DOMAIN pending => pending[e] <= hands[c].ages[e])
    BY <1>1, <1>3 DEF HandsDelivered
  <2>2. e <= last'
    BY <1>3, <2>1, Numbers
  <2>3. ASSUME e \in DOMAIN pending'
        PROVE  pending'[e] <= hands'[c].ages[e]
    <3>1. e \in DOMAIN pending /\ pending'[e] <= pending[e] /\ pending[e] <= hands[c].ages[e]
      BY <2>1, <2>3 DEF NoneIdler
    <3>2. pending[e] \in Nat /\ hands[c].ages[e] \in Nat /\ pending'[e] \in Nat
      BY <2>1, <2>3, <3>1, Numbers DEF Ages
    <3> QED
      BY <2>1, <3>1, <3>2
  <2> QED
    BY <2>2, <2>3
<1>4. HandsDelivered'
  BY <1>3 DEF HandsDelivered
<1> QED
  BY <1>2, <1>4

\* A consumer gets entries that were never delivered, or pending for min_idle_ms.
LEMMA OneGets ==
    ASSUME StreamInv, ExclusiveWhilePunctual, HandsDelivered,
           exists, groups' = groups, last' \in Int, last' >= last,
           pending' \in Ages(DOMAIN pending'), NoneIdler,
           NEW c \in Consumers, NEW how, NEW E \in SUBSET (1 .. added),
           E # {} => Give(c, how, E), E = {} => Give(c, how, {}),
           \A e \in E : /\ e <= last' /\ e \in DOMAIN pending' /\ pending'[e] = 0
                        /\ e > last \/ (e \in DOMAIN pending /\ pending[e] >= MinIdle)
    PROVE  ExclusiveWhilePunctual' /\ HandsDelivered'
<1>0. hands \in [Consumers -> Hand]
  BY DEF StreamInv, HandsFormed
<1>1. \A d \in Consumers : d # c => hands'[d] = hands[d]
  BY <1>0 DEF Give
<1>2. CASE E = {}
  <2>1. hands'[c] = EmptyHands
    BY <1>0, <1>2 DEF Give
  <2>2. \A d \in Consumers : Keeps(d)
    BY <1>1, <2>1 DEF Keeps
  <2> QED
    BY <2>2, NobodyGets
<1>3. CASE E # {}
  <2>1. hands'[c].group = groups /\ hands'[c].ages = [e \in E |-> 0]
    BY <1>0, <1>3 DEF Give
  <2>2. ASSUME NEW d \in Consumers, d # c, hands[d].group = groups,
               NEW e \in DOMAIN hands[d].ages, e \in E
        PROVE  hands[d].ages[e] >= MinIdle
    <3>1. e <= last /\ (e \in DOMAIN pending => pending[e] <= hands[d].ages[e])
      BY <2>2 DEF HandsDelivered
    <3>2. e \in DOMAIN pending /\ pending[e] >= MinIdle
      BY <2>2, <3>1, Numbers
    <3> QED
      BY <2>2, <3>1, <3>2, Numbers
  <2>3. ASSUME NEW d \in Consumers, d # c, hands'[d].group = groups,
               NEW e \in DOMAIN hands'[c].ages \cap DOMAIN hands'[d].ages
        PROVE  hands'[d].ages[e] >= MinIdle
    BY <1>1, <2>1, <2>2, <2>3
  <2>4. ExclusiveWhilePunctual'
    <3> SUFFICES ASSUME NEW x \in Consumers, NEW y \in Consumers, x # y,
                        hands'[x].group = hands'[y].group,
                        NEW e \in DOMAIN hands'[x].ages \cap DOMAIN hands'[y].ages
                 PROVE  hands'[x].ages[e] >= MinIdle \/ hands'[y].ages[e] >= MinIdle
      BY DEF ExclusiveWhilePunctual
    <3>1. CASE x = c
      BY <2>1, <2>3, <3>1
    <3>2. CASE y = c
      BY <2>1, <2>3, <3>2
    <3>3. CASE x # c /\ y # c
      BY <1>1, <3>3 DEF ExclusiveWhilePunctual
    <3> QED
      BY <3>1, <3>2, <3>3
  <2>5. HandsDelivered'
    <3> SUFFICES ASSUME NEW d \in Consumers, hands'[d].group = groups,
                        NEW e \in DOMAIN hands'[d].ages
                 PROVE  e <= last' /\ (e \in DOMAIN pending' => pending'[e] <= hands'[d].ages[e])
      BY DEF HandsDelivered
    <3>1. CASE d = c
      <4>1. e \in E /\ hands'[d].ages[e] = 0
        BY <2>1, <3>1
      <4>2. e <= last' /\ pending'[e] = 0
        BY <4>1
      <4> QED
        BY <4>1, <4>2
    <3>2. CASE d # c
      <4>1. /\ hands[d].group = groups /\ e \in DOMAIN hands[d].ages
            /\ hands'[d].ages[e] = hands[d].ages[e]
        BY <1>1, <3>2
      <4>2. e <= last /\ (e \in DOMAIN pending => pending[e] <= hands[d].ages[e])
        BY <4>1 DEF HandsDelivered
      <4>3. e <= last'
        BY <4>1, <4>2, Numbers
      <4>4. ASSUME e \in DOMAIN pending' PROVE pending'[e] <= hands[d].ages[e]
        <5>1. e \in DOMAIN pending /\ pending'[e] <= pending[e]
          BY <4>2, <4>4 DEF NoneIdler
        <5>2. pending[e] \in Nat /\ hands[d].ages[e] \in Nat /\ pending'[e] \in Nat
          BY <4>1, <4>4, <5>1, Numbers DEF Ages
        <5> QED
          BY <4>2, <5>1, <5>2
      <4> QED
        BY <4>1, <4>3, <4>4
    <3> QED
      BY <3>1, <3>2
  <2> QED
    BY <2>4, <2>5
<1> QED
  BY <1>2, <1>3

\* A command that reads new entries makes them pending, as if just delivered.
LEMMA ReadNewFresh ==
    ASSUME StreamInv, ReadNew(Oldest(Fresh, Count))
    PROVE  /\ NoneIdler
           /\ \A e \in Oldest(Fresh, Count) :
                e > last /\ e <= last' /\ e \in DOMAIN pending' /\ pending'[e] = 0
<1> DEFINE E == Oldest(Fresh, Count)
<1>1. E \subseteq 1 .. added /\ DOMAIN pending' \subseteq 1 .. last' /\ last' \in last .. added
  BY ReadNewKeeps
<1>2. \A e \in E : e > last
  BY DEF Oldest, Fresh
<1>3. pending' = [e \in DOMAIN pending \cup E |-> IF e \in E THEN 0 ELSE pending[e]]
  BY DEF ReadNew
<1> HIDE DEF E
<1>4. \A e \in E : e \in DOMAIN pending' /\ pending'[e] = 0
  BY <1>3
<1>5. \A e \in E : e <= last'
  BY <1>1, <1>4
<1>6. NoneIdler
  <2> SUFFICES ASSUME NEW e \in DOMAIN pending', e <= last
               PROVE  e \in DOMAIN pending /\ pending'[e] <= pending[e]
    BY DEF NoneIdler
  <2>1. e \notin E
    BY <1>1, <1>2, Numbers
  <2>2. e \in DOMAIN pending /\ pending'[e] = pending[e]
    BY <1>3, <2>1
  <2> QED
    BY <2>2, Numbers
<1> QED
  BY <1>2, <1>4, <1>5, <1>6 DEF E

\* A claim takes stale entries, and makes them as if just delivered.
LEMMA ClaimFresh ==
    ASSUME StreamInv, Claim
    PROVE  /\ NoneIdler
           /\ \A e \in Claimed : /\ e <= last /\ e \in DOMAIN pending' /\ pending'[e] = 0
                                 /\ e \in DOMAIN pending /\ pending[e] >= MinIdle
<1>1. /\ Claimed \subseteq Reached /\ Reached \subseteq DOMAIN pending
      /\ \A e \in Reached : e < first \/ pending[e] >= MinIdle
      /\ \A e \in Claimed : e >= first
  BY DEF Claimed, Reached, Oldest, Stale
<1>2. first \in Nat /\ DOMAIN pending \subseteq 1 .. last
  BY StreamAssumption DEF StreamInv, TypeOK
<1>3. \A e \in Claimed : e \in DOMAIN pending /\ pending[e] >= MinIdle /\ e <= last
  BY <1>1, <1>2, Numbers
<1>4. pending' = [e \in (DOMAIN pending \ Reached) \cup Claimed |->
                        IF e \in Claimed THEN 0 ELSE pending[e]]
  BY DEF Claim
<1>5. \A e \in Claimed : e \in DOMAIN pending' /\ pending'[e] = 0
  BY <1>4
<1>6. NoneIdler
  <2> SUFFICES ASSUME NEW e \in DOMAIN pending', e <= last
               PROVE  e \in DOMAIN pending /\ pending'[e] <= pending[e]
    BY DEF NoneIdler
  <2>1. e \in DOMAIN pending /\ (pending'[e] = 0 \/ pending'[e] = pending[e])
    BY <1>1, <1>4
  <2> QED
    BY <2>1, Numbers
<1> QED
  BY <1>3, <1>5, <1>6

\* Every step keeps both.
LEMMA ExclusiveStep ==
    StreamInv /\ ExclusiveWhilePunctual /\ HandsDelivered /\ [Next]_vars
        => (ExclusiveWhilePunctual /\ HandsDelivered)'
<1> SUFFICES ASSUME StreamInv, ExclusiveWhilePunctual, HandsDelivered, [Next]_vars
             PROVE  ExclusiveWhilePunctual' /\ HandsDelivered'
  OBVIOUS
<1> DEFINE Kept == ExclusiveWhilePunctual' /\ HandsDelivered'
<1>0. /\ StreamInv' /\ pending' \in Ages(DOMAIN pending')
      /\ last' \in Int /\ last \in Int /\ last <= last /\ hands \in [Consumers -> Hand]
  BY StreamStep, Numbers DEF StreamInv, TypeOK, HandsFormed
<1>a. UNCHANGED hands => \A c \in Consumers : Keeps(c)
  BY DEF Keeps
<1>b. UNCHANGED pending => NoneIdler
  BY Numbers DEF NoneIdler
<1>1. ASSUME Add \/ Trim \/ UNCHANGED vars PROVE Kept
  <2>1. UNCHANGED <<exists, groups, last, hands, pending>>
    BY <1>1 DEF Add, Trim, vars, group
  <2> QED
    BY <1>0, <1>a, <1>b, <2>1, NobodyGets
<1>2. ASSUME EnsureGroup PROVE Kept
  <2>1. UNCHANGED hands /\ groups' = groups + 1
    BY <1>2 DEF EnsureGroup
  <2>2. \A c \in Consumers : hands'[c].group # groups'
    BY <2>1, Numbers
  <2> QED
    BY <2>1, <2>2 DEF ExclusiveWhilePunctual, HandsDelivered
<1>3. ASSUME DestroyGroup PROVE Kept
  <2>1. UNCHANGED hands /\ ~exists'
    BY <1>3 DEF DestroyGroup
  <2> QED
    BY <2>1 DEF ExclusiveWhilePunctual, HandsDelivered
<1>4. ASSUME NEW c \in Consumers, Listen(c) PROVE Kept
  <2>1. /\ exists /\ ReadNew(Oldest(Fresh, Count)) /\ Give(c, "listen", Oldest(Fresh, Count))
    BY <1>4 DEF Listen, Free
  <2>2. /\ Oldest(Fresh, Count) \in SUBSET (1 .. added) /\ last' \in last .. added
        /\ groups' = groups
    BY <2>1, ReadNewKeeps
  <2>3. last' >= last
    BY <1>0, <2>2
  <2> QED
    BY <1>0, <2>1, <2>2, <2>3, ReadNewFresh, OneGets
<1>5. ASSUME NEW c \in Consumers, ListenUnheard(c) PROVE Kept
  <2>1. exists /\ ReadNew(Oldest(Fresh, Count)) /\ UNCHANGED hands
    BY <1>5 DEF ListenUnheard, Free
  <2>2. last' \in last .. added /\ groups' = groups
    BY <2>1, ReadNewKeeps
  <2>3. last' >= last
    BY <1>0, <2>2
  <2> QED
    BY <1>0, <1>a, <2>1, <2>2, <2>3, ReadNewFresh, NobodyGets
<1>6. ASSUME NEW c \in Consumers, ClaimStale(c) PROVE Kept
  <2>1. exists /\ Claim /\ Give(c, "claim", Claimed)
    BY <1>6 DEF ClaimStale, Free
  <2>2. Claimed \in SUBSET (1 .. added) /\ last' = last /\ groups' = groups
    BY <2>1, ClaimKeeps
  <2> QED
    BY <1>0, <2>1, <2>2, ClaimFresh, OneGets
<1>7. ASSUME NEW c \in Consumers, ClaimUnheard(c) PROVE Kept
  <2>1. exists /\ Claim /\ UNCHANGED hands
    BY <1>7 DEF ClaimUnheard, Free
  <2>2. last' = last /\ groups' = groups
    BY <2>1, ClaimKeeps
  <2> QED
    BY <1>0, <1>a, <2>1, <2>2, ClaimFresh, NobodyGets
<1>c. ASSUME NEW e, XAck(e) PROVE NoneIdler /\ UNCHANGED <<exists, last, groups>>
  BY <1>c, Numbers DEF XAck, NoneIdler, Restrict
<1>d. ASSUME NEW c \in Consumers, Advance(c) \/ Give(c, "none", {})
      PROVE  \A d \in Consumers : Keeps(d)
  <2>1. \A d \in Consumers : d # c => Keeps(d)
    BY <1>0, <1>d DEF Advance, Give, Keeps
  <2> DEFINE rest == DOMAIN hands[c].ages \ {Current(c)}
             h == [hands[c] EXCEPT !.ages = Restrict(hands[c].ages, rest), !.done = FALSE]
  <2>2. hands[c] \in Hand
    BY <1>0
  <2>3. /\ h.group = hands[c].group /\ h.ages = Restrict(hands[c].ages, rest)
    BY <2>2 DEF Hand
  <2>4. hands'[c] = EmptyHands \/ hands'[c] = h
    BY <1>0, <1>d DEF Advance, Give
  <2> HIDE DEF h
  <2>5. Keeps(c)
    BY <2>3, <2>4 DEF Keeps, Restrict
  <2> QED
    BY <2>1, <2>5
<1>8. ASSUME NEW c \in Consumers, Handle(c) PROVE Kept
  <2>1. UNCHANGED <<exists, last, groups, pending>>
    BY <1>8 DEF Handle, group
  <2>2. \A d \in Consumers : Keeps(d)
    <3>1. hands'[c] = [hands[c] EXCEPT !.done = TRUE] /\ hands[c] \in Hand
          /\ \A d \in Consumers : d # c => hands'[d] = hands[d]
      BY <1>0, <1>8 DEF Handle
    <3>2. hands'[c].group = hands[c].group /\ hands'[c].ages = hands[c].ages
      BY <3>1 DEF Hand
    <3> QED
      BY <3>1, <3>2 DEF Keeps
  <2> QED
    BY <1>0, <1>b, <2>1, <2>2, NobodyGets
<1>9. ASSUME NEW c \in Consumers, Ack(c) \/ AckFails(c) \/ Skip(c) \/ Leave(c) PROVE Kept
  <2>1. \A d \in Consumers : Keeps(d)
    BY <1>9, <1>d DEF Ack, AckFails, Skip, Leave
  <2>2. XAck(Current(c)) \/ UNCHANGED group
    BY <1>9 DEF Ack, AckFails, Skip, Leave
  <2>3. NoneIdler /\ UNCHANGED <<exists, last, groups>>
    BY <1>b, <1>c, <2>2 DEF group
  <2> QED
    BY <1>0, <2>1, <2>3, NobodyGets
<1>10. ASSUME Tick PROVE Kept
  <2>1. UNCHANGED <<exists, last, groups>> /\ pending' = Older(pending)
    BY <1>10 DEF Tick
  <2>2. ASSUME NEW c \in Consumers
        PROVE  hands'[c].group = hands[c].group /\ hands'[c].ages = Older(hands[c].ages)
    <3>1. hands'[c] = [hands[c] EXCEPT !.ages = Older(hands[c].ages)] /\ hands[c] \in Hand
      BY <1>0, <1>10 DEF Tick
    <3> QED
      BY <3>1 DEF Hand
  <2>3. \A f : /\ DOMAIN Older(f) = DOMAIN f
               /\ \A e \in DOMAIN f :
                    Older(f)[e] = IF f[e] < MinIdle THEN f[e] + 1 ELSE MinIdle
    BY DEF Older
  <2>4. MinIdle \in Nat
    BY Numbers
  <2>5. ExclusiveWhilePunctual'
    <3> SUFFICES ASSUME NEW x \in Consumers, NEW y \in Consumers, x # y,
                        hands'[x].group = hands'[y].group,
                        NEW e \in DOMAIN hands'[x].ages \cap DOMAIN hands'[y].ages
                 PROVE  hands'[x].ages[e] >= MinIdle \/ hands'[y].ages[e] >= MinIdle
      BY DEF ExclusiveWhilePunctual
    <3>1. /\ hands[x].group = hands[y].group
          /\ e \in DOMAIN hands[x].ages \cap DOMAIN hands[y].ages
      BY <2>2, <2>3
    <3>2. hands[x].ages[e] >= MinIdle \/ hands[y].ages[e] >= MinIdle
      BY <3>1 DEF ExclusiveWhilePunctual
    <3>3. hands[x].ages[e] \in Nat /\ hands[y].ages[e] \in Nat
      BY <3>1, Numbers
    <3>4. ASSUME NEW z \in {x, y}, hands[z].ages[e] >= MinIdle
          PROVE  hands'[z].ages[e] >= MinIdle
      BY <2>2, <2>3, <2>4, <3>1, <3>3, <3>4
    <3> QED
      BY <3>2, <3>4
  <2>6. HandsDelivered'
    <3> SUFFICES ASSUME exists, NEW c \in Consumers, hands'[c].group = groups,
                        NEW e \in DOMAIN hands'[c].ages
                 PROVE  e <= last /\ (e \in DOMAIN pending' => pending'[e] <= hands'[c].ages[e])
      BY <2>1 DEF HandsDelivered
    <3>1. hands[c].group = groups /\ e \in DOMAIN hands[c].ages
      BY <2>2, <2>3
    <3>2. e <= last /\ (e \in DOMAIN pending => pending[e] <= hands[c].ages[e])
      BY <3>1 DEF HandsDelivered
    <3>3. ASSUME e \in DOMAIN pending' PROVE pending'[e] <= hands'[c].ages[e]
      <4>1. e \in DOMAIN pending /\ pending[e] \in Nat /\ hands[c].ages[e] \in Nat
        BY <2>1, <2>3, <3>1, <3>3, Numbers
      <4>2. /\ pending'[e] = IF pending[e] < MinIdle THEN pending[e] + 1 ELSE MinIdle
            /\ hands'[c].ages[e] =
                  IF hands[c].ages[e] < MinIdle THEN hands[c].ages[e] + 1 ELSE MinIdle
        BY <2>1, <2>2, <2>3, <3>1, <4>1
      <4> QED
        BY <2>4, <3>2, <4>1, <4>2
    <3> QED
      BY <3>2, <3>3
  <2> QED
    BY <2>5, <2>6
<1> QED
  BY <1>1, <1>2, <1>3, <1>4, <1>5, <1>6, <1>7, <1>8, <1>9, <1>10 DEF Next

\* Exclusive while punctual: two consumers have the same message in hand only when one of
\* them has had it for min_idle_ms.
THEOREM PunctualOwnersAlone == Spec => []ExclusiveWhilePunctual
<1>1. Init => ExclusiveWhilePunctual /\ HandsDelivered
  <2>1. Init => ~exists /\ \A c \in Consumers : DOMAIN hands[c].ages = {}
    BY DEF Init, EmptyHands
  <2> QED
    BY <2>1 DEF ExclusiveWhilePunctual, HandsDelivered
<1> QED
  BY <1>1, StreamInvariance, ExclusiveStep, PTL DEF Spec
=============================================================================
