----------------------------- MODULE BloomFilter -----------------------------
(***************************************************************************)
(* BloomFilter and its async form: the bits of one string.  add() and      *)
(* exists() are pipelines without MULTI, whose commands those of other     *)
(* users may come between; add_many() and exists_many() are as many calls  *)
(* in one pipeline.  The order of an item's bits makes no difference.      *)
(***************************************************************************)
EXTENDS FiniteSets

CONSTANTS
    Users,
    OffsetsOf      \* the bits of each item

BloomAssumption == \A item \in DOMAIN OffsetsOf : OffsetsOf[item] # {}

VARIABLES
    bits,       \* the bits that are set
    probes,     \* the call under way of each user, with the bits it has yet to come to
    present     \* history: items that were added and not reset since

vars == <<bits, probes, present>>

BloomItems == DOMAIN OffsetsOf
AllBits == UNION {OffsetsOf[item] : item \in BloomItems}
Calls == [op : {"add", "exists"}, item : BloomItems, todo : SUBSET AllBits,
          found : BOOLEAN, sure : BOOLEAN]
NoProbe == [op |-> "none"]

TypeOK ==
    /\ bits \subseteq AllBits
    /\ probes \in [Users -> {NoProbe} \cup Calls]
    /\ present \subseteq BloomItems

Init == bits = {} /\ probes = [u \in Users |-> NoProbe] /\ present = {}

\* sure is history: no reset() has come since an add() began, or since an exists() of a
\* present item did.
Begin(u, op, item) ==
    /\ probes[u] = NoProbe
    /\ probes' = [probes EXCEPT ![u] = [op |-> op, item |-> item, todo |-> OffsetsOf[item],
                    found |-> TRUE, sure |-> op = "add" \/ item \in present]]
    /\ UNCHANGED <<bits, present>>

Done(u, bit) == probes' = [probes EXCEPT ![u].todo = @ \ {bit}]

SetBit(u, bit) ==
    /\ probes[u].op = "add" /\ bit \in probes[u].todo
    /\ bits' = bits \cup {bit}
    /\ Done(u, bit)
    /\ UNCHANGED present

GetBit(u, bit) ==
    /\ probes[u].op = "exists" /\ bit \in probes[u].todo
    /\ probes' = [probes EXCEPT ![u].todo = @ \ {bit}, ![u].found = @ /\ bit \in bits]
    /\ UNCHANGED <<bits, present>>

\* The pipeline is sent again from its start.
Resend(u) ==
    /\ probes[u] # NoProbe
    /\ probes' = [probes EXCEPT ![u].todo = OffsetsOf[probes[u].item], ![u].found = TRUE]
    /\ UNCHANGED <<bits, present>>

\* Mutant: a pipeline that breaks counts as carried out.
ReturnAnyway(u) ==
    /\ probes[u] # NoProbe
    /\ present' = IF probes[u].op = "add" /\ probes[u].sure
                  THEN present \cup {probes[u].item} ELSE present
    /\ probes' = [probes EXCEPT ![u] = NoProbe]
    /\ UNCHANGED bits

Return(u) ==
    /\ probes[u] # NoProbe /\ probes[u].todo = {}
    /\ present' = IF probes[u].op = "add" /\ probes[u].sure
                  THEN present \cup {probes[u].item} ELSE present
    /\ probes' = [probes EXCEPT ![u] = NoProbe]
    /\ UNCHANGED bits

\* The connection breaks: the error is raised, and some of the bits are set.
Break(u) ==
    /\ probes[u] # NoProbe
    /\ probes' = [probes EXCEPT ![u] = NoProbe]
    /\ UNCHANGED <<bits, present>>

\* A reset between the bits of an add leaves a part of the item.
Reset ==
    /\ bits' = {} /\ present' = {}
    /\ probes' = [u \in Users |-> IF probes[u] = NoProbe THEN NoProbe
                                  ELSE [probes[u] EXCEPT !.sure = FALSE]]

Next ==
    \/ \E u \in Users :
        \/ \E item \in BloomItems : Begin(u, "add", item) \/ Begin(u, "exists", item)
        \/ \E bit \in AllBits : SetBit(u, bit) \/ GetBit(u, bit)
        \/ Resend(u) \/ Return(u) \/ Break(u)
    \/ Reset

Spec == Init /\ [][Next]_vars

----------------------------------------------------------------------------
(* Properties *)

\* There are no false negatives: an exists() that begins after an add() of the item
\* has returned finds it, whatever else goes on, unless a reset() overlaps one of them.
NoFalseNegative ==
    /\ \A u \in Users : (probes[u].op = "exists" /\ probes[u].sure) => probes[u].found
    /\ \A item \in present : OffsetsOf[item] \subseteq bits
=============================================================================
