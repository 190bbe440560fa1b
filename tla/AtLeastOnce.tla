----------------------------- MODULE AtLeastOnce -----------------------------
(***************************************************************************)
(* What a consumer group on a bounded log promises its users: as long as   *)
(* the group exists, an entry it was given is owed to them until one of    *)
(* them has handled it; only the bound of the log takes one away sooner,   *)
(* and never one of the newest Keep.  An entry may be handled many times.  *)
(***************************************************************************)
EXTENDS Integers

CONSTANTS
    Keep,      \* the number of entries that the log holds at least
    Newest     \* the entries are the numbers up to this one, in order

VARIABLES
    newest,    \* the last entry of the log
    open,      \* the group exists
    owed,      \* the entries that must still be handled
    handled    \* the entries that were handled at least once

vars == <<newest, open, owed, handled>>

Init == newest = 0 /\ open = FALSE /\ owed = {} /\ handled = {}

\* Entries that the log may have let go.
Old(D, last) == \A e \in D : last - e >= Keep

Accept ==
    /\ newest < Newest /\ newest' = newest + 1
    /\ \E D \in SUBSET owed :
        /\ Old(D, newest')
        /\ owed' = (owed \ D) \cup (IF open THEN {newest'} ELSE {})
    /\ UNCHANGED <<open, handled>>

Shrink ==
    /\ \E D \in SUBSET owed : Old(D, newest) /\ owed' = owed \ D
    /\ UNCHANGED <<newest, open, handled>>

Handle(e) ==
    /\ e <= newest
    /\ handled' = handled \cup {e}
    /\ UNCHANGED <<newest, open, owed>>

Settle(e) ==
    /\ e \in handled
    /\ owed' = owed \ {e}
    /\ UNCHANGED <<newest, open, handled>>

\* A new group owes every entry of the log from some point on, or only new ones.
Open ==
    /\ ~open /\ open' = TRUE
    /\ \E first \in 1 .. newest + 1 : owed' = first .. newest
    /\ UNCHANGED <<newest, handled>>

Close ==
    /\ open /\ open' = FALSE
    /\ owed' = {}
    /\ UNCHANGED <<newest, handled>>

Next == Accept \/ Shrink \/ Open \/ Close \/ \E e \in 1 .. Newest : Handle(e) \/ Settle(e)

Spec == Init /\ [][Next]_vars
=============================================================================
