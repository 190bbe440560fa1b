---------------------------- MODULE ReliableQueue ----------------------------
(***************************************************************************)
(* One ReliableQueue (AsyncReliableQueue's commands are the same): the     *)
(* queue list, the processing list, the consumers that move messages from  *)
(* one to the other, ack and nack them, and recover_stale, which moves     *)
(* them back.  The left end of a list is the head of its sequence.         *)
(*                                                                         *)
(* A consumer works as site-docs/modules/queue.en.md shows: it acks what   *)
(* it processed, and nacks when the processing or the ack raises.          *)
(***************************************************************************)
EXTENDS Integers, SequencesExt

CONSTANTS
    Messages,   \* a set of numbers: the producer puts them in their order
    Consumers,
    MaxItems,   \* the argument of recover_stale
    MaxNacks,   \* bound: how often the processing of a message may raise
    MaxFaults,  \* bound: lost commands, lost replies and kills
    None

ASSUME QueueAssumption ==
    /\ Messages \subseteq Nat
    /\ MaxItems \in Nat \ {0} /\ MaxNacks \in Nat /\ MaxFaults \in Nat
    /\ None \notin Messages

VARIABLES
    queue,       \* the list <name>:queue
    processing,  \* the list <name>:processing
    phase, held, \* each consumer's progress and its Message object
    left,        \* LMOVEs that a recover_stale under way may still do, 0 outside
    unsent,      \* messages still to be put
    stored,      \* history: messages that Redis received
    acked,       \* history: messages whose ack Redis executed
    nacks, faults,
    recovered,   \* history: recover_stale moved a message back
    repeated     \* history: a reply was lost, or a command sent twice

vars == <<queue, processing, phase, held, left, unsent, stored, acked, nacks, faults,
          recovered, repeated>>
lists == <<queue, processing>>
consumer == <<phase, held>>
history == <<stored, acked, recovered, repeated>>

TypeOK ==
    /\ queue \in Seq(Messages)
    /\ processing \in Seq(Messages)
    /\ phase \in [Consumers -> {"idle", "working", "ack_failed"}]
    /\ held \in [Consumers -> Messages \cup {None}]
    /\ \A c \in Consumers : held[c] = None <=> phase[c] = "idle"
    /\ left \in 0..MaxItems
    /\ unsent \subseteq Messages /\ stored \subseteq Messages /\ acked \subseteq Messages
    /\ nacks \in 0..MaxNacks /\ faults \in 0..MaxFaults
    /\ recovered \in BOOLEAN /\ repeated \in BOOLEAN

Init ==
    /\ queue = <<>> /\ processing = <<>>
    /\ phase = [c \in Consumers |-> "idle"]
    /\ held = [c \in Consumers |-> None]
    /\ left = 0
    /\ unsent = Messages
    /\ stored = {} /\ acked = {}
    /\ nacks = 0 /\ faults = 0
    /\ recovered = FALSE /\ repeated = FALSE

----------------------------------------------------------------------------
(* Commands *)

\* Mutant: RPUSH, the end that get() takes from.
RightPush(list, m) == Append(list, m)

LPush(list, m) == Cons(m, list)

\* Mutant: the oldest entry is removed, whatever it is.
PopOldest(list, m) == IF list = <<>> THEN list ELSE Front(list)

LRem(list, m) == RemoveFirst(list, m)

\* Mutant: a get that pops without keeping the message in processing.
PopOnly ==
    /\ queue # <<>>
    /\ queue' = Front(queue)
    /\ UNCHANGED processing

\* LMOVE queue processing RIGHT LEFT
Take ==
    /\ queue # <<>>
    /\ queue' = Front(queue)
    /\ processing' = LPush(processing, Last(queue))

\* LMOVE processing queue RIGHT LEFT
PutBack ==
    /\ processing # <<>>
    /\ processing' = Front(processing)
    /\ queue' = LPush(queue, Last(processing))

\* Mutant: the script pushes and forgets the processing list.
PushOnly(m) == queue' = LPush(queue, m) /\ UNCHANGED processing

\* NACK_SCRIPT: the push does not depend on what LREM removed.
Requeue(m) ==
    /\ processing' = LRem(processing, m)
    /\ queue' = LPush(queue, m)

Fault == faults < MaxFaults /\ faults' = faults + 1

----------------------------------------------------------------------------
(* Producer *)

Put(m) ==
    /\ m \in unsent
    /\ \A n \in unsent : m <= n
    /\ queue' = LPush(queue, m)
    /\ unsent' = unsent \ {m}
    /\ stored' = stored \cup {m}
    /\ UNCHANGED <<processing, consumer, left, acked, nacks, faults, recovered, repeated>>

\* The reply is lost: the driver sends the LPUSH again, or raises its error.
PutUnheard(m) ==
    /\ m \in unsent
    /\ \A n \in unsent : m <= n
    /\ Fault
    /\ queue' = LPush(queue, m)
    /\ unsent' \in {unsent, unsent \ {m}}
    /\ stored' = stored \cup {m}
    /\ repeated' = TRUE
    /\ UNCHANGED <<processing, consumer, left, acked, nacks, recovered>>

----------------------------------------------------------------------------
(* Consumers *)

Become(c, p, m) ==
    /\ phase' = [phase EXCEPT ![c] = p]
    /\ held' = [held EXCEPT ![c] = m]

Get(c) ==
    /\ phase[c] = "idle"
    /\ Take
    /\ Become(c, "working", Last(queue))
    /\ UNCHANGED <<left, unsent, history, nacks, faults>>

\* The message is moved, but get() raises the driver's error or moves another one.
GetUnheard(c) ==
    /\ phase[c] = "idle"
    /\ Fault
    /\ Take
    /\ repeated' = TRUE
    /\ UNCHANGED <<consumer, left, unsent, stored, acked, nacks, recovered>>

Ack(c) ==
    /\ phase[c] = "working"
    /\ processing' = LRem(processing, held[c])
    /\ acked' = acked \cup {held[c]}
    /\ Become(c, "idle", None)
    /\ UNCHANGED <<queue, left, unsent, stored, nacks, faults, recovered, repeated>>

\* ack() raises the driver's error; the LREM may have run.
AckFails(c) ==
    /\ phase[c] = "working"
    /\ Fault
    /\ \/ UNCHANGED <<processing, acked, repeated>>
       \/ /\ processing' = LRem(processing, held[c])
          /\ acked' = acked \cup {held[c]}
          /\ repeated' = TRUE
    /\ Become(c, "ack_failed", held[c])
    /\ UNCHANGED <<queue, left, unsent, stored, nacks, recovered>>

Nack(c) ==
    /\ \/ phase[c] = "ack_failed" /\ UNCHANGED nacks
       \/ phase[c] = "working" /\ nacks < MaxNacks /\ nacks' = nacks + 1
    /\ Requeue(held[c])
    /\ Become(c, "idle", None)
    /\ UNCHANGED <<left, unsent, history, faults>>

\* nack() raises the driver's error, or the script runs and is sent once more.
NackFails(c) ==
    /\ phase[c] # "idle"
    /\ Fault
    /\ \/ Become(c, "idle", None) /\ UNCHANGED <<lists, repeated>>
       \/ Become(c, "idle", None) /\ Requeue(held[c]) /\ repeated' = TRUE
       \/ Become(c, "ack_failed", held[c]) /\ Requeue(held[c]) /\ repeated' = TRUE
    /\ UNCHANGED <<left, unsent, stored, acked, nacks, recovered>>

\* The consumer is killed and starts again without its message.
Crash(c) ==
    /\ phase[c] # "idle"
    /\ Fault
    /\ Become(c, "idle", None)
    /\ UNCHANGED <<lists, left, unsent, history, nacks>>

----------------------------------------------------------------------------
(* recover_stale(max_items): one LMOVE at a time, the consumers running meanwhile *)

StartRecovery ==
    /\ left = 0
    /\ processing # <<>>
    /\ left' = MaxItems
    /\ UNCHANGED <<lists, consumer, unsent, history, nacks, faults>>

\* Mutant: the list is emptied without being pushed back.
DroppingRecover ==
    /\ left > 0
    /\ left' = 0
    /\ processing' = <<>>
    /\ recovered' = TRUE
    /\ UNCHANGED <<queue, consumer, unsent, stored, acked, nacks, faults, repeated>>

Recover ==
    /\ left > 0
    /\ \/ /\ PutBack
          /\ left' = left - 1
          /\ recovered' = TRUE
       \/ /\ processing = <<>>
          /\ left' = 0
          /\ UNCHANGED <<lists, recovered>>
    /\ UNCHANGED <<consumer, unsent, stored, acked, nacks, faults, repeated>>

\* The loop ends by the driver's error, before or after the move.
RecoverFails ==
    /\ left > 0
    /\ Fault
    /\ left' = 0
    /\ \/ PutBack /\ recovered' = TRUE
       \/ UNCHANGED <<lists, recovered>>
    /\ UNCHANGED <<consumer, unsent, stored, acked, nacks, repeated>>

----------------------------------------------------------------------------
Next ==
    \/ \E m \in Messages : Put(m) \/ PutUnheard(m)
    \/ \E c \in Consumers :
        \/ Get(c) \/ Ack(c) \/ Nack(c)
        \/ GetUnheard(c) \/ AckFails(c) \/ NackFails(c) \/ Crash(c)
    \/ StartRecovery \/ Recover \/ RecoverFails

(* Consumers keep consuming, and recover_stale is run again and again. *)
Fairness ==
    /\ \A c \in Consumers :
        WF_vars(Get(c)) /\ WF_vars(Ack(c)) /\ WF_vars(Nack(c))
    /\ WF_vars(StartRecovery) /\ WF_vars(Recover)

Spec == Init /\ [][Next]_vars
FairSpec == Spec /\ Fairness

----------------------------------------------------------------------------
(* Properties *)

\* At least once: whatever is lost or killed, a message that Redis received and
\* that no consumer acked is in one of the lists.
NoLoss == \A m \in stored \ acked : m \in ToSet(queue) \cup ToSet(processing)

Copies(list, m) == Cardinality({i \in DOMAIN list : list[i] = m})
Holders(m) == {c \in Consumers : held[c] = m}

\* Until recover_stale runs or a reply is lost, a message is in one place: once in
\* the lists until it is acked and nowhere afterwards, and with one consumer at most.
ExactlyOnceUntilRepeated ==
    ~(recovered \/ repeated) =>
        \A m \in stored :
            /\ Copies(queue, m) + Copies(processing, m) = IF m \in acked THEN 0 ELSE 1
            /\ Cardinality(Holders(m)) <= 1

\* Without faults nothing is stranded in processing: each copy there has a consumer
\* that will ack or nack it, even while recover_stale moves live consumers' copies.
NothingStranded ==
    faults = 0 => \A m \in Messages : Copies(processing, m) <= Cardinality(Holders(m))

\* First in, first out, until a message is put back: the queue is in put order,
\* and whatever was taken from it is older than what it still holds.
FirstInFirstOut ==
    (nacks = 0 /\ faults = 0 /\ ~recovered) =>
        /\ \A i, j \in DOMAIN queue : i < j => queue[i] > queue[j]
        /\ \A i \in DOMAIN queue : \A m \in acked \cup ToSet(processing) : m < queue[i]

\* Every message that Redis received is acked in the end.
EventuallyAcked == \A m \in Messages : m \in stored ~> m \in acked
=============================================================================
