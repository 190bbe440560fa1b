---------------------------- MODULE ReadWriteLock ----------------------------
(***************************************************************************)
(* One name of Lock.read and Lock.write (AsyncLock's are the same): a hash *)
(* that counts the readers, with one ttl for all of them, and a writer key *)
(* that holds the writer's uuid.  A call is one execution of a `with`      *)
(* block.  The renewals of a writer's watchdog, whose timing is the        *)
(* subject of DistributedLock, may come at any time here.                  *)
(***************************************************************************)
EXTENDS Integers, FiniteSets

CONSTANTS
    Readers, Writers,  \* the calls of read() and of write()
    TimeoutOf,         \* the timeout of each call, in ticks
    MaxTimeout,        \* the largest of them
    Blocking,          \* the calls that retry until a deadline
    AutoRenew,         \* the writers with auto_renew=True
    MaxResends,        \* times the driver re-sends the commands of one call
    Faulty,            \* commands may be lost and processes killed
    None

Calls == Readers \cup Writers

ASSUME RWAssumption ==
    /\ IsFiniteSet(Readers) /\ Readers \cap Writers = {}
    /\ MaxTimeout \in Nat /\ TimeoutOf \in [Calls -> 1..MaxTimeout]
    /\ Blocking \subseteq Calls /\ AutoRenew \subseteq Writers
    /\ MaxResends \in Nat
    /\ Faulty \in BOOLEAN
    /\ None \notin Writers

VARIABLES
    hash,      \* the hash: its readers field, 0 when absent, and its ttl
    writer,    \* the writer key: its owner and its ttl
    pc,        \* "waiting" until admitted, and before the call
    result,    \* how the call ended; "broken" by a lost command or a kill
    resends,   \* re-sent commands so far
    lease,     \* history: ticks left of what the call was granted
    undercut,  \* history: the readers' common count or ttl was reduced too early
    overlapped \* history: another call was admitted while the writer was inside

vars == <<hash, writer, pc, result, resends, lease, undercut, overlapped>>

NoReaders == [readers |-> 0, ttl |-> 0]
NoWriter == [owner |-> None, ttl |-> 0]

TypeOK ==
    /\ hash \in [readers : Nat, ttl : 0..MaxTimeout]
    /\ writer \in [owner : Writers \cup {None}, ttl : 0..MaxTimeout]
    /\ pc \in [Calls -> {"waiting", "inside", "releasing", "done"}]
    /\ result \in [Calls -> {"none", "released", "body_error", "acquire_error",
                             "release_error", "broken"}]
    /\ resends \in [Calls -> 0..MaxResends]
    /\ lease \in [Calls -> 0..MaxTimeout]
    /\ undercut \in BOOLEAN
    /\ overlapped \in [Writers -> BOOLEAN]

Init ==
    /\ hash = NoReaders
    /\ writer = NoWriter
    /\ pc = [c \in Calls |-> "waiting"]
    /\ result = [c \in Calls |-> "none"]
    /\ resends = [c \in Calls |-> 0]
    /\ lease = [c \in Calls |-> 0]
    /\ undercut = FALSE
    /\ overlapped = [w \in Writers |-> FALSE]

----------------------------------------------------------------------------
(* The scripts *)

\* Mutant: the writer key is not looked at.
ReaderAlwaysAdmitted == TRUE

\* READ_ACQUIRE refuses while there is a writer.
ReaderAdmitted == writer.owner = None

\* Mutant: expire only when the hash is created.
UnexpiredReadAcquire(t) ==
    IF ReaderAdmitted THEN [readers |-> hash.readers + 1, ttl |-> 0] ELSE hash

\* READ_ACQUIRE counts the reader and gives the hash that reader's timeout.
ReadAcquire(t) ==
    IF ReaderAdmitted THEN [readers |-> hash.readers + 1, ttl |-> t] ELSE hash

\* Mutant: the count is left as it is.
ForgottenReadRelease == hash

\* READ_RELEASE asks for no owner; the field is deleted when the count is not positive.
ReadRelease == IF hash.readers > 1 THEN [hash EXCEPT !.readers = @ - 1] ELSE NoReaders

\* Mutants: the readers, or the writer key, are not looked at.
WriterAdmittedOverReaders == writer.owner = None
WriterAdmittedOverWriters == hash.readers = 0

\* WRITE_ACQUIRE refuses while there is a writer or a counted reader.
WriterAdmitted == writer.owner = None /\ hash.readers = 0

WriteAcquire(w) == IF WriterAdmitted THEN [owner |-> w, ttl |-> TimeoutOf[w]] ELSE writer

\* WRITE_RELEASE deletes the key of its owner only.
WriteRelease(w) == IF writer.owner = w THEN NoWriter ELSE writer

----------------------------------------------------------------------------
(* The calls *)

\* The writers in their block when a command admits another call.
Overlaps(c, admitted) ==
    [w \in Writers |-> overlapped[w]
                       \/ (admitted /\ w # c /\ pc[w] \in {"inside", "releasing"})]

\* A reader's expire may leave the hash less time than the readers before were given.
Shortens(t) == ReaderAdmitted /\ hash.readers > 0 /\ t < hash.ttl

Return(c, r) ==
    /\ pc' = [pc EXCEPT ![c] = "done"]
    /\ result' = [result EXCEPT ![c] = r]
    /\ lease' = [lease EXCEPT ![c] = 0]

\* _spin_acquire gives up: one refusal without blocking_timeout, else its deadline.
GiveUp(c) ==
    /\ pc[c] = "waiting"
    /\ c \notin Blocking => IF c \in Readers THEN ~ReaderAdmitted ELSE ~WriterAdmitted
    /\ Return(c, "acquire_error")
    /\ UNCHANGED <<hash, writer, resends, undercut, overlapped>>

Read(c) ==
    /\ pc[c] = "waiting" /\ ReaderAdmitted
    /\ hash' = ReadAcquire(TimeoutOf[c])
    /\ pc' = [pc EXCEPT ![c] = "inside"]
    /\ lease' = [lease EXCEPT ![c] = TimeoutOf[c]]
    /\ undercut' = (undercut \/ Shortens(TimeoutOf[c]))
    /\ overlapped' = Overlaps(c, TRUE)
    /\ UNCHANGED <<writer, result, resends>>

\* A lost reply leaves a reader counted that never runs its body.
ReadUnheard(c) ==
    /\ pc[c] = "waiting"
    /\ hash' = ReadAcquire(TimeoutOf[c])
    /\ undercut' = (undercut \/ Shortens(TimeoutOf[c]))
    /\ overlapped' = Overlaps(c, ReaderAdmitted)
    /\ \/ /\ resends[c] < MaxResends
          /\ resends' = [resends EXCEPT ![c] = @ + 1]
          /\ UNCHANGED <<pc, result, lease>>
       \/ /\ Faulty
          /\ Return(c, "broken")
          /\ UNCHANGED resends
    /\ UNCHANGED writer

Write(c) ==
    /\ pc[c] = "waiting" /\ WriterAdmitted
    /\ writer' = WriteAcquire(c)
    /\ pc' = [pc EXCEPT ![c] = "inside"]
    /\ lease' = [lease EXCEPT ![c] = TimeoutOf[c]]
    /\ overlapped' = Overlaps(c, TRUE)
    /\ UNCHANGED <<hash, result, resends, undercut>>

WriteUnheard(c) ==
    /\ pc[c] = "waiting"
    /\ writer' = WriteAcquire(c)
    /\ overlapped' = Overlaps(c, WriterAdmitted)
    /\ \/ /\ resends[c] < MaxResends
          /\ resends' = [resends EXCEPT ![c] = @ + 1]
          /\ UNCHANGED <<pc, result, lease>>
       \/ /\ Faulty
          /\ Return(c, "broken")
          /\ UNCHANGED resends
    /\ UNCHANGED <<hash, undercut>>

\* The watchdog's extend: while the writer is inside, or by a renewal that its
\* cancellation did not reach.
RenewWriter(w) ==
    /\ w \in AutoRenew
    /\ pc[w] \in {"inside", "releasing"}
    /\ writer.owner = w
    /\ writer' = [writer EXCEPT !.ttl = TimeoutOf[w]]
    /\ lease' = [lease EXCEPT ![w] = TimeoutOf[w]]
    /\ UNCHANGED <<hash, pc, result, resends, undercut, overlapped>>

\* The readers' release reports nothing: a reader that lost its lease is not told.
ReleaseRead(c) ==
    /\ pc[c] \in {"inside", "releasing"}
    /\ hash' = ReadRelease
    /\ undercut' = (undercut \/ lease[c] = 0)
    /\ \E r \in {"released", "body_error"} : Return(c, r)
    /\ UNCHANGED <<writer, resends, overlapped>>

ReleaseWrite(c) ==
    /\ pc[c] \in {"inside", "releasing"}
    /\ writer' = WriteRelease(c)
    /\ \/ Return(c, IF writer.owner = c THEN "released" ELSE "release_error")
       \/ Return(c, "body_error")
    /\ UNCHANGED <<hash, resends, undercut, overlapped>>

\* The release runs and its reply is lost; sent again, it is run again.
ReleaseUnheard(c) ==
    /\ pc[c] \in {"inside", "releasing"}
    /\ IF c \in Readers
       THEN hash' = ReadRelease /\ undercut' = (undercut \/ lease[c] = 0) /\ UNCHANGED writer
       ELSE writer' = WriteRelease(c) /\ UNCHANGED <<hash, undercut>>
    /\ \/ /\ resends[c] < MaxResends
          /\ resends' = [resends EXCEPT ![c] = @ + 1]
          /\ pc' = [pc EXCEPT ![c] = "releasing"]
          /\ lease' = [lease EXCEPT ![c] = 0]
          /\ UNCHANGED result
       \/ /\ Faulty
          /\ Return(c, "broken")
          /\ UNCHANGED resends
    /\ UNCHANGED overlapped

\* A command never arrives and the driver's error leaves the block, or the
\* process is killed: the keys stay as they are.
Abandon(c) ==
    /\ Faulty
    /\ pc[c] # "done"
    /\ Return(c, "broken")
    /\ UNCHANGED <<hash, writer, resends, undercut, overlapped>>

Tick ==
    /\ hash' = IF hash.ttl = 1 THEN NoReaders
               ELSE [hash EXCEPT !.ttl = IF @ > 0 THEN @ - 1 ELSE 0]
    /\ writer' = IF writer.ttl > 1 THEN [writer EXCEPT !.ttl = @ - 1] ELSE NoWriter
    /\ lease' = [c \in Calls |-> IF lease[c] > 0 THEN lease[c] - 1 ELSE 0]
    /\ UNCHANGED <<pc, result, resends, undercut, overlapped>>

Next ==
    \/ \E c \in Readers : Read(c) \/ ReadUnheard(c) \/ ReleaseRead(c)
    \/ \E c \in Writers : Write(c) \/ WriteUnheard(c) \/ RenewWriter(c) \/ ReleaseWrite(c)
    \/ \E c \in Calls : GiveUp(c) \/ ReleaseUnheard(c) \/ Abandon(c)
    \/ Tick

Spec == Init /\ [][Next]_vars
FairSpec == Spec /\ WF_vars(Tick)

----------------------------------------------------------------------------
(* Properties *)

Within(c) == pc[c] = "inside" /\ lease[c] > 0

\* What write()'s docstring promises: no writer runs while a reader's lease lasts.
WriteExcludesReaders == ~ \E r \in Readers, w \in Writers : Within(r) /\ Within(w)

\* That promise is kept as long as no reader outstays its lease before releasing
\* (a release that is sent again counts as one) and no reader joins with a shorter
\* timeout: the shared count and ttl then cover every reader.
PunctualReadersExcludeWriters == ~undercut => WriteExcludesReaders

\* Two writers are never both within their leases, late releases and renewals included.
WritersExcludeWriters ==
    \A v, w \in Writers : Within(v) /\ Within(w) => v = w

\* No reader or writer was admitted during a write section that ends without an error.
\* It says nothing of those that were admitted before: a reader that another's release
\* took out of the count may still be inside.
CleanWriteIsExclusive == \A w \in Writers : result[w] = "released" => ~overlapped[w]

\* No phantom reader keeps the writers out: without lost replies and crashes, the
\* count is never more than the readers that have still to release.
NoPhantomReader ==
    (\A c \in Readers : resends[c] = 0 /\ result[c] # "broken")
    => hash.readers <= Cardinality({c \in Readers : pc[c] \in {"inside", "releasing"}})

\* Those that crashes and lost replies do leave expire once the readers stop coming.
PhantomReadersExpire == (\A c \in Readers : pc[c] = "done") ~> hash.readers = 0
=============================================================================
