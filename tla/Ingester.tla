------------------------------ MODULE Ingester ------------------------------
(***************************************************************************)
(* The ingester of AppView, src/appview/src/ingester: a consumer reads the *)
(* Jetstream from a cursor kept in the database, puts each event on a      *)
(* bounded queue that a few slots work off at once, and moves the cursor   *)
(* behind what is pending.  What the queue cannot take goes to a spool on  *)
(* disk, which the next start replays.                                     *)
(*                                                                         *)
(* The events are service profiles and presence records; the handlers run  *)
(* in one transaction under a lock per operator.  An event is its place in *)
(* the stream, which orders both its time and its repository revision.     *)
(***************************************************************************)
EXTENDS Naturals, Sequences

CONSTANTS
    Listings,      \* service profiles: an event for one may be turned away
    Presences,     \* presence records: required, within an hourly budget
    N,             \* events in the stream
    Streams,       \* the streams looked at
    Width,         \* DATABASE_POOL_MAX: slots
    MaxQueue,      \* maxSize
    MaxRetry,      \* MAX_RETRY
    MaxOvershoot,  \* bound: events on the wire when the socket is paused
    MaxFaults      \* bound: stops, lost connections, lost or aged spool, forgotten pins

ASSUME IngesterAssumption ==
    /\ Listings \cap Presences = {}
    /\ Streams \subseteq [1..N -> [rec: Listings \cup Presences, put: BOOLEAN]]
    /\ N \in Nat \ {0} /\ Width \in Nat \ {0} /\ MaxQueue \in Nat \ {0}
    /\ MaxRetry \in Nat \ {0} /\ MaxOvershoot \in Nat /\ MaxFaults \in Nat

VARIABLES
    log,                  \* the stream
    link, next,           \* the connection, and the next event on it
    paused, over,         \* the socket is held; events that came after that
    queue, work,          \* the queue; the event in each slot
    inFlight, failed,     \* the times that pin the cursor besides the queue
    attempts,             \* failures of each event so far
    cursor, seen,         \* this.cursor, highestSeenTimeUs
    saving, saved,        \* saves on their way; ingester_cursor
    spool, replayed,      \* events on disk; those read since the start
    listing, presence,    \* services with service_deletions; presence rows
    applied, lost,        \* history: events handled; events given up
    unpinned,             \* history: events in a slot that nothing pinned any more
    faults

stream == <<link, next, paused, over>>
tasks == <<queue, work>>
pins == <<inFlight, failed, attempts>>
marks == <<cursor, seen, saving>>
disk == <<spool, replayed>>
index == <<listing, presence>>
fates == <<applied, lost>>
vars == <<log, stream, tasks, pins, marks, saved, disk, index, fates, unpinned, faults>>

-----------------------------------------------------------------------------

Events == 1..N
Slots == 1..Width
Records == Listings \cup Presences
Later(a, b) == IF a < b THEN b ELSE a

Idle == 0
Entry == [row: 0..N, mark: 0..N]
Presence == [rev: 0..N, there: BOOLEAN]

\* What a process that starts knows: the cursor it reads.
Fresh(c) ==
    /\ link = "boot" /\ next = c
    /\ paused = FALSE /\ over = 0
    /\ queue = <<>> /\ work = [s \in Slots |-> Idle]
    /\ inFlight = {} /\ failed = {} /\ attempts = [e \in Events |-> 0]
    /\ cursor = c /\ seen = 0 /\ saving = {} /\ replayed = {}

\* An earlier run saved a position before the first event.
Init ==
    /\ log \in Streams
    /\ Fresh(1) /\ saved = 1
    /\ spool = {} /\ applied = {} /\ lost = {} /\ unpinned = {}
    /\ listing = [r \in Listings |-> [row |-> 0, mark |-> 0]]
    /\ presence = [r \in Presences |-> [rev |-> 0, there |-> FALSE]]
    /\ faults = 0

Fault == faults < MaxFaults /\ faults' = faults + 1

-----------------------------------------------------------------------------
\* The handlers.

\* Mutant of Put: no marker is asked.
PutUnasked(l, e) == [row |-> Later(l.row, e), mark |-> 0]

\* A create or an update; with the marker of a later delete it does nothing.
Put(l, e) == IF l.mark >= e THEN l ELSE [row |-> Later(l.row, e), mark |-> 0]

\* removeListing: a delete, or a republish for friends only.
Remove(l, e) == [row |-> IF l.row < e THEN 0 ELSE l.row, mark |-> Later(l.mark, e)]

\* processEvent, up to the commit of its transaction.
Handle(e) ==
    LET r == log[e].rec
    IN  /\ listing' = IF r \notin Listings THEN listing
                      ELSE [listing EXCEPT ![r] =
                                IF log[e].put THEN Put(@, e) ELSE Remove(@, e)]
        /\ presence' = IF r \in Presences /\ presence[r].rev < e
                       THEN [presence EXCEPT ![r] = [rev |-> e, there |-> log[e].put]]
                       ELSE presence
        /\ applied' = applied \cup {e}

-----------------------------------------------------------------------------
\* The queue.

Queued == {queue[i] : i \in DOMAIN queue}
Full(q) == Len(q) >= MaxQueue
IdleIn(w) == {s \in Slots : w[s] = Idle}
Any(S) == CHOOSE s \in S : TRUE

\* drain takes an event off the queue into the idle slot s.
Occupy(w, s, e) == [w EXCEPT ![s] = e]

\* queue.push, with the slots w that are left once the caller is done: drain
\* starts at once when it is not running, and it runs as long as the queue
\* holds anything.
StartsAtOnce == queue = <<>> /\ IdleIn(work) # {}
Enter(e, w) ==
    IF StartsAtOnce
    THEN work' = Occupy(w, Any(IdleIn(work)), e) /\ UNCHANGED queue
    ELSE work' = w /\ queue' = Append(queue, e)

\* spoolEvent; over its quota, or with a disk that fails, the event is gone.
Spool(e) ==
    \/ spool' = spool \cup {e} /\ UNCHANGED <<lost, faults>>
    \/ Fault /\ lost' = lost \cup {e} /\ UNCHANGED spool

\* A presence is required as long as its operator is within the budget.
Required(e) == log[e].rec \in Presences

\* The socket's message handler: push, or the spool.
Receive ==
    LET e == next
    IN  /\ link = "up" /\ e \in Events
        /\ \/ ~paused /\ UNCHANGED over
           \/ paused /\ over < MaxOvershoot /\ over' = over + 1
        /\ next' = e + 1
        /\ seen' = Later(seen, e)
        /\ paused' = (paused \/ Full(queue))
        /\ \/ /\ ~Full(queue) \/ Required(e)
              /\ Enter(e, work)
              /\ inFlight' = IF StartsAtOnce THEN inFlight \cup {e} ELSE inFlight
              /\ UNCHANGED <<spool, lost, faults>>
           \/ Full(queue) /\ Spool(e) /\ UNCHANGED <<tasks, inFlight>>
        /\ UNCHANGED <<log, unpinned, link, failed, attempts, cursor, saving, saved,
                       replayed, index, applied>>

\* A poll of drain.
Start ==
    /\ queue # <<>> /\ IdleIn(work) # {}
    /\ work' = Occupy(work, Any(IdleIn(work)), Head(queue))
    /\ queue' = Tail(queue)
    /\ inFlight' = inFlight \cup {Head(queue)}
    /\ UNCHANGED <<log, unpinned, stream, failed, attempts, marks, saved, disk, index, fates, faults>>

\* Mutant of Resumes: the queue must fall below the watermark.
ResumesBelow(q) == Len(q) < MaxQueue \div 2

Resumes(q) == Len(q) <= MaxQueue \div 2

\* The finally of an event: its time leaves the set, also when a retry that
\* has already started put it there.
Finally(e) ==
    /\ inFlight' = inFlight \ {e}
    /\ paused' = (paused /\ ~Resumes(queue'))
    /\ over' = IF paused' THEN over ELSE 0

\* The handler returns.  Between its commit and the finally, the event only
\* pins the cursor for longer.
Finish(s) ==
    LET e == work[s]
    IN  /\ e # Idle
        /\ Handle(e)
        /\ work' = [work EXCEPT ![s] = Idle]
        /\ UNCHANGED queue
        /\ failed' = failed \ {e} /\ attempts' = [attempts EXCEPT ![e] = 0]
        /\ Finally(e)
        /\ UNCHANGED <<log, unpinned, link, next, marks, saved, disk, lost, faults>>

DeadLetters(n) == n >= MaxRetry

\* The handler throws, before its commit or after it: the event is given up,
\* or queued again, or spooled when the queue is full.
Fail(s) ==
    LET e == work[s]
        n == attempts[e] + 1
        Unpin == failed' = failed \ {e} /\ attempts' = [attempts EXCEPT ![e] = 0]
        Leave == work' = [work EXCEPT ![s] = Idle] /\ UNCHANGED queue
    IN  /\ e # Idle
        /\ Handle(e) \/ UNCHANGED <<index, applied>>
        /\ \/ /\ DeadLetters(n) /\ Unpin /\ Leave
              /\ lost' = lost \cup {e}
              /\ UNCHANGED <<spool, faults>>
           \/ /\ ~DeadLetters(n) /\ ~Full(queue)
              /\ failed' = failed \cup {e} /\ attempts' = [attempts EXCEPT ![e] = n]
              /\ Enter(e, [work EXCEPT ![s] = Idle])
              /\ UNCHANGED <<spool, lost, faults>>
           \/ ~DeadLetters(n) /\ Full(queue) /\ Unpin /\ Leave /\ Spool(e)
        /\ Finally(e)
        /\ UNCHANGED <<log, unpinned, link, next, marks, saved, replayed>>

\* The pins of failures older than an hour are forgotten, that of a running
\* retry as well: where it started at once, Finally took its other pin.
Cleanup(c) ==
    LET old == {e \in failed : e <= c}
    IN  /\ Fault /\ c \in failed
        /\ failed' = failed \ old
        /\ attempts' = [e \in Events |-> IF e \in old THEN 0 ELSE attempts[e]]
        /\ unpinned' = unpinned \cup (old \ (Queued \cup inFlight))
        /\ UNCHANGED <<log, stream, tasks, inFlight, marks, saved, disk, index, fates>>

-----------------------------------------------------------------------------
\* The cursor.

Pinned == Queued \cup inFlight \cup failed

\* Mutant of Holds: what failed is not looked at.
HoldsUnfailed == Queued \cup inFlight

\* What getSafeCursor goes through.
Holds == Pinned

Lowest(c, S) == c \in S /\ \A e \in S : c <= e
SafeCursor(c) == Lowest(c, Holds)

\* advanceAndSaveCursor, up to its write.
Advance ==
    \E c \in 0..N :
        /\ IF Holds = {} THEN c = seen ELSE SafeCursor(c)
        /\ cursor' = Later(cursor, c)
        /\ saving' = IF cursor' = cursor THEN saving ELSE saving \cup {cursor'}
        /\ UNCHANGED seen

\* On a timer, and every so many events.  A forced save of a cursor that has
\* not moved writes once more what an earlier save wrote; it is left out.
Save ==
    /\ link # "boot"
    /\ Advance /\ cursor' # cursor
    /\ UNCHANGED <<log, unpinned, stream, tasks, pins, saved, disk, index, fates, faults>>

\* Saves land in any order; one that fails is not told from one that is late.
SaveLands(v) ==
    /\ v \in saving /\ saving' = saving \ {v}
    /\ saved' = v
    /\ UNCHANGED <<log, unpinned, stream, tasks, pins, cursor, seen, disk, index, fates, faults>>

-----------------------------------------------------------------------------
\* The connection and the process.

Disconnect ==
    /\ Fault /\ link = "up" /\ link' = "down"
    /\ UNCHANGED <<log, unpinned, next, paused, over, tasks, pins, marks, saved, disk, index, fates>>

\* reconnectWithBackoff, up to the end of its save.
Redial ==
    /\ link = "down" /\ link' = "ready"
    /\ Advance
    /\ UNCHANGED <<log, unpinned, next, paused, over, tasks, pins, saved, disk, index, fates, faults>>

\* The stream is played again from the cursor on, that event included.
Connect ==
    /\ link = "ready" /\ link' = "up"
    /\ next' = cursor
    /\ paused' = Full(queue) /\ over' = 0
    /\ UNCHANGED <<log, unpinned, tasks, pins, marks, saved, disk, index, fates, faults>>

\* A line of the spool; one that cannot be handled is passed over.
Replay(e) ==
    /\ link = "boot" /\ e \in spool \ replayed
    /\ replayed' = replayed \cup {e}
    /\ Handle(e) \/ UNCHANGED <<index, applied>>
    /\ UNCHANGED <<log, unpinned, stream, tasks, pins, marks, saved, spool, lost, faults>>

\* A file is deleted after its last line.
FileEnds(S) ==
    /\ link = "boot" /\ S # {} /\ S \subseteq spool \cap replayed
    /\ spool' = spool \ S
    /\ lost' = lost \cup (S \ applied)
    /\ UNCHANGED <<log, unpinned, stream, tasks, pins, marks, saved, replayed, index, applied, faults>>

\* A file that cannot be read, or deleted, is left for the next start.
ReplayEnds ==
    /\ link = "boot" /\ link' = "ready"
    /\ replayed' = {}
    /\ UNCHANGED <<log, unpinned, next, paused, over, tasks, pins, marks, saved, spool,
                   index, fates, faults>>

\* Spool files older than a day are deleted.
SpoolAges(e) ==
    /\ Fault /\ e \in spool
    /\ spool' = spool \ {e}
    /\ lost' = lost \cup {e}
    /\ UNCHANGED <<log, unpinned, stream, tasks, pins, marks, saved, replayed, index, applied>>

Stop(c) ==
    /\ Fault
    /\ saved' = c
    /\ link' = "boot" /\ next' = c
    /\ paused' = FALSE /\ over' = 0
    /\ queue' = <<>> /\ work' = [s \in Slots |-> Idle]
    /\ inFlight' = {} /\ failed' = {} /\ attempts' = [e \in Events |-> 0]
    /\ cursor' = c /\ seen' = 0 /\ saving' = {} /\ replayed' = {}
    /\ UNCHANGED <<log, unpinned, spool, index, fates>>

Crash == Stop(saved)

\* SIGTERM: the safe cursor is saved once more.
Shutdown ==
    /\ link # "boot"
    /\ \E c \in 0..N : (IF Holds = {} THEN c = cursor ELSE SafeCursor(c)) /\ Stop(c)

Work == Start \/ \E s \in Slots : Finish(s) \/ Fail(s)
Link == Redial \/ Connect \/ ReplayEnds

Next ==
    \/ Receive \/ Work \/ Link
    \/ \E e \in Events : Cleanup(e) \/ Replay(e) \/ SpoolAges(e)
    \/ Save \/ \E v \in saving : SaveLands(v)
    \/ \E S \in SUBSET Events : FileEnds(S)
    \/ Disconnect \/ Crash \/ Shutdown

Spec == Init /\ [][Next]_vars

\* The stream delivers, drain polls and some handler ends, and a lost
\* connection is dialled again.
FairSpec == Spec /\ WF_vars(Receive) /\ WF_vars(Work) /\ WF_vars(Link)

-----------------------------------------------------------------------------
\* Properties

\* The type of the state.
TypeOK ==
    /\ log \in Streams
    /\ link \in {"boot", "ready", "up", "down"} /\ next \in 1..N+1
    /\ paused \in BOOLEAN /\ over \in 0..MaxOvershoot
    /\ queue \in Seq(Events) /\ work \in [Slots -> 0..N]
    /\ inFlight \subseteq Events /\ failed \subseteq Events
    /\ attempts \in [Events -> 0..MaxRetry-1]
    /\ cursor \in Events /\ seen \in 0..N /\ saving \subseteq Events /\ saved \in Events
    /\ spool \subseteq Events /\ replayed \subseteq Events
    /\ listing \in [Listings -> Entry] /\ presence \in [Presences -> Presence]
    /\ applied \subseteq Events /\ lost \subseteq Events /\ unpinned \subseteq Events
    /\ faults \in 0..MaxFaults

\* An event that needs no cursor any more.
Accounted(e) == e \in applied \cup spool \cup lost

\* ... or one whose pin was forgotten while its retry ran.
Covered(e) == Accounted(e) \/ e \in unpinned

\* Whatever is received twice, retried, spooled, saved late or cut off by a
\* crash: what lies behind the saved cursor was handled, is on disk, or was
\* given up on purpose; the one exception is an event whose pin was forgotten
\* while its retry ran (getSafeCursor; failedTimestamps and its cleanup).
CursorNeverPasses == \A e \in Events : e < saved => Covered(e)

\* The comment on the queue has no exception: the cursor never advances past
\* events that have not been fully processed.
NeverPastUnprocessed == \A e \in Events : e < saved => Accounted(e)

Index == INSTANCE ListingIndex WITH
    top <- [r \in Records |-> IF r \in Listings
                              THEN Later(listing[r].row, listing[r].mark)
                              ELSE presence[r].rev],
    shown <- [r \in Records |-> IF r \in Listings THEN listing[r].row
                                ELSE IF presence[r].there THEN presence[r].rev ELSE 0]

\* Duplicates, retries, replays from the spool and slots that overtake each
\* other never bring back an older revision of a record, nor one deleted
\* since (revIsNewer, service_deletions).
ImplementsIndex == Index!Spec

\* Backpressure ends, a retry is tried, a lost connection comes back: every
\* event of the stream is handled, on disk or given up in the end, or was one
\* of those nothing pinned.
EveryEventSettles == <>(\A e \in Events : Covered(e))

=============================================================================
