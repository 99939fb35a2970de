--------------------------- MODULE IngesterProofs ---------------------------
(***************************************************************************)
(* Ingester: its type, that the saved cursor never passes an event that is *)
(* still owed, that no event is forgotten before, that it implements       *)
(* ListingIndex, and that the index is what the handled events make it,    *)
(* for every stream and every size of the queue.                           *)
(***************************************************************************)
EXTENDS Ingester, TLAPS

USE IngesterAssumption DEF Events, Slots, Records, Idle, Later

Entries == [rec: Records, put: BOOLEAN]

LEMMA StreamFacts == Streams \subseteq [Events -> Entries]
  BY DEF Entries

LEMMA AnyIn == ASSUME NEW S, S # {} PROVE Any(S) \in S
  BY DEF Any

\* What the slots and the queue become when an event enters them.
LEMMA Entered ==
  ASSUME TypeOK, NEW e \in Events, NEW w \in [Slots -> 0..N], Enter(e, w)
  PROVE  /\ queue' \in Seq(Events) /\ work' \in [Slots -> 0..N]
         /\ Queued' \subseteq Queued \cup {e}
         /\ Queued \subseteq Queued'
         /\ StartsAtOnce \/ e \in Queued'
         /\ \A s \in Slots : work'[s] \in {w[s], e}
  <1>1. CASE StartsAtOnce
    <2>1. Any(IdleIn(work)) \in Slots
      BY <1>1, AnyIn DEF StartsAtOnce, IdleIn
    <2>2. work' = [w EXCEPT ![Any(IdleIn(work))] = e] /\ queue' = queue
      BY <1>1 DEF Enter, Occupy
    <2>3. Queued' = Queued
      BY <2>2 DEF Queued
    <2>4. QED BY <1>1, <2>1, <2>2, <2>3 DEF TypeOK
  <1>2. CASE ~StartsAtOnce
    <2>1. work' = w /\ queue' = Append(queue, e)
      BY <1>2 DEF Enter
    <2>2. queue \in Seq(Events)
      BY DEF TypeOK
    <2>3. /\ queue' \in Seq(Events) /\ DOMAIN queue' = 1..Len(queue) + 1
          /\ DOMAIN queue = 1..Len(queue) /\ Len(queue) \in Nat
          /\ queue'[Len(queue) + 1] = e
          /\ \A i \in 1..Len(queue) : queue'[i] = queue[i]
      BY <2>1, <2>2
    <2>4. Queued' \subseteq Queued \cup {e}
      <3> SUFFICES ASSUME NEW i \in DOMAIN queue' PROVE queue'[i] \in Queued \cup {e}
        BY DEF Queued
      <3>1. CASE i = Len(queue) + 1
        BY <3>1, <2>3
      <3>2. CASE i \in 1..Len(queue)
        BY <3>2, <2>3 DEF Queued
      <3>3. QED BY <3>1, <3>2, <2>3
    <2>5. Queued \subseteq Queued'
      <3> SUFFICES ASSUME NEW i \in DOMAIN queue PROVE queue[i] \in Queued'
        BY DEF Queued
      <3>1. i \in DOMAIN queue' /\ queue'[i] = queue[i]
        BY <2>3
      <3>2. QED BY <3>1 DEF Queued
    <2>6. e \in Queued'
      <3>1. Len(queue) + 1 \in DOMAIN queue' /\ queue'[Len(queue) + 1] = e
        BY <2>3
      <3>2. QED BY <3>1 DEF Queued
    <2>7. QED BY <2>1, <2>3, <2>4, <2>5, <2>6
  <1>3. QED BY <1>1, <1>2

LEMMA QueuedType == TypeOK => Queued \subseteq Events /\ Pinned \subseteq Events
  <1> SUFFICES ASSUME TypeOK PROVE Queued \subseteq Events /\ Pinned \subseteq Events
    OBVIOUS
  <1>1. queue \in Seq(Events)
    BY DEF TypeOK
  <1>2. \A i \in DOMAIN queue : queue[i] \in Events
    BY <1>1
  <1>3. Queued \subseteq Events
    BY <1>2 DEF Queued
  <1>4. QED BY <1>3 DEF TypeOK, Pinned

\* The head and the rest of a queue.
LEMMA Taken ==
  ASSUME TypeOK, queue # <<>>, queue' = Tail(queue)
  PROVE  /\ Head(queue) \in Events /\ queue' \in Seq(Events)
         /\ Queued' \subseteq Queued
         /\ Queued \subseteq Queued' \cup {Head(queue)}
         /\ Head(queue) \in Queued
  <1>1. queue \in Seq(Events)
    BY DEF TypeOK
  <1>2. /\ Len(queue) \in Nat /\ Len(queue) > 0 /\ DOMAIN queue = 1..Len(queue)
        /\ Head(queue) = queue[1] /\ queue' \in Seq(Events)
        /\ DOMAIN queue' = 1..Len(queue) - 1
        /\ \A i \in 1..Len(queue) - 1 : queue'[i] = queue[i+1]
    BY <1>1
  <1>3. Head(queue) \in Queued /\ Head(queue) \in Events
    BY <1>1, <1>2 DEF Queued
  <1>4. Queued' \subseteq Queued
    <2> SUFFICES ASSUME NEW i \in DOMAIN queue' PROVE queue'[i] \in Queued
      BY DEF Queued
    <2>1. i + 1 \in DOMAIN queue /\ queue'[i] = queue[i+1]
      BY <1>2
    <2>2. QED BY <2>1 DEF Queued
  <1>5. Queued \subseteq Queued' \cup {Head(queue)}
    <2> SUFFICES ASSUME NEW i \in DOMAIN queue, i # 1 PROVE queue[i] \in Queued'
      BY <1>2 DEF Queued
    <2>1. i - 1 \in DOMAIN queue' /\ queue'[i-1] = queue[i]
      BY <1>2
    <2>2. QED BY <2>1 DEF Queued
  <1>6. QED BY <1>2, <1>3, <1>4, <1>5

-----------------------------------------------------------------------------
\* The handlers.

LEMMA Handled ==
  ASSUME TypeOK, NEW e \in Events, Handle(e)
  PROVE  /\ listing' \in [Listings -> Entry] /\ presence' \in [Presences -> Presence]
         /\ applied' = applied \cup {e}
  <1>1. log[e] \in Entries
    BY StreamFacts DEF TypeOK
  <1>2. \A l \in Entry : Put(l, e) \in Entry /\ Remove(l, e) \in Entry
    BY DEF Entry, Put, Remove
  <1>3. listing' \in [Listings -> Entry]
    BY <1>1, <1>2 DEF Handle, TypeOK
  <1>4. [rev |-> e, there |-> log[e].put] \in Presence
    <2>1. log[e].put \in BOOLEAN
      BY <1>1 DEF Entries
    <2>2. QED BY <2>1 DEF Presence
  <1>5. presence' \in [Presences -> Presence]
    BY <1>4 DEF Handle, TypeOK
  <1>6. QED BY <1>3, <1>5 DEF Handle

-----------------------------------------------------------------------------
\* The type.

LEMMA Zeros == [e \in Events |-> 0] \in [Events -> 0..MaxRetry-1]
  BY SMT

LEMMA FaultType == TypeOK /\ Fault => faults' \in 0..MaxFaults
  BY DEF TypeOK, Fault

LEMMA SpoolType ==
  ASSUME TypeOK, NEW e \in Events, Spool(e)
  PROVE  spool' \subseteq Events /\ lost' \subseteq Events /\ faults' \in 0..MaxFaults
  <1>1. faults' \in 0..MaxFaults
    BY FaultType DEF Spool, TypeOK
  <1>2. spool' \subseteq Events /\ lost' \subseteq Events
    BY DEF Spool, TypeOK
  <1>3. QED BY <1>1, <1>2

LEMMA TypeInit == Init => TypeOK
  <1> SUFFICES ASSUME Init PROVE TypeOK
    OBVIOUS
  <1>1. /\ listing \in [Listings -> Entry]
        /\ presence \in [Presences -> Presence]
    <2>1. [row |-> 0, mark |-> 0] \in Entry
      BY DEF Entry
    <2>2. [rev |-> 0, there |-> FALSE] \in Presence
      BY DEF Presence
    <2>3. QED BY <2>1, <2>2 DEF Init
  <1>2. attempts \in [Events -> 0..MaxRetry-1] /\ work \in [Slots -> 0..N]
    BY Zeros DEF Init, Fresh
  <1>3. /\ log \in Streams /\ link = "boot" /\ next = 1 /\ paused = FALSE
        /\ over = 0 /\ queue = <<>> /\ inFlight = {} /\ failed = {} /\ cursor = 1
        /\ seen = 0 /\ saving = {} /\ replayed = {} /\ saved = 1 /\ spool = {}
        /\ applied = {} /\ lost = {} /\ unpinned = {} /\ faults = 0
    BY DEF Init, Fresh
  <1>4. paused \in BOOLEAN /\ queue \in Seq(Events)
    <2>1. <<>> \in Seq(Events)
      OBVIOUS
    <2>2. QED BY ONLY <1>3, <2>1
  <1>5. /\ next \in 1..N+1 /\ over \in 0..MaxOvershoot /\ cursor \in Events
        /\ seen \in 0..N /\ saved \in Events /\ faults \in 0..MaxFaults
    BY <1>3
  <1>6. QED BY <1>1, <1>2, <1>3, <1>4, <1>5 DEF TypeOK

LEMMA TypeReceive == ASSUME TypeOK, Receive PROVE TypeOK'
  <1> USE DEF index, tasks
  <1>1. next \in Events /\ next' = next + 1 /\ seen' = IF seen < next THEN next ELSE seen
    BY DEF Receive
  <1>2. next' \in 1..N+1 /\ seen' \in 0..N
    BY <1>1 DEF TypeOK
  <1>3. queue' \in Seq(Events) /\ work' \in [Slots -> 0..N]
    <2>1. CASE Enter(next, work)
      BY <1>1, <2>1, Entered DEF TypeOK
    <2>2. CASE UNCHANGED tasks
      BY <2>2 DEF TypeOK
    <2>3. QED BY <2>1, <2>2 DEF Receive
  <1>4. inFlight' \subseteq Events
    BY <1>1 DEF Receive, TypeOK
  <1>5. spool' \subseteq Events /\ lost' \subseteq Events /\ faults' \in 0..MaxFaults
    <2>1. CASE Spool(next)
      BY <1>1, <2>1, SpoolType
    <2>2. CASE UNCHANGED <<spool, lost, faults>>
      BY <2>2 DEF TypeOK
    <2>3. QED BY <2>1, <2>2 DEF Receive
  <1>6. over' \in 0..MaxOvershoot
    BY DEF Receive, TypeOK
  <1>7. paused' \in BOOLEAN
    BY DEF Receive
  <1>8. /\ UNCHANGED <<log, unpinned, link, failed, attempts, cursor, saving, saved, replayed>>
        /\ UNCHANGED <<listing, presence, applied>>
    BY DEF Receive
  <1>9. QED BY <1>2, <1>3, <1>4, <1>5, <1>6, <1>7, <1>8 DEF TypeOK

LEMMA TypeWork == ASSUME TypeOK, Work PROVE TypeOK'
  <1> USE DEF index, tasks, stream, marks, disk, fates, pins
  <1>1. CASE Start
    <2>1. Head(queue) \in Events /\ queue' \in Seq(Events)
      BY <1>1, Taken DEF Start
    <2>2. work' \in [Slots -> 0..N]
      <3>1. work' = [work EXCEPT ![Any(IdleIn(work))] = Head(queue)]
        BY <1>1 DEF Start, Occupy
      <3>2. Any(IdleIn(work)) \in Slots /\ Head(queue) \in 0..N
        <4>1. IdleIn(work) # {}
          BY <1>1 DEF Start
        <4>2. Any(IdleIn(work)) \in Slots
          BY <4>1, AnyIn DEF IdleIn
        <4>3. QED BY <2>1, <4>2
      <3>3. work \in [Slots -> 0..N]
        BY DEF TypeOK
      <3>4. QED BY ONLY <3>1, <3>2, <3>3
    <2>3. inFlight' \subseteq Events
      BY <1>1, <2>1 DEF Start, TypeOK
    <2>4. /\ UNCHANGED <<log, unpinned, link, next, paused, over, failed, attempts>>
          /\ UNCHANGED <<cursor, seen, saving, saved, spool, replayed>>
          /\ UNCHANGED <<listing, presence, applied, lost, faults>>
      BY <1>1 DEF Start
    <2>5. QED BY <2>1, <2>2, <2>3, <2>4 DEF TypeOK
  <1>2. ASSUME NEW s \in Slots, work[s] # 0, Finally(work[s])
        PROVE  /\ work[s] \in Events /\ inFlight' \subseteq Events
               /\ paused' \in BOOLEAN /\ over' \in 0..MaxOvershoot
    <2>1. work[s] \in 0..N
      BY DEF TypeOK
    <2>2. work[s] \in Events
      BY <1>2, <2>1
    <2>3. inFlight' \subseteq Events
      BY <1>2 DEF TypeOK, Finally
    <2>4. paused' \in BOOLEAN
      BY <1>2 DEF Finally
    <2>5. over' \in 0..MaxOvershoot
      <3>1. over' = over \/ over' = 0
        BY <1>2 DEF Finally
      <3>2. QED BY <3>1 DEF TypeOK
    <2>6. QED BY <2>2, <2>3, <2>4, <2>5
  <1>3. ASSUME NEW s \in Slots, Finish(s) PROVE TypeOK'
    <2>1. work[s] # 0 /\ Finally(work[s])
      BY <1>3 DEF Finish
    <2>2. /\ work[s] \in Events /\ inFlight' \subseteq Events
          /\ paused' \in BOOLEAN /\ over' \in 0..MaxOvershoot
      BY <1>2, <2>1
    <2>3. /\ listing' \in [Listings -> Entry] /\ presence' \in [Presences -> Presence]
          /\ applied' \subseteq Events
      <3>1. Handle(work[s]) BY <1>3 DEF Finish
      <3>2. QED BY <2>2, <3>1, Handled DEF TypeOK
    <2>4. work' \in [Slots -> 0..N] /\ queue' \in Seq(Events)
      BY <1>3 DEF Finish, TypeOK
    <2>5. failed' \subseteq Events /\ attempts' \in [Events -> 0..MaxRetry-1]
      <3>1. failed' = failed \ {work[s]} /\ attempts' = [attempts EXCEPT ![work[s]] = 0]
        BY <1>3 DEF Finish
      <3>2. 0 \in 0..MaxRetry-1
        OBVIOUS
      <3>3. QED BY <3>1, <3>2 DEF TypeOK
    <2>6. UNCHANGED <<log, unpinned, link, next, cursor, seen, saving, saved, spool, replayed, lost, faults>>
      BY <1>3 DEF Finish
    <2>7. QED BY <2>2, <2>3, <2>4, <2>5, <2>6 DEF TypeOK
  <1>4. ASSUME NEW s \in Slots, Fail(s) PROVE TypeOK'
    <2> DEFINE n == attempts[work[s]] + 1
    <2>1. work[s] # 0 /\ Finally(work[s])
      BY <1>4 DEF Fail
    <2>2. /\ work[s] \in Events /\ inFlight' \subseteq Events
          /\ paused' \in BOOLEAN /\ over' \in 0..MaxOvershoot
      BY <1>2, <2>1
    <2>3. /\ listing' \in [Listings -> Entry] /\ presence' \in [Presences -> Presence]
          /\ applied' \subseteq Events
      <3>1. CASE Handle(work[s])
        BY <2>2, <3>1, Handled DEF TypeOK
      <3>2. CASE UNCHANGED <<index, applied>>
        BY <3>2 DEF TypeOK
      <3>3. QED BY <1>4, <3>1, <3>2 DEF Fail
    <2>4. [work EXCEPT ![s] = 0] \in [Slots -> 0..N]
      BY DEF TypeOK
    <2>5. work' \in [Slots -> 0..N] /\ queue' \in Seq(Events)
      <3>1. CASE Enter(work[s], [work EXCEPT ![s] = 0])
        BY <2>2, <2>4, <3>1, Entered
      <3>2. CASE work' = [work EXCEPT ![s] = 0] /\ queue' = queue
        BY <2>4, <3>2 DEF TypeOK
      <3>3. QED BY <1>4, <3>1, <3>2 DEF Fail
    <2>6. attempts[work[s]] \in 0..MaxRetry-1
      BY <2>2 DEF TypeOK
    <2>7. failed' \subseteq Events
      BY <1>4, <2>2 DEF Fail, TypeOK
    <2>8. attempts' \in [Events -> 0..MaxRetry-1]
      <3>1. CASE attempts' = [attempts EXCEPT ![work[s]] = 0]
        <4>1. 0 \in 0..MaxRetry-1
          OBVIOUS
        <4>2. QED BY <2>2, <3>1, <4>1 DEF TypeOK
      <3>2. CASE attempts' = [attempts EXCEPT ![work[s]] = n] /\ ~DeadLetters(n)
        <4>1. n \in 0..MaxRetry-1
          BY <2>6, <3>2 DEF DeadLetters
        <4>2. QED BY <2>2, <3>2, <4>1 DEF TypeOK
      <3>3. QED BY <1>4, <3>1, <3>2 DEF Fail
    <2>9. spool' \subseteq Events /\ lost' \subseteq Events /\ faults' \in 0..MaxFaults
      <3>1. CASE Spool(work[s])
        BY <2>2, <3>1, SpoolType
      <3>2. CASE lost' = lost \cup {work[s]} /\ UNCHANGED <<spool, faults>>
        BY <2>2, <3>2 DEF TypeOK
      <3>3. CASE UNCHANGED <<spool, lost, faults>>
        BY <3>3 DEF TypeOK
      <3>4. QED BY <1>4, <3>1, <3>2, <3>3 DEF Fail
    <2>10. UNCHANGED <<log, unpinned, link, next, cursor, seen, saving, saved, replayed>>
      BY <1>4 DEF Fail
    <2>11. QED BY <2>2, <2>3, <2>5, <2>7, <2>8, <2>9, <2>10 DEF TypeOK
  <1>5. QED BY <1>1, <1>3, <1>4 DEF Work

LEMMA TypeAdvance ==
  ASSUME TypeOK, Advance
  PROVE  cursor' \in Events /\ saving' \subseteq Events /\ seen' = seen
  <1>1. PICK c \in 0..N : /\ cursor' = IF cursor < c THEN c ELSE cursor
                          /\ saving' = IF cursor' = cursor THEN saving ELSE saving \cup {cursor'}
    BY DEF Advance
  <1>2. cursor' \in Events
    BY <1>1 DEF TypeOK
  <1>3. QED BY <1>1, <1>2 DEF TypeOK, Advance

LEMMA TypeStop == ASSUME TypeOK, NEW c \in Events, Stop(c) PROVE TypeOK'
  <1>1. /\ queue' \in Seq(Events) /\ work' \in [Slots -> 0..N]
        /\ attempts' \in [Events -> 0..MaxRetry-1]
    BY Zeros DEF Stop
  <1>2. faults' \in 0..MaxFaults
    BY FaultType DEF Stop
  <1>3. /\ link' = "boot" /\ next' = c /\ paused' = FALSE /\ over' = 0
        /\ inFlight' = {} /\ failed' = {}
        /\ cursor' = c /\ seen' = 0 /\ saving' = {} /\ saved' = c /\ replayed' = {}
        /\ UNCHANGED <<log, unpinned, spool, listing, presence, applied, lost>>
    BY DEF Stop, index, fates
  <1>4. /\ paused' \in BOOLEAN /\ link' \in {"boot", "ready", "up", "down"}
        /\ log' \in Streams
    BY <1>3 DEF TypeOK
  <1>5. next' \in 1..N+1 /\ over' \in 0..MaxOvershoot /\ seen' \in 0..N
    BY <1>3
  <1>6. /\ spool' \subseteq Events /\ applied' \subseteq Events /\ lost' \subseteq Events
        /\ listing' \in [Listings -> Entry] /\ presence' \in [Presences -> Presence]
    BY <1>3 DEF TypeOK
  <1>7. QED BY <1>1, <1>2, <1>3, <1>4, <1>5, <1>6 DEF TypeOK

LEMMA ShutdownAt == ASSUME TypeOK, Shutdown PROVE \E c \in Events :
    /\ Stop(c)
    /\ IF Pinned = {} THEN c = cursor ELSE Lowest(c, Pinned)
  <1>1. PICK c \in 0..N : /\ IF Pinned = {} THEN c = cursor ELSE Lowest(c, Pinned)
                          /\ Stop(c)
    BY DEF Shutdown, SafeCursor, Holds
  <1>2. c \in Events
    BY <1>1, QueuedType DEF Lowest, TypeOK
  <1>3. QED BY <1>1, <1>2

LEMMA TypeStep == TypeOK /\ [Next]_vars => TypeOK'
  <1> SUFFICES ASSUME TypeOK, [Next]_vars PROVE TypeOK'
    OBVIOUS
  <1> USE DEF index, tasks, stream, marks, disk, fates, pins
  <1>0. CASE UNCHANGED vars
    BY <1>0 DEF vars, TypeOK
  <1>1. CASE Receive
    BY <1>1, TypeReceive
  <1>2. CASE Work
    BY <1>2, TypeWork
  <1>3. CASE Redial \/ Save
    <2>1. cursor' \in Events /\ saving' \subseteq Events /\ seen' = seen
      BY <1>3, TypeAdvance DEF Redial, Save
    <2>2. link' \in {"boot", "ready", "up", "down"}
      BY <1>3 DEF Redial, Save, TypeOK
    <2>3. /\ UNCHANGED <<log, unpinned, next, paused, over, queue, work, inFlight, failed, attempts>>
          /\ UNCHANGED <<saved, spool, replayed, listing, presence, applied, lost, faults>>
      BY <1>3 DEF Redial, Save
    <2>4. QED BY <2>1, <2>2, <2>3 DEF TypeOK
  <1>4. CASE Connect
    <2>1. next' \in 1..N+1 /\ over' \in 0..MaxOvershoot
      BY <1>4 DEF Connect, TypeOK
    <2>2. paused' \in BOOLEAN
      BY <1>4 DEF Connect, Full
    <2>3. /\ link' = "up" /\ UNCHANGED <<log, unpinned, queue, work, inFlight, failed, attempts>>
          /\ UNCHANGED <<cursor, seen, saving, saved, spool, replayed>>
          /\ UNCHANGED <<listing, presence, applied, lost, faults>>
      BY <1>4 DEF Connect
    <2>4. QED BY <2>1, <2>2, <2>3 DEF TypeOK
  <1>5. CASE ReplayEnds
    BY <1>5 DEF ReplayEnds, TypeOK
  <1>6. ASSUME NEW e \in Events, Cleanup(e) PROVE TypeOK'
    <2>1. attempts' \in [Events -> 0..MaxRetry-1]
      BY <1>6 DEF Cleanup, TypeOK
    <2>2. failed' \subseteq Events /\ unpinned' \subseteq Events /\ faults' \in 0..MaxFaults
      BY <1>6, FaultType DEF Cleanup, TypeOK
    <2>3. /\ UNCHANGED <<log, link, next, paused, over, queue, work, inFlight>>
          /\ UNCHANGED <<cursor, seen, saving, saved, spool, replayed>>
          /\ UNCHANGED <<listing, presence, applied, lost>>
      BY <1>6 DEF Cleanup
    <2>4. QED BY <2>1, <2>2, <2>3 DEF TypeOK
  <1>7. ASSUME NEW e \in Events, Replay(e) PROVE TypeOK'
    <2>1. /\ listing' \in [Listings -> Entry] /\ presence' \in [Presences -> Presence]
          /\ applied' \subseteq Events
      <3>1. CASE Handle(e)
        BY <3>1, Handled DEF TypeOK
      <3>2. CASE UNCHANGED <<index, applied>>
        BY <3>2 DEF TypeOK
      <3>3. QED BY <1>7, <3>1, <3>2 DEF Replay
    <2>2. replayed' \subseteq Events
      BY <1>7 DEF Replay, TypeOK
    <2>3. /\ UNCHANGED <<log, unpinned, link, next, paused, over, queue, work, inFlight, failed, attempts>>
          /\ UNCHANGED <<cursor, seen, saving, saved, spool, lost, faults>>
      BY <1>7 DEF Replay
    <2>4. QED BY <2>1, <2>2, <2>3 DEF TypeOK
  <1>8. ASSUME NEW e \in Events, SpoolAges(e) PROVE TypeOK'
    BY <1>8, FaultType DEF SpoolAges, TypeOK
  <1>9. ASSUME NEW v \in saving, SaveLands(v) PROVE TypeOK'
    BY <1>9 DEF SaveLands, TypeOK
  <1>10. ASSUME NEW S \in SUBSET Events, FileEnds(S) PROVE TypeOK'
    BY <1>10 DEF FileEnds, TypeOK
  <1>11. CASE Disconnect
    BY <1>11, FaultType DEF Disconnect, TypeOK
  <1>12. CASE Crash
    BY <1>12, TypeStop DEF Crash, TypeOK
  <1>13. CASE Shutdown
    BY <1>13, ShutdownAt, TypeStop
  <1>14. QED BY <1>0, <1>1, <1>2, <1>3, <1>4, <1>5, <1>6, <1>7, <1>8, <1>9, <1>10,
                <1>11, <1>12, <1>13 DEF Next, Link

\* Every variable keeps its type, for every stream, width and bound.
THEOREM TypeCorrect == Spec => []TypeOK
  BY TypeInit, TypeStep, PTL DEF Spec

-----------------------------------------------------------------------------
\* What is pending, and what is behind the cursor.

Settled(v) == \A e \in Events : e < v => Covered(e)
Owed(e) == ~Covered(e) => e \in Pinned

\* The cursor and every save of it are behind what is owed; what was received
\* in this session is settled or pinned, and nothing else is pinned.
Behind == Settled(cursor) /\ Settled(saved) /\ \A v \in saving : Settled(v)
Received == \A e \in Events : e <= seen => Owed(e)
Streamed == link = "up" => \A e \in Events : e < next => Owed(e)
Known == /\ \A e \in Pinned : e <= seen
         /\ \A s \in Slots : work[s] <= seen

IInv == TypeOK /\ Behind /\ Received /\ Streamed /\ Known

\* Nothing is taken back from the history.
LEMMA UnpinnedStays ==
  ASSUME TypeOK, [Next]_vars
  PROVE  unpinned \subseteq unpinned'
  <1>1. Receive \/ Work \/ Link \/ Save \/ Disconnect \/ Crash \/ Shutdown => UNCHANGED unpinned
    BY DEF Receive, Work, Start, Finish, Fail, Link, Redial, Connect, ReplayEnds, Save,
           Disconnect, Crash, Shutdown, Stop
  <1>2. \A e : Cleanup(e) \/ Replay(e) \/ SpoolAges(e) => unpinned \subseteq unpinned'
    BY DEF Cleanup, Replay, SpoolAges
  <1>3. \A v : SaveLands(v) \/ FileEnds(v) => UNCHANGED unpinned
    BY DEF SaveLands, FileEnds
  <1>4. QED BY <1>1, <1>2, <1>3 DEF Next, vars

\* An event that is covered stays so.
LEMMA CoveredStays ==
  ASSUME TypeOK, [Next]_vars
  PROVE  \A e \in Events : Covered(e) => Covered(e)'
  <1> USE DEF index, tasks, stream, marks, disk, fates, pins
  <1>0. unpinned \subseteq unpinned'
    BY UnpinnedStays
  <1>1. CASE UNCHANGED <<spool, applied, lost>>
    BY <1>0, <1>1 DEF Covered, Accounted
  <1>2. CASE spool \subseteq spool' /\ applied \subseteq applied' /\ lost \subseteq lost'
    BY <1>0, <1>2 DEF Covered, Accounted
  <1>3. ASSUME NEW S \in SUBSET Events, FileEnds(S)
        PROVE \A e \in Events : Covered(e) => Covered(e)'
    BY <1>0, <1>3 DEF FileEnds, Covered, Accounted
  <1>4. ASSUME NEW e \in Events, SpoolAges(e)
        PROVE \A f \in Events : Covered(f) => Covered(f)'
    BY <1>0, <1>4 DEF SpoolAges, Covered, Accounted
  <1>5. CASE Receive
    <2>1. spool \subseteq spool' /\ applied \subseteq applied' /\ lost \subseteq lost'
      BY <1>5 DEF Receive, Spool
    <2>2. QED BY <1>2, <2>1
  <1>6. CASE Work
    <2>1. CASE Start
      BY <1>1, <2>1 DEF Start
    <2>2. ASSUME NEW s \in Slots, Finish(s)
          PROVE spool \subseteq spool' /\ applied \subseteq applied' /\ lost \subseteq lost'
      BY <2>2 DEF Finish, Handle
    <2>3. ASSUME NEW s \in Slots, Fail(s)
          PROVE spool \subseteq spool' /\ applied \subseteq applied' /\ lost \subseteq lost'
      <3>1. applied \subseteq applied'
        BY <2>3 DEF Fail, Handle
      <3>2. spool \subseteq spool' /\ lost \subseteq lost'
        BY <2>3 DEF Fail, Spool
      <3>3. QED BY <3>1, <3>2
    <2>4. QED BY <1>2, <1>6, <2>1, <2>2, <2>3 DEF Work
  <1>7. CASE Link \/ Save \/ Disconnect \/ Crash \/ Shutdown
    BY <1>1, <1>7 DEF Link, Redial, Connect, ReplayEnds, Save, Disconnect, Crash, Shutdown, Stop
  <1>8. ASSUME NEW e \in Events, Cleanup(e) PROVE UNCHANGED <<spool, applied, lost>>
    BY <1>8 DEF Cleanup
  <1>9. ASSUME NEW e \in Events, Replay(e)
        PROVE applied \subseteq applied' /\ UNCHANGED <<spool, lost>>
    BY <1>9 DEF Replay, Handle
  <1>10. ASSUME NEW v \in saving, SaveLands(v) PROVE UNCHANGED <<spool, applied, lost>>
    BY <1>10 DEF SaveLands
  <1>11. CASE UNCHANGED vars
    BY <1>1, <1>11 DEF vars
  <1>12. QED BY <1>1, <1>2, <1>3, <1>4, <1>5, <1>6, <1>7, <1>8, <1>9, <1>10, <1>11 DEF Next

\* Where safety comes from: nothing below the lowest pin is owed.
LEMMA SafeBelow ==
  ASSUME IInv, NEW c \in 0..N, IF Pinned = {} THEN c = seen ELSE Lowest(c, Pinned)
  PROVE  Settled(c)
  <1> SUFFICES ASSUME NEW e \in Events, e < c PROVE Covered(e)
    BY DEF Settled
  <1>1. seen \in 0..N
    BY DEF IInv, TypeOK
  <1>2. e \notin Pinned /\ e <= seen
    <2>1. CASE Pinned = {}
      BY <1>1, <2>1
    <2>2. CASE Pinned # {}
      <3>1. c \in Pinned /\ \A f \in Pinned : c <= f
        BY <2>2 DEF Lowest
      <3>2. c <= seen
        BY <3>1 DEF IInv, Known
      <3>3. QED BY <1>1, <3>1, <3>2
    <2>3. QED BY <2>1, <2>2
  <1>3. QED BY <1>2 DEF IInv, Received, Owed

LEMMA AdvanceSafe ==
  ASSUME IInv, Advance
  PROVE  Settled(cursor') /\ \A v \in saving' : Settled(v)
  <1>1. PICK c \in 0..N :
          /\ IF Pinned = {} THEN c = seen ELSE Lowest(c, Pinned)
          /\ cursor' = IF cursor < c THEN c ELSE cursor
          /\ saving' = IF cursor' = cursor THEN saving ELSE saving \cup {cursor'}
    BY DEF Advance, Holds, SafeCursor
  <1>2. Settled(c)
    BY <1>1, SafeBelow
  <1>3. Settled(cursor')
    BY <1>1, <1>2 DEF IInv, Behind
  <1>4. QED BY <1>1, <1>3 DEF IInv, Behind

\* A step that moves no pin and no slot, and counts no event off.
LEMMA PinsStay ==
  ASSUME IInv, [Next]_vars, UNCHANGED <<queue, work, inFlight, failed, seen>>
  PROVE  /\ \A e \in Events : Owed(e) => Owed(e)'
         /\ Known'
  <1>1. Pinned' = Pinned
    BY DEF Pinned, Queued
  <1>2. \A e \in Events : Covered(e) => Covered(e)'
    BY CoveredStays DEF IInv
  <1>3. QED BY <1>1, <1>2 DEF Owed, Known, IInv

\* A handler that ends: its event is pinned again or accounted for.
LEMMA PinsMoved ==
  ASSUME IInv, [Next]_vars, NEW s \in Slots, NEW e \in Events, work[s] = e, seen' = seen,
         Pinned' \subseteq Pinned \cup {e}, Pinned \subseteq Pinned' \cup {e},
         e \in Pinned' \/ Covered(e)',
         \A u \in Slots : work'[u] \in {work[u], e, 0}
  PROVE  /\ \A f \in Events : Owed(f) => Owed(f)'
         /\ Known'
  <1>1. e <= seen /\ seen \in 0..N
    BY DEF IInv, Known, TypeOK
  <1>2. \A f \in Events : Covered(f) => Covered(f)'
    BY CoveredStays DEF IInv
  <1>3. \A f \in Events : Owed(f) => Owed(f)'
    BY <1>2 DEF Owed
  <1>4. \A f \in Pinned' : f <= seen'
    BY <1>1 DEF IInv, Known
  <1>5. \A u \in Slots : work'[u] <= seen'
    <2>1. \A u \in Slots : work[u] <= seen
      BY DEF IInv, Known
    <2>2. 0 <= seen
      BY <1>1
    <2>3. QED BY <1>1, <2>1, <2>2
  <1>6. QED BY <1>3, <1>4, <1>5 DEF Known

LEMMA WorkPins ==
  ASSUME IInv, [Next]_vars, Work
  PROVE  /\ \A e \in Events : Owed(e) => Owed(e)'
         /\ Known'
  <1> USE DEF index, tasks, stream, marks, disk, fates, pins
  <1>0. TypeOK
    BY DEF IInv
  <1>1. CASE Start
    <2> DEFINE h == Head(queue)
    <2>1. /\ h \in Events /\ Queued' \subseteq Queued
          /\ Queued \subseteq Queued' \cup {h} /\ h \in Queued
      BY <1>0, <1>1, Taken DEF Start
    <2>2. inFlight' = inFlight \cup {h} /\ failed' = failed /\ seen' = seen
      BY <1>1 DEF Start
    <2>3. Pinned' = Pinned
      BY <2>1, <2>2 DEF Pinned
    <2>4. \A e \in Events : Covered(e) => Covered(e)'
      BY <1>0, CoveredStays
    <2>5. h <= seen
      BY <2>1 DEF Pinned, IInv, Known
    <2>6. \A u \in Slots : work'[u] \in {work[u], h}
      BY <1>0, <1>1 DEF Start, Occupy, TypeOK
    <2>7. \A u \in Slots : work'[u] <= seen'
      BY <2>2, <2>5, <2>6 DEF IInv, Known
    <2>8. \A e \in Pinned' : e <= seen'
      BY <2>2, <2>3 DEF IInv, Known
    <2>9. QED BY <2>3, <2>4, <2>7, <2>8 DEF Owed, Known
  <1>2. ASSUME NEW s \in Slots, work[s] # 0 PROVE work[s] \in Events
    BY <1>0, <1>2 DEF TypeOK
  <1>3. ASSUME NEW s \in Slots, Finish(s)
        PROVE (\A e \in Events : Owed(e) => Owed(e)') /\ Known'
    <2>1. PICK e \in Events : work[s] = e
      BY <1>2, <1>3 DEF Finish
    <2>2. /\ queue' = queue /\ seen' = seen
          /\ inFlight' = inFlight \ {e} /\ failed' = failed \ {e}
      BY <1>3, <2>1 DEF Finish, Finally
    <2>3. Queued' = Queued
      BY <2>2 DEF Queued
    <2>4. Pinned' \subseteq Pinned \cup {e} /\ Pinned \subseteq Pinned' \cup {e}
      BY <2>2, <2>3 DEF Pinned
    <2>5. Covered(e)'
      BY <1>3, <2>1 DEF Finish, Handle, Covered, Accounted
    <2>6. \A u \in Slots : work'[u] \in {work[u], e, 0}
      BY <1>0, <1>3 DEF Finish, TypeOK
    <2>7. QED BY <2>1, <2>2, <2>4, <2>5, <2>6, PinsMoved
  <1>4. ASSUME NEW s \in Slots, Fail(s)
        PROVE (\A e \in Events : Owed(e) => Owed(e)') /\ Known'
    <2>1. PICK e \in Events : work[s] = e
      BY <1>2, <1>4 DEF Fail
    <2> DEFINE w == [work EXCEPT ![s] = 0]
    <2>2. seen' = seen /\ inFlight' = inFlight \ {e}
      BY <1>4, <2>1 DEF Fail, Finally
    <2>3. \/ /\ failed' = failed \cup {e}
             /\ Enter(e, w)
          \/ /\ failed' = failed \ {e} /\ work' = w /\ queue' = queue
             /\ Covered(e)'
      BY <1>4, <2>1 DEF Fail, Spool, Covered, Accounted
    <2>4. w \in [Slots -> 0..N] /\ \A u \in Slots : w[u] \in {work[u], 0}
      BY <1>0 DEF TypeOK
    <2>5. CASE failed' = failed \cup {e} /\ Enter(e, w)
      <3> HIDE DEF w
      <3>1. /\ Queued' \subseteq Queued \cup {e} /\ Queued \subseteq Queued'
            /\ \A u \in Slots : work'[u] \in {w[u], e}
        BY <1>0, <2>4, <2>5, Entered
      <3>2. Pinned' \subseteq Pinned \cup {e} /\ Pinned \subseteq Pinned' \cup {e} /\ e \in Pinned'
        BY <2>2, <2>5, <3>1 DEF Pinned
      <3>3. \A u \in Slots : work'[u] \in {work[u], e, 0}
        BY <2>4, <3>1
      <3>4. QED BY <2>1, <2>2, <3>2, <3>3, PinsMoved
    <2>6. CASE failed' = failed \ {e} /\ work' = w /\ queue' = queue /\ Covered(e)'
      <3>1. Queued' = Queued
        BY <2>6 DEF Queued
      <3>2. Pinned' \subseteq Pinned \cup {e} /\ Pinned \subseteq Pinned' \cup {e}
        BY <2>2, <2>6, <3>1 DEF Pinned
      <3>3. \A u \in Slots : work'[u] \in {work[u], e, 0}
        BY <2>4, <2>6
      <3>4. QED BY <2>1, <2>2, <2>6, <3>2, <3>3, PinsMoved
    <2>7. QED BY <2>3, <2>5, <2>6
  <1>5. QED BY <1>1, <1>3, <1>4 DEF Work

\* Every step but a stop keeps what is owed pinned.
LEMMA OwedStays ==
  ASSUME IInv, [Next]_vars, ~Crash, ~Shutdown
  PROVE  /\ \A e \in Events : Owed(e) => Owed(e)'
         /\ Known' \/ Receive
  <1> USE DEF index, tasks, stream, marks, disk, fates, pins
  <1>0. TypeOK
    BY DEF IInv
  <1>1. \A e \in Events : Covered(e) => Covered(e)'
    BY <1>0, CoveredStays
  <1>2. CASE Receive
    <2>1. next \in Events
      BY <1>2 DEF Receive
    <2>2. Queued \subseteq Queued' /\ inFlight \subseteq inFlight' /\ failed' = failed
      <3>1. CASE Enter(next, work)
        BY <1>0, <1>2, <2>1, <3>1, Entered DEF TypeOK, Receive
      <3>2. CASE UNCHANGED <<queue, work, inFlight>>
        BY <1>2, <3>2 DEF Receive, Queued
      <3>3. QED BY <1>2, <3>1, <3>2 DEF Receive
    <2>3. Pinned \subseteq Pinned'
      BY <2>2 DEF Pinned
    <2>4. QED BY <1>1, <1>2, <2>3 DEF Owed
  <1>3. CASE Work
    BY <1>3, WorkPins
  <1>4. ASSUME NEW c \in Events, Cleanup(c)
        PROVE (\A e \in Events : Owed(e) => Owed(e)') /\ Known'
    <2> DEFINE old == {e \in failed : e <= c}
    <2>1. /\ UNCHANGED <<queue, work, inFlight, seen>> /\ failed' = failed \ old
          /\ unpinned' = unpinned \cup (old \ (Queued \cup inFlight))
      BY <1>4 DEF Cleanup
    <2> HIDE DEF old
    <2>2. Queued' = Queued
      BY <2>1 DEF Queued
    <2>3. Pinned' \subseteq Pinned /\ Pinned \subseteq Pinned' \cup old
      BY <2>1, <2>2 DEF Pinned
    <2>4. \A e \in old : e \in Pinned' \/ Covered(e)'
      BY <2>1, <2>2 DEF Covered, Pinned
    <2>5. \A e \in Events : Owed(e) => Owed(e)'
      BY <1>1, <2>3, <2>4 DEF Owed
    <2>6. Known'
      BY <2>1, <2>3 DEF IInv, Known
    <2>7. QED BY <2>5, <2>6
  <1>5. CASE UNCHANGED <<queue, work, inFlight, failed, seen>>
    BY <1>5, PinsStay
  <1>6. CASE Redial \/ Save
    BY <1>5, <1>6 DEF Redial, Save, Advance
  <1>7. CASE Connect \/ ReplayEnds \/ Disconnect
    BY <1>5, <1>7 DEF Connect, ReplayEnds, Disconnect
  <1>8. ASSUME NEW e \in Events, Replay(e) \/ SpoolAges(e)
        PROVE UNCHANGED <<queue, work, inFlight, failed, seen>>
    BY <1>8 DEF Replay, SpoolAges
  <1>9. ASSUME NEW v \in saving, SaveLands(v)
        PROVE UNCHANGED <<queue, work, inFlight, failed, seen>>
    BY <1>9 DEF SaveLands
  <1>10. ASSUME NEW S \in SUBSET Events, FileEnds(S)
         PROVE UNCHANGED <<queue, work, inFlight, failed, seen>>
    BY <1>10 DEF FileEnds
  <1>11. CASE UNCHANGED vars
    BY <1>5, <1>11 DEF vars
  <1>12. QED BY <1>2, <1>3, <1>4, <1>5, <1>6, <1>7, <1>8, <1>9, <1>10, <1>11 DEF Next, Link

LEMMA Stopped ==
  ASSUME IInv, [Next]_vars, NEW c \in Events, Stop(c), Settled(c)
  PROVE  Behind' /\ Received' /\ Streamed' /\ Known'
  <1> USE DEF index, fates
  <1>1. /\ cursor' = c /\ saved' = c /\ saving' = {} /\ seen' = 0 /\ link' = "boot"
        /\ queue' = <<>> /\ inFlight' = {} /\ failed' = {} /\ work' = [s \in Slots |-> 0]
    BY DEF Stop
  <1>2. \A e \in Events : Covered(e) => Covered(e)'
    BY CoveredStays DEF IInv
  <1>3. Behind'
    BY <1>1, <1>2 DEF Behind, Settled
  <1>4. Received' /\ Streamed'
    BY <1>1 DEF Received, Streamed
  <1>5. Pinned' = {}
    BY <1>1 DEF Pinned, Queued
  <1>6. QED BY <1>1, <1>3, <1>4, <1>5 DEF Known

LEMMA InvInit == Init => IInv
  <1> SUFFICES ASSUME Init PROVE IInv
    OBVIOUS
  <1>1. /\ cursor = 1 /\ saved = 1 /\ saving = {} /\ seen = 0 /\ link = "boot"
        /\ queue = <<>> /\ inFlight = {} /\ failed = {} /\ work = [s \in Slots |-> 0]
    BY DEF Init, Fresh
  <1>2. Behind
    BY <1>1 DEF Behind, Settled
  <1>3. Received /\ Streamed
    BY <1>1 DEF Received, Streamed
  <1>4. Pinned = {}
    BY <1>1 DEF Pinned, Queued
  <1>5. QED BY <1>1, <1>2, <1>3, <1>4, TypeInit DEF IInv, Known

LEMMA InvReceive ==
  ASSUME IInv, [Next]_vars, Receive
  PROVE  Received' /\ Streamed' /\ Known'
  <1> USE DEF index, tasks
  <1>0. TypeOK
    BY DEF IInv
  <1>1. PICK n \in Events : n = next
    BY DEF Receive
  <1>2. /\ link = "up" /\ next' = n + 1 /\ seen \in 0..N
        /\ seen' = IF seen < n THEN n ELSE seen
    BY <1>0, <1>1 DEF Receive, TypeOK
  <1>3. \A e \in Events : Covered(e) => Covered(e)'
    BY <1>0, CoveredStays
  <1>4. /\ Pinned \subseteq Pinned' /\ Pinned' \subseteq Pinned \cup {n}
        /\ n \in Pinned' \/ Covered(n)'
        /\ \A u \in Slots : work'[u] \in {work[u], n}
    <2>1. CASE /\ Enter(n, work)
               /\ inFlight' = IF StartsAtOnce THEN inFlight \cup {n} ELSE inFlight
      <3>1. work \in [Slots -> 0..N]
        BY <1>0 DEF TypeOK
      <3>2. /\ Queued' \subseteq Queued \cup {n} /\ Queued \subseteq Queued'
            /\ StartsAtOnce \/ n \in Queued'
            /\ \A u \in Slots : work'[u] \in {work[u], n}
        BY <1>0, <2>1, <3>1, Entered
      <3>3. failed' = failed
        BY DEF Receive
      <3>4. QED BY <2>1, <3>2, <3>3 DEF Pinned
    <2>2. CASE Spool(n) /\ UNCHANGED <<queue, work, inFlight>>
      <3>1. Covered(n)'
        BY <2>2 DEF Spool, Covered, Accounted
      <3>2. Queued' = Queued /\ failed' = failed
        BY <2>2 DEF Queued, Receive
      <3>3. QED BY <2>2, <3>1, <3>2 DEF Pinned
    <2>3. QED BY <1>1, <2>1, <2>2 DEF Receive
  <1>5. \A e \in Events : Owed(e) => Owed(e)'
    BY <1>3, <1>4 DEF Owed
  <1>6. Owed(n)'
    BY <1>4 DEF Owed
  <1>7. \A e \in Events : e < n + 1 => Owed(e)'
    BY <1>1, <1>2, <1>5, <1>6 DEF IInv, Streamed
  <1>8. Streamed'
    BY <1>2, <1>7 DEF Streamed
  <1>9. Received'
    <2> SUFFICES ASSUME NEW e \in Events, e <= seen' PROVE Owed(e)'
      BY DEF Received
    <2>1. CASE e < n + 1
      BY <1>7, <2>1
    <2>2. CASE ~(e < n + 1)
      <3>1. e <= seen
        BY <1>2, <2>2
      <3>2. QED BY <1>5, <3>1 DEF IInv, Received
    <2>3. QED BY <2>1, <2>2
  <1>10. Known'
    <2>1. n <= seen' /\ seen <= seen'
      BY <1>2
    <2>2. \A e \in Pinned : e <= seen'
      <3> SUFFICES ASSUME NEW e \in Pinned PROVE e <= seen'
        OBVIOUS
      <3>1. e <= seen /\ e \in Events
        BY <1>0, QueuedType DEF IInv, Known
      <3>2. QED BY <1>2, <2>1, <3>1
    <2>3. \A u \in Slots : work[u] <= seen'
      <3> SUFFICES ASSUME NEW u \in Slots PROVE work[u] <= seen'
        OBVIOUS
      <3>1. work[u] <= seen /\ work[u] \in 0..N
        BY <1>0 DEF IInv, Known, TypeOK
      <3>2. QED BY <1>2, <2>1, <3>1
    <2>4. QED BY <1>4, <2>1, <2>2, <2>3 DEF Known
  <1>11. QED BY <1>8, <1>9, <1>10

\* What a step that does not stop the process does to cursor and connection.
LEMMA LinkMoves ==
  ASSUME [Next]_vars, ~Crash, ~Shutdown
  PROVE  /\ \/ (Redial \/ Save) /\ saved' = saved
            \/ cursor' = cursor /\ saving' \subseteq saving /\ saved' \in saving \cup {saved}
         /\ Receive \/ seen' = seen
         /\ Receive \/ Connect \/ link' # "up" \/ UNCHANGED <<link, next>>
  <1> USE DEF index, tasks, stream, marks, disk, fates, pins
  <1>1. CASE Redial \/ Save
    BY <1>1 DEF Redial, Save, Advance
  <1>2. CASE Receive
    BY <1>2 DEF Receive
  <1>3. CASE Work
    BY <1>3 DEF Work, Start, Finish, Fail, Finally
  <1>4. CASE Connect \/ ReplayEnds \/ Disconnect
    BY <1>4 DEF Connect, ReplayEnds, Disconnect
  <1>5. ASSUME NEW e \in Events, Cleanup(e) \/ Replay(e) \/ SpoolAges(e)
        PROVE UNCHANGED <<cursor, saving, saved, seen, link, next>>
    BY <1>5 DEF Cleanup, Replay, SpoolAges
  <1>6. ASSUME NEW v \in saving, SaveLands(v)
        PROVE /\ UNCHANGED <<cursor, seen, link, next>> /\ saved' \in saving \cup {saved}
              /\ saving' \subseteq saving
    BY <1>6 DEF SaveLands
  <1>7. ASSUME NEW S \in SUBSET Events, FileEnds(S)
        PROVE UNCHANGED <<cursor, saving, saved, seen, link, next>>
    BY <1>7 DEF FileEnds
  <1>8. CASE UNCHANGED vars
    BY <1>8 DEF vars
  <1>9. QED BY <1>1, <1>2, <1>3, <1>4, <1>5, <1>6, <1>7, <1>8 DEF Next, Link

LEMMA InvStep == IInv /\ [Next]_vars => IInv'
  <1> SUFFICES ASSUME IInv, [Next]_vars PROVE IInv'
    OBVIOUS
  <1> USE DEF index, tasks, stream, marks, disk, fates, pins
  <1>0. TypeOK /\ TypeOK'
    BY TypeStep DEF IInv
  <1>1. \A e \in Events : Covered(e) => Covered(e)'
    BY <1>0, CoveredStays
  <1>2. CASE Crash
    <2>1. saved \in Events /\ Settled(saved) /\ Stop(saved)
      BY <1>0, <1>2 DEF IInv, Behind, Crash, TypeOK
    <2>2. PICK c \in Events : c = saved
      BY <2>1
    <2>3. QED BY <1>0, <2>1, <2>2, Stopped DEF IInv
  <1>3. CASE Shutdown
    <2>1. PICK c \in Events : Stop(c) /\ IF Pinned = {} THEN c = cursor ELSE Lowest(c, Pinned)
      BY <1>0, <1>3, ShutdownAt
    <2>2. Settled(c)
      <3>1. CASE Pinned = {}
        BY <2>1, <3>1 DEF IInv, Behind
      <3>2. CASE Pinned # {}
        <4>1. c \in 0..N
          OBVIOUS
        <4>2. QED BY <2>1, <3>2, <4>1, SafeBelow
      <3>3. QED BY <3>1, <3>2
    <2>3. QED BY <1>0, <2>1, <2>2, Stopped DEF IInv
  <1>4. CASE ~Crash /\ ~Shutdown
    <2>1. /\ \A e \in Events : Owed(e) => Owed(e)'
          /\ Known' \/ Receive
      BY <1>4, OwedStays
    <2>2. Behind'
      <3>1. Settled(cursor') /\ Settled(saved') /\ \A v \in saving' : Settled(v)
        <4>1. CASE (Redial \/ Save) /\ saved' = saved
          <5>1. Advance
            BY <4>1 DEF Redial, Save
          <5>2. QED BY <4>1, <5>1, AdvanceSafe DEF IInv, Behind
        <4>2. CASE /\ cursor' = cursor /\ saving' \subseteq saving
                   /\ saved' \in saving \cup {saved}
          BY <4>2 DEF IInv, Behind
        <4>3. QED BY <1>4, <4>1, <4>2, LinkMoves
      <3>2. QED BY <1>1, <3>1 DEF Behind, Settled
    <2>3. CASE Receive
      BY <1>0, <2>2, <2>3, InvReceive DEF IInv
    <2>4. CASE ~Receive
      <3>1. seen' = seen
        BY <1>4, <2>4, LinkMoves
      <3>2. Received'
        BY <2>1, <3>1 DEF IInv, Received
      <3>3. Streamed'
        <4>1. CASE Connect
          <5>1. next' = cursor
            BY <4>1 DEF Connect
          <5>2. \A e \in Events : e < next' => Covered(e)
            BY <5>1 DEF IInv, Behind, Settled
          <5>3. QED BY <1>1, <5>2 DEF Streamed, Owed
        <4>2. CASE link' # "up"
          BY <4>2 DEF Streamed
        <4>3. CASE link' = link /\ next' = next
          BY <2>1, <4>3 DEF IInv, Streamed
        <4>4. QED BY <1>4, <2>4, <4>1, <4>2, <4>3, LinkMoves
      <3>4. QED BY <1>0, <2>1, <2>2, <2>4, <3>2, <3>3 DEF IInv
    <2>5. QED BY <2>3, <2>4
  <1>5. QED BY <1>2, <1>3, <1>4

\* The inductive invariant.
THEOREM Invariance == Spec => []IInv
  BY InvInit, InvStep, PTL DEF Spec

\* What lies behind the saved cursor was handled, spooled or given up.
THEOREM CursorBehind == Spec => []CursorNeverPasses
  <1>1. IInv => CursorNeverPasses
    BY DEF IInv, Behind, Settled, CursorNeverPasses
  <1>2. QED BY <1>1, Invariance, PTL

-----------------------------------------------------------------------------
\* The index.

Top(r) == IF r \in Listings THEN Later(listing[r].row, listing[r].mark) ELSE presence[r].rev
Shown(r) == IF r \in Listings THEN listing[r].row
            ELSE IF presence[r].there THEN presence[r].rev ELSE 0

\* A row and a marker of one listing: the row is newer, and some event put it.
Sound(l) == l.row # 0 => l.mark < l.row /\ log[l.row].put
IndexInv == TypeOK /\ \A r \in Listings : Sound(listing[r])

LEMMA TopType == TypeOK => \A r \in Records : Top(r) \in 0..N
  <1> SUFFICES ASSUME TypeOK, NEW r \in Records PROVE Top(r) \in 0..N
    OBVIOUS
  <1>1. CASE r \in Listings
    <2>1. listing[r].row \in 0..N /\ listing[r].mark \in 0..N
      BY <1>1 DEF TypeOK, Entry
    <2>2. QED BY <1>1, <2>1 DEF Top
  <1>2. CASE r \notin Listings
    <2>1. presence[r].rev \in 0..N
      BY <1>2 DEF TypeOK, Presence
    <2>2. QED BY <1>2, <2>1 DEF Top
  <1>3. QED BY <1>1, <1>2

\* What an event does to the row and the marker of its listing.
LEMMA Listed ==
  ASSUME NEW l \in Entry, NEW e \in Events, l.row # 0 => l.mark < l.row
  PROVE  /\ Later(l.row, l.mark) < e =>
              /\ Put(l, e) = [row |-> e, mark |-> 0]
              /\ Remove(l, e) = [row |-> 0, mark |-> e]
         /\ ~(Later(l.row, l.mark) < e) =>
              /\ Put(l, e).row = l.row
              /\ Later(Put(l, e).row, Put(l, e).mark) = Later(l.row, l.mark)
              /\ l.row # 0 => Put(l, e).mark < l.row
              /\ l.row # e =>
                   /\ Remove(l, e).row = l.row
                   /\ Later(Remove(l, e).row, Remove(l, e).mark) = Later(l.row, l.mark)
                   /\ l.row # 0 => Remove(l, e).mark < l.row
  <1>1. l.row \in 0..N /\ l.mark \in 0..N /\ e \in 1..N
    BY DEF Entry
  <1>2. CASE Later(l.row, l.mark) < e
    <2>1. l.row < e /\ l.mark < e
      BY <1>1, <1>2
    <2>2. QED BY <1>1, <1>2, <2>1 DEF Put, Remove
  <1>3. CASE ~(Later(l.row, l.mark) < e)
    <2>1. CASE l.mark >= e
      <3>1. l.row = 0 \/ l.row > e
        BY <1>1, <2>1
      <3>2. Put(l, e) = l
        BY <2>1 DEF Put
      <3>3. Remove(l, e).row = l.row /\ Remove(l, e).mark = l.mark
        BY <1>1, <2>1, <3>1 DEF Remove
      <3>4. QED BY <1>1, <1>3, <2>1, <3>2, <3>3
    <2>2. CASE l.mark < e /\ l.row >= e
      <3>1. Put(l, e) = [row |-> l.row, mark |-> 0]
        BY <1>1, <2>2 DEF Put
      <3>2. l.row # e => Remove(l, e) = [row |-> l.row, mark |-> e]
        BY <1>1, <2>2 DEF Remove
      <3>3. QED BY <1>1, <1>3, <2>2, <3>1, <3>2
    <2>3. QED BY <1>1, <1>3, <2>1, <2>2
  <1>4. QED BY <1>2, <1>3

\* A handled event is taken by the index, or changes nothing it shows.
LEMMA HandleTakes ==
  ASSUME IndexInv, NEW e \in Events, Handle(e), log' = log
  PROVE  /\ \A r \in Listings : Sound(listing[r])'
         /\ Index!Take(e) \/ (UNCHANGED Index!vars /\ e <= Top(log[e].rec))
  <1> DEFINE r == log[e].rec
             T == [q \in Records |-> Top(q)]
             S == [q \in Records |-> Shown(q)]
  <1>0. TypeOK /\ log[e] \in Entries
    BY StreamFacts DEF IndexInv, TypeOK
  <1>1. r \in Records /\ log[e].put \in BOOLEAN
    BY <1>0 DEF Entries
  <1>2. Index!Take(e) <=> /\ T[r] < e
                          /\ T' = [T EXCEPT ![r] = e]
                          /\ S' = [S EXCEPT ![r] = IF log[e].put THEN e ELSE 0]
                          /\ UNCHANGED log
    BY DEF Index!Take, Top, Shown
  <1>3. UNCHANGED Index!vars <=> log' = log /\ T' = T /\ S' = S
    BY DEF Index!vars, Top, Shown
  <1>4. CASE r \in Listings
    <2> DEFINE l == listing[r]
               m == IF log[e].put THEN Put(l, e) ELSE Remove(l, e)
    <2>1. listing' = [listing EXCEPT ![r] = m] /\ presence' = presence
      <3>1. r \notin Presences
        BY <1>4
      <3>2. QED BY <1>4, <3>1 DEF Handle
    <2>2. l \in Entry /\ Sound(l)
      BY <1>0, <1>4 DEF IndexInv, TypeOK
    <2>3. listing'[r] = m /\ \A q \in Listings \ {r} : listing'[q] = listing[q]
      BY <1>0, <1>4, <2>1 DEF TypeOK
    <2>4. \A q \in Records \ {r} : Top(q)' = Top(q) /\ Shown(q)' = Shown(q)
      BY <2>1, <2>3 DEF Top, Shown
    <2>5. \A q \in Listings \ {r} : Sound(listing[q])'
      BY <2>3 DEF IndexInv, Sound
    <2>6. /\ Top(r)' = Later(m.row, m.mark) /\ Shown(r)' = m.row
          /\ Top(r) = Later(l.row, l.mark) /\ Shown(r) = l.row
      BY <1>4, <2>3 DEF Top, Shown
    <2>7. CASE Later(l.row, l.mark) < e
      <3>1. m = IF log[e].put THEN [row |-> e, mark |-> 0] ELSE [row |-> 0, mark |-> e]
        BY <2>2, <2>7, Listed DEF Sound
      <3>2. Later(m.row, m.mark) = e /\ m.row = IF log[e].put THEN e ELSE 0
        BY <3>1
      <3>3. m.row # 0 => m.mark < m.row /\ log[m.row].put
        BY <3>1
      <3>4. Sound(listing[r])'
        BY <2>3, <3>3 DEF Sound
      <3>5. T' = [T EXCEPT ![r] = e] /\ S' = [S EXCEPT ![r] = IF log[e].put THEN e ELSE 0]
        BY <1>1, <2>4, <2>6, <3>2
      <3>6. T[r] < e
        BY <1>1, <2>6, <2>7
      <3>7. QED BY <1>2, <2>5, <3>4, <3>5, <3>6
    <2>8. CASE ~(Later(l.row, l.mark) < e)
      <3>1. ~log[e].put => l.row # e
        BY <2>2 DEF Sound
      <3>2. /\ m.row = l.row /\ Later(m.row, m.mark) = Later(l.row, l.mark)
            /\ l.row # 0 => m.mark < l.row
        BY <1>1, <2>2, <2>8, <3>1, Listed DEF Sound
      <3>3. Sound(listing[r])'
        BY <2>2, <2>3, <3>2 DEF Sound
      <3>4. T' = T /\ S' = S
        BY <1>1, <2>4, <2>6, <3>2
      <3>5. e <= Top(r)
        BY <1>1, <2>6, <2>8, TopType, <1>0
      <3>6. QED BY <1>3, <2>5, <3>3, <3>4, <3>5
    <2>9. QED BY <2>7, <2>8
  <1>5. CASE r \notin Listings
    <2>1. r \in Presences /\ listing' = listing
      BY <1>1, <1>5 DEF Handle
    <2>2. \A q \in Listings : Sound(listing[q])'
      BY <2>1 DEF IndexInv, Sound
    <2>3. CASE presence[r].rev < e
      <3>1. presence' = [presence EXCEPT ![r] = [rev |-> e, there |-> log[e].put]]
        BY <2>1, <2>3 DEF Handle
      <3>2. /\ presence'[r] = [rev |-> e, there |-> log[e].put]
            /\ \A q \in Presences \ {r} : presence'[q] = presence[q]
        BY <1>0, <2>1, <3>1 DEF TypeOK
      <3>3. \A q \in Records \ {r} : Top(q)' = Top(q) /\ Shown(q)' = Shown(q)
        BY <2>1, <3>2 DEF Top, Shown
      <3>4. Top(r)' = e
        BY <1>5, <3>2 DEF Top
      <3>5. Shown(r)' = IF log[e].put THEN e ELSE 0
        BY <1>5, <3>2 DEF Shown
      <3>6. T' = [T EXCEPT ![r] = e] /\ S' = [S EXCEPT ![r] = IF log[e].put THEN e ELSE 0]
        BY <1>1, <3>3, <3>4, <3>5
      <3>7. T[r] < e
        BY <1>1, <1>5, <2>3 DEF Top
      <3>8. QED BY <1>2, <2>2, <3>6, <3>7
    <2>4. CASE ~(presence[r].rev < e)
      <3>1. presence' = presence
        BY <2>4 DEF Handle
      <3>2. \A q \in Records : Top(q)' = Top(q) /\ Shown(q)' = Shown(q)
        BY <2>1, <3>1 DEF Top, Shown
      <3>3. T' = T /\ S' = S
        BY <3>2
      <3>4. e <= Top(r)
        BY <1>0, <1>1, <1>5, <2>4, TopType DEF Top
      <3>5. QED BY <1>3, <2>2, <3>3, <3>4
    <2>5. QED BY <2>3, <2>4
  <1>6. QED BY <1>4, <1>5

LEMMA IndexInit == Init => IndexInv /\ Index!Init
  <1> SUFFICES ASSUME Init PROVE IndexInv /\ Index!Init
    OBVIOUS
  <1>1. \A r \in Listings : listing[r] = [row |-> 0, mark |-> 0]
    BY DEF Init
  <1>2. \A r \in Presences : presence[r] = [rev |-> 0, there |-> FALSE]
    BY DEF Init
  <1>3. \A r \in Listings : Sound(listing[r])
    BY <1>1 DEF Sound
  <1>4. \A r \in Records : Top(r) = 0 /\ Shown(r) = 0
    <2>1. \A r \in Listings : Top(r) = 0 /\ Shown(r) = 0
      <3> SUFFICES ASSUME NEW r \in Listings PROVE Top(r) = 0 /\ Shown(r) = 0
        OBVIOUS
      <3>1. listing[r].row = 0 /\ listing[r].mark = 0
        BY <1>1
      <3>2. Top(r) = Later(listing[r].row, listing[r].mark) /\ Shown(r) = listing[r].row
        BY DEF Top, Shown
      <3>3. QED BY ONLY <3>1, <3>2 DEF Later
    <2>2. \A r \in Presences : r \notin Listings
      OBVIOUS
    <2>3. \A r \in Presences : Top(r) = 0 /\ Shown(r) = 0
      BY <1>2, <2>2 DEF Top, Shown
    <2>4. QED BY <2>1, <2>3
  <1>5. log \in [Events -> Entries]
    BY StreamFacts DEF Init
  <1>6. Index!Init
    BY <1>4, <1>5 DEF Index!Init, Top, Shown, Entries
  <1>7. QED BY <1>3, <1>6, TypeInit DEF IndexInv

\* A step handles one event, or leaves the index and the history alone.
LEMMA HandlesOne ==
  ASSUME TypeOK, [Next]_vars
  PROVE  /\ log' = log
         /\ \/ UNCHANGED <<listing, presence, applied>>
            \/ \E e \in Events : Handle(e)
  <1> USE DEF index, tasks, stream, marks, disk, fates, pins
  <1>1. CASE Receive
    BY <1>1 DEF Receive
  <1>2. CASE Work
    <2>1. CASE Start
      BY <2>1 DEF Start
    <2>2. ASSUME NEW s \in Slots, Finish(s) \/ Fail(s)
          PROVE  /\ log' = log
                 /\ \/ UNCHANGED <<listing, presence, applied>>
                    \/ \E e \in Events : Handle(e)
      <3>1. work[s] \in Events
        <4>1. work[s] \in 0..N
          BY DEF TypeOK
        <4>2. work[s] # 0
          BY <2>2 DEF Finish, Fail
        <4>3. QED BY <4>1, <4>2
      <3>2. QED BY <2>2, <3>1 DEF Finish, Fail
    <2>3. QED BY <1>2, <2>1, <2>2 DEF Work
  <1>3. CASE Link \/ Save \/ Disconnect \/ Crash \/ Shutdown
    BY <1>3 DEF Link, Redial, Connect, ReplayEnds, Save, Disconnect, Crash, Shutdown, Stop
  <1>4. ASSUME NEW e \in Events, Cleanup(e) \/ SpoolAges(e)
        PROVE  log' = log /\ UNCHANGED <<listing, presence, applied>>
    BY <1>4 DEF Cleanup, SpoolAges
  <1>5. ASSUME NEW e \in Events, Replay(e)
        PROVE  log' = log /\ (Handle(e) \/ UNCHANGED <<listing, presence, applied>>)
    BY <1>5 DEF Replay
  <1>6. ASSUME NEW v \in saving, SaveLands(v)
        PROVE  log' = log /\ UNCHANGED <<listing, presence, applied>>
    BY <1>6 DEF SaveLands
  <1>7. ASSUME NEW F \in SUBSET Events, FileEnds(F)
        PROVE  log' = log /\ UNCHANGED <<listing, presence, applied>>
    BY <1>7 DEF FileEnds
  <1>8. CASE UNCHANGED vars
    BY <1>8 DEF vars
  <1>9. QED BY <1>1, <1>2, <1>3, <1>4, <1>5, <1>6, <1>7, <1>8 DEF Next

LEMMA IndexStep ==
  ASSUME IndexInv, [Next]_vars
  PROVE  IndexInv' /\ [Index!Next]_(Index!vars)
  <1>1. TypeOK /\ TypeOK'
    BY TypeStep DEF IndexInv
  <1>2. CASE UNCHANGED <<log, listing, presence>>
    BY <1>1, <1>2 DEF IndexInv, Sound, Index!vars
  <1>3. ASSUME NEW e \in Events, Handle(e), log' = log
        PROVE  IndexInv' /\ (Index!Next \/ UNCHANGED Index!vars)
    BY <1>1, <1>3, HandleTakes DEF IndexInv, Index!Next
  <1>4. QED BY <1>1, <1>2, <1>3, HandlesOne

\* However often and in whatever order events are handled, the index shows of
\* each record what the newest one it has taken says.
THEOREM NewestWins == Spec => ImplementsIndex
  <1>1. Init => IndexInv /\ Index!Init
    BY IndexInit
  <1>2. IndexInv /\ [Next]_vars => IndexInv' /\ [Index!Next]_(Index!vars)
    BY IndexStep
  <1>3. QED BY <1>1, <1>2, PTL DEF Spec, ImplementsIndex, Index!Spec

\* The index is a function of what was handled, however often and in whatever
\* order that was: of each record it stands at the newest event handled, and
\* shows what that one says.
Mirrors(r) ==
    /\ \A e \in applied : log[e].rec = r => e <= Top(r)
    /\ Top(r) # 0 => Top(r) \in applied /\ log[Top(r)].rec = r
    /\ Shown(r) = IF Top(r) # 0 /\ log[Top(r)].put THEN Top(r) ELSE 0

IndexMirrors == \A r \in Records : Mirrors(r)

\* Below the saved cursor the index lacks only what waits on disk, was given
\* up on purpose, or lost its pin while its retry ran.
NothingMissing ==
    \A e \in Events : e < saved /\ e \notin spool \cup lost \cup unpinned
                         => e <= Top(log[e].rec)

LEMMA MirrorInit == Init => IndexMirrors
  <1> SUFFICES ASSUME Init, NEW r \in Records PROVE Mirrors(r)
    BY DEF IndexMirrors
  <1>1. applied = {}
    BY DEF Init
  <1>2. Top(r) = 0 /\ Shown(r) = 0
    <2>1. CASE r \in Listings
      <3>1. listing[r].row = 0 /\ listing[r].mark = 0
        BY <2>1 DEF Init
      <3>2. QED BY <2>1, <3>1 DEF Top, Shown, Later
    <2>2. CASE r \notin Listings
      BY <2>2 DEF Init, Top, Shown, Records
    <2>3. QED BY <2>1, <2>2
  <1>3. QED BY <1>1, <1>2 DEF Mirrors

LEMMA MirrorHandle ==
  ASSUME IndexInv, IndexMirrors, NEW e \in Events, Handle(e), log' = log
  PROVE  IndexMirrors'
  <1> DEFINE r == log[e].rec
  <1>1. log \in [Events -> Entries] /\ applied' = applied \cup {e} /\ applied \subseteq Events
    BY StreamFacts DEF IndexInv, TypeOK, Handle
  <1>2. r \in Records
    BY <1>1 DEF Entries
  <1>3. \A q \in Records : Mirrors(q)
    BY DEF IndexMirrors
  <1>4. ASSUME NEW q \in Records, q # r, Top(q)' = Top(q), Shown(q)' = Shown(q)
        PROVE  Mirrors(q)'
    BY <1>1, <1>3, <1>4 DEF Mirrors
  <1>5. CASE UNCHANGED Index!vars /\ e <= Top(r)
    <2>1. \A q \in Records : Top(q)' = Top(q) /\ Shown(q)' = Shown(q)
      BY <1>5 DEF Index!vars, Top, Shown
    <2>2. Mirrors(r)'
      BY <1>1, <1>2, <1>3, <1>5, <2>1 DEF Mirrors
    <2>3. QED BY <1>4, <2>1, <2>2 DEF IndexMirrors
  <1>6. CASE Index!Take(e)
    <2> DEFINE T == [q \in Records |-> Top(q)]
               S == [q \in Records |-> Shown(q)]
    <2>1. /\ T[r] < e
          /\ T' = [T EXCEPT ![r] = e]
          /\ S' = [S EXCEPT ![r] = IF log[e].put THEN e ELSE 0]
      BY <1>6 DEF Index!Take, Top, Shown
    <2>2. \A q \in Records : /\ Top(q)' = IF q = r THEN e ELSE Top(q)
                             /\ Shown(q)' = IF q # r THEN Shown(q)
                                            ELSE IF log[e].put THEN e ELSE 0
      <3> SUFFICES ASSUME NEW q \in Records
                   PROVE  /\ Top(q)' = IF q = r THEN e ELSE Top(q)
                          /\ Shown(q)' = IF q # r THEN Shown(q)
                                         ELSE IF log[e].put THEN e ELSE 0
        OBVIOUS
      <3>1. T'[q] = Top(q)' /\ S'[q] = Shown(q)' /\ T[q] = Top(q) /\ S[q] = Shown(q)
        OBVIOUS
      <3> HIDE DEF T, S
      <3>2. T'[q] = (IF q = r THEN e ELSE T[q]) /\ DOMAIN T = Records
        BY <2>1 DEF T
      <3>3. S'[q] = (IF q # r THEN S[q] ELSE IF log[e].put THEN e ELSE 0)
        BY <2>1 DEF S
      <3>4. QED BY <3>1, <3>2, <3>3
    <2>3. Top(r) < e
      BY <1>2, <2>1
    <2> HIDE DEF T, S
    <2>4. Mirrors(r)'
      <3>1. Top(r)' = e /\ Shown(r)' = IF log[e].put THEN e ELSE 0
        BY <1>2, <2>2
      <3>2. \A d \in applied : log[d].rec = r => d <= e
        <4> SUFFICES ASSUME NEW d \in applied, log[d].rec = r PROVE d <= e
          OBVIOUS
        <4>1. d <= Top(r) /\ d \in Nat /\ e \in Nat
          BY <1>1, <1>2, <1>3 DEF Mirrors
        <4>2. Top(r) \in Nat
          BY <1>2, TopType DEF IndexInv
        <4>3. QED BY <2>3, <4>1, <4>2
      <3>3. QED BY <1>1, <3>1, <3>2 DEF Mirrors
    <2>5. QED BY <1>4, <2>2, <2>4 DEF IndexMirrors
  <1>7. QED BY <1>5, <1>6, HandleTakes

LEMMA MirrorStep == IndexInv /\ IndexMirrors /\ [Next]_vars => IndexMirrors'
  <1> SUFFICES ASSUME IndexInv, IndexMirrors, [Next]_vars PROVE IndexMirrors'
    OBVIOUS
  <1>1. CASE UNCHANGED <<log, listing, presence, applied>>
    BY <1>1 DEF IndexMirrors, Mirrors, Top, Shown
  <1>2. QED BY <1>1, HandlesOne, MirrorHandle DEF IndexInv

\* The index is what the events handled make it, in any order and any number.
THEOREM OrderIsNothing == Spec => []IndexMirrors
  <1>1. IndexInv /\ [Next]_vars => IndexInv'
    BY IndexStep
  <1>2. QED BY <1>1, IndexInit, MirrorInit, MirrorStep, PTL DEF Spec

\* What lies behind the saved cursor is in the index, or newer news of the
\* record are, unless it waits on disk, was given up, or lost its pin while its
\* retry ran.
THEOREM IndexUpToCursor == Spec => []NothingMissing
  <1>1. TypeOK /\ CursorNeverPasses /\ IndexMirrors => NothingMissing
    <2> SUFFICES ASSUME TypeOK, CursorNeverPasses, IndexMirrors,
                        NEW e \in Events, e < saved,
                        e \notin spool \cup lost \cup unpinned
                 PROVE  e <= Top(log[e].rec)
      BY DEF NothingMissing
    <2>1. e \in applied
      BY DEF CursorNeverPasses, Covered, Accounted
    <2>2. log[e].rec \in Records
      BY StreamFacts DEF TypeOK, Entries
    <2>3. QED BY <2>1, <2>2 DEF IndexMirrors, Mirrors
  <1>2. QED BY <1>1, TypeCorrect, CursorBehind, OrderIsNothing, PTL

\* Where this life of the process, or its next connection, reads on.
Ahead == IF link = "up" THEN next ELSE cursor

\* No event is forgotten while the process lives: it was handled, is on disk,
\* was given up or lost its pin while its retry ran, pins the cursor, or is
\* still to come on the stream.
NobodyForgets == \A e \in Events : Covered(e) \/ e \in Pinned \/ Ahead <= e

\* A drop, a save, a reconnect in the middle of a backlog: whatever the live
\* connection passed over is still in a hand that will settle it.
THEOREM EventsStayInHand == Spec => []NobodyForgets
  <1>1. ASSUME IInv, NEW e \in Events, e < Ahead
        PROVE  Covered(e) \/ e \in Pinned
    <2>1. CASE link = "up"
      BY <1>1, <2>1 DEF IInv, Streamed, Owed, Ahead
    <2>2. CASE link # "up"
      BY <1>1, <2>2 DEF IInv, Behind, Settled, Ahead
    <2>3. QED BY <2>1, <2>2
  <1>2. IInv => Ahead \in Nat /\ Events \subseteq Nat
    <2>1. IInv => next \in 1..N+1 /\ cursor \in 1..N /\ N \in Nat
      BY DEF IInv, TypeOK
    <2>2. QED BY ONLY <2>1 DEF Ahead, Events
  <1>3. IInv => NobodyForgets
    BY <1>1, <1>2 DEF NobodyForgets
  <1>4. QED BY <1>3, Invariance, PTL

=============================================================================
