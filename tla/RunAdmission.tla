---------------------------- MODULE RunAdmission ----------------------------
(***************************************************************************)
(* The admission of a provider's results to an interactive run:            *)
(* packages/core/src/run and the owner's routes of                         *)
(* core/src/server/routes/run.ts, for one run that pulls.                  *)
(*                                                                         *)
(* The run opens slots ahead of its cursor and asks the provider for the   *)
(* result at each.  An answer is admitted when the cursor has reached its  *)
(* slot; one that finds the persona locked is staged and its slot held     *)
(* until a replay, when the persona opens, admits it.  The end of a run    *)
(* begins with a barrier, which closes every slot, and is reached at the   *)
(* drain deadline.                                                         *)
(*                                                                         *)
(* Every handler is one turn of Core's event loop and so one step; a       *)
(* replay is a turn of several commits, between which only a crash comes.  *)
(***************************************************************************)
EXTENDS Integers, FiniteSets

CONSTANTS
    Slots,      \* bound: the reservations ever made
    Ids,        \* message ids
    KeyOf,      \* the dedup_key of each
    NoId,
    MaxCap,     \* bound: queue_cap
    MaxCount,   \* max_count
    Basis       \* max_count_basis, or "none" for a run with no max_count

ASSUME RunAssumption ==
    /\ IsFiniteSet(Slots)
    /\ NoId \notin Ids
    /\ MaxCap \in Nat /\ MaxCount \in Nat \ {0}
    /\ Basis \in {"produced", "decided", "none"}

VARIABLES
    runState,    \* interactive_runs.state
    cause,       \* drain_cause
    overdue,     \* drain_deadline_at is past
    expired,     \* expires_at is past
    lostPause,   \* paused_reason is response_lost
    cap,         \* queue_cap
    cursor,      \* fetch_cursor
    produced,    \* produced_count
    decided,     \* decided_count
    res,         \* run_reservations
    msg,         \* run_messages, each under its reservation
    open,        \* the run's persona is open
    pass,        \* rows the running replay still has to visit
    twins        \* history: slots held already when their message was
                 \* admitted under another id

runVars == <<runState, cause, overdue>>
core == <<runVars, expired, lostPause, cap, cursor, produced, decided, res, msg, open, pass>>
vars == <<core, twins>>

-----------------------------------------------------------------------------

Positions == 0..Cardinality(Slots)

Terminal == {"completed", "stopped", "expired"}
RunStates == {"active", "paused", "draining"} \cup Terminal
Fencing == {"cancel_pending", "expiry"}
Causes == {"count", "exhaustion", "finish_pending"} \cup Fencing

TerminalOf(c) ==
    CASE c \in {"cancel_pending", "finish_pending"} -> "stopped"
      [] c = "expiry" -> "expired"
      [] OTHER -> "completed"

\* staged: the sealed copy of a held answer; "bad" is one that cannot be read.
Row == [state: {"none", "reserved", "held", "committed", "released", "lost", "skipped"},
        cursor: Positions, id: Ids \cup {NoId}, staged: {"none", "good", "bad"}]
NoRow == [state |-> "none", cursor |-> 0, id |-> NoId, staged |-> "none"]

OpenIn(rows) == {s \in Slots : rows[s].state \in {"reserved", "held"}}
UndecidedIn(m) == {s \in Slots : m[s] = "undecided"}
Outstanding == Cardinality(UndecidedIn(msg)) + Cardinality(OpenIn(res))

In(state) == {s \in Slots : res[s].state = state}
CursorsOf(S) == {res[s].cursor : s \in S}
SkippedIn(rows) == {rows[s].cursor : s \in {t \in Slots : rows[t].state = "skipped"}}

Admitted == {s \in Slots : msg[s] # "none"}
KnownIds == {res[s].id : s \in Admitted}

Init ==
    /\ runState = "active" /\ cause = "none" /\ overdue = FALSE
    /\ expired = FALSE /\ lostPause = FALSE
    /\ cap \in 1..MaxCap
    /\ cursor = 0 /\ produced = 0 /\ decided = 0
    /\ res = [s \in Slots |-> NoRow]
    /\ msg = [s \in Slots |-> "none"]
    /\ open \in BOOLEAN
    /\ pass = {} /\ twins = {}

-----------------------------------------------------------------------------
\* Barriers.

\* decideBarrier: open one, or turn a permissive one into a fencing one.
Strengthens(c) ==
    \/ runState \in {"active", "paused"}
    \/ runState = "draining" /\ cause \notin Fencing /\ c \in Fencing

\* invalidateOpen: the staged copies are left for the sweep.
Closed(rows) ==
    [s \in Slots |-> IF s \in OpenIn(rows)
                     THEN [rows[s] EXCEPT !.state = "released"] ELSE rows[s]]
Fenced(m) == [s \in Slots |-> IF m[s] = "undecided" THEN "settled" ELSE m[s]]

Barrier(c, rows, m) ==
    /\ runState' = "draining" /\ cause' = c
    /\ overdue' = (runState = "draining" /\ overdue)
    /\ res' = Closed(rows)
    /\ msg' = IF c \in Fencing THEN Fenced(m) ELSE m

BarrierIf(b, c, rows, m) ==
    \/ b /\ Barrier(c, rows, m)
    \/ ~b /\ res' = rows /\ msg' = m /\ UNCHANGED runVars

-----------------------------------------------------------------------------
\* Slots and answers.

Idle == pass = {}

\* Mutant of WithinQueue: messages that wait for the owner do not count.
WithinSlots == Cardinality(OpenIn(res)) < cap

WithinQueue == Outstanding < cap

\* Mutant of WithinCount: slots that are open do not count.
WithinProduced ==
    CASE Basis = "produced" -> produced < MaxCount
      [] Basis = "decided" -> decided < MaxCount
      [] OTHER -> TRUE

WithinCount ==
    CASE Basis = "produced" -> produced + Cardinality(OpenIn(res)) < MaxCount
      [] Basis = "decided" -> Outstanding + decided < MaxCount
      [] OTHER -> TRUE

LowestFree(c) ==
    /\ c >= cursor /\ c \notin CursorsOf(OpenIn(res))
    /\ \A d \in Positions : cursor <= d /\ d < c => d \in CursorsOf(OpenIn(res))

Reserve(s) ==
    /\ Idle /\ res[s] = NoRow
    /\ runState = "active" /\ ~expired /\ ~lostPause /\ open
    /\ WithinQueue /\ WithinCount
    /\ \E c \in Positions :
        /\ LowestFree(c)
        /\ res' = [res EXCEPT ![s].state = "reserved", ![s].cursor = c]
    /\ UNCHANGED <<runVars, expired, lostPause, cap, cursor, produced, decided, msg, open, pass>>

Released(s) == [res EXCEPT ![s].state = "released"]

\* The query could not be sent, its lease ended, or an answer was turned away.
Release(s) ==
    /\ Idle /\ res[s].state = "reserved"
    /\ res' = Released(s)
    /\ UNCHANGED <<runVars, expired, lostPause, cap, cursor, produced, decided, msg, open, pass>>

\* The provider has no more results, and the run is stop_on_exhaustion; one
\* that is not only releases the slot.
Exhausted(s) ==
    /\ Idle /\ res[s].state = "reserved"
    /\ BarrierIf(runState = "active", "exhaustion", Released(s), msg)
    /\ UNCHANGED <<expired, lostPause, cap, cursor, produced, decided, open, pass>>

\* Mutant of Known: the dedup_key is all that tells messages apart.
KnownNever(id) == FALSE

Known(id) == id \in KnownIds
KeyKnown(id) == \E other \in KnownIds : KeyOf[other] = KeyOf[id]

\* An answer that was admitted before: content_mismatch ends the same way.
AnswerDuplicate(s, id) == (Known(id) \/ KeyKnown(id)) /\ Release(s)

\* The guard of incrementProducedAndAdvance.
CanCommit(s) == runState = "active" /\ ~expired /\ res[s].cursor = cursor

\* Mutant of Past: the cursor moves on by one.
PastOne(rows, c, d) == d = c

\* The first position from c on that the owner did not give up.
Past(rows, c, d) ==
    /\ d >= c /\ d \notin SkippedIn(rows)
    /\ \A e \in Positions : c <= e /\ e < d => e \in SkippedIn(rows)

AnyLost(rows) == \E s \in Slots : rows[s].state = "lost"

\* The rows after slot s is committed: a loss at its position is made up for.
Committing(s, row) ==
    [t \in Slots |->
        IF t = s THEN row
        ELSE IF res[t].state = "lost" /\ res[t].cursor = res[s].cursor
        THEN [res[t] EXCEPT !.state = "skipped"] ELSE res[t]]

\* commit() and the caller's onCommitted, one transaction.
Commit(s, row) ==
    LET rows == Committing(s, row) IN
    /\ CanCommit(s)
    /\ \E d \in Positions : Past(rows, cursor + 1, d) /\ cursor' = d
    /\ produced' = produced + 1
    /\ lostPause' = (lostPause /\ AnyLost(rows))
    /\ BarrierIf(Basis = "produced" /\ produced' >= MaxCount, "count",
                 rows, [msg EXCEPT ![s] = "undecided"])
    /\ UNCHANGED <<expired, cap, decided>>

Committed(s, id) == [res[s] EXCEPT !.state = "committed", !.id = id]

AnswerAdmitted(s, id) ==
    /\ Idle /\ res[s].state = "reserved" /\ open
    /\ ~Known(id) /\ ~KeyKnown(id)
    /\ Commit(s, Committed(s, id))
    /\ UNCHANGED <<open, pass>>

\* A barrier, a pause, the TTL or a slot before it came first.
AnswerRefused(s, id) == open /\ ~Known(id) /\ ~KeyKnown(id) /\ ~CanCommit(s) /\ Release(s)

\* The persona is locked: the answer is staged, then its slot held.
AnswerHeld(s, id) ==
    /\ Idle /\ res[s].state = "reserved" /\ ~open
    /\ ~Known(id) /\ ~KeyKnown(id)
    /\ res' = [res EXCEPT ![s].state = "held", ![s].id = id, ![s].staged = "good"]
    /\ UNCHANGED <<runVars, expired, lostPause, cap, cursor, produced, decided, msg, open, pass>>

-----------------------------------------------------------------------------
\* The persona, and the replay of held answers.

Lock ==
    /\ Idle /\ open /\ open' = FALSE
    /\ UNCHANGED <<runVars, expired, lostPause, cap, cursor, produced, decided, res, msg, pass>>

\* The persona's vault opens, by the owner or at boot; the replay begins.
Unlock ==
    /\ Idle /\ ~open /\ open' = TRUE
    /\ pass' = In("held")
    /\ UNCHANGED <<runVars, expired, lostPause, cap, cursor, produced, decided, res, msg>>

NextHeld(s) == s \in pass /\ \A t \in pass : res[s].cursor <= res[t].cursor

\* A message that is there already: its copy goes, its slot is closed.
ReplayKnown(s) ==
    /\ NextHeld(s) /\ Known(res[s].id)
    /\ res' = [res EXCEPT ![s].state = "committed", ![s].staged = "none"]
    /\ pass' = pass \ {s}
    /\ UNCHANGED <<runVars, expired, lostPause, cap, cursor, produced, decided, msg, open>>

\* The copy or its metadata cannot be read; the metadata are read first, so
\* the message may be there.  markLost marks the row, destroys the copy and
\* sets the pause, each write on its own; a crash may come between.
ReplayLost(s) ==
    /\ NextHeld(s) /\ res[s].staged = "bad"
    /\ \/ /\ res' = [res EXCEPT ![s].state = "lost", ![s].staged = "none"]
          /\ lostPause' = TRUE /\ pass' = pass \ {s} /\ UNCHANGED open
       \/ /\ \E left \in {"bad", "none"} :
                res' = [res EXCEPT ![s].state = "lost", ![s].staged = left]
          /\ pass' = {} /\ open' = FALSE /\ UNCHANGED lostPause
    /\ UNCHANGED <<runVars, expired, cap, cursor, produced, decided, msg>>

\* The commit, and the end of the staged copy; a crash may come between.
ReplayAdmitted(s) ==
    /\ NextHeld(s) /\ ~Known(res[s].id) /\ res[s].staged = "good"
    /\ \/ /\ Commit(s, [res[s] EXCEPT !.state = "committed", !.staged = "none"])
          /\ pass' = pass \ {s} /\ UNCHANGED open
       \/ /\ Commit(s, [res[s] EXCEPT !.state = "committed"])
          /\ pass' = {} /\ open' = FALSE

\* The commit is refused: the rest waits for the next replay.
ReplayStalls(s) ==
    /\ NextHeld(s) /\ ~Known(res[s].id) /\ res[s].staged = "good" /\ ~CanCommit(s)
    /\ pass' = {}
    /\ UNCHANGED <<runVars, expired, lostPause, cap, cursor, produced, decided, res, msg, open>>

Replay(s) == ReplayKnown(s) \/ ReplayLost(s) \/ ReplayAdmitted(s) \/ ReplayStalls(s)

Crash ==
    /\ open' = FALSE /\ pass' = {}
    /\ UNCHANGED <<runVars, expired, lostPause, cap, cursor, produced, decided, res, msg>>

\* A staged copy is damaged or gone.
Spoil(s) ==
    /\ Idle /\ res[s].staged = "good"
    /\ res' = [res EXCEPT ![s].staged = "bad"]
    /\ UNCHANGED <<runVars, expired, lostPause, cap, cursor, produced, decided, msg, open, pass>>

\* Mutant of Residue: the copies of a run that is over are not looked for.
ResidueLive(s) == runState \notin Terminal /\ s \notin OpenIn(res) /\ res[s].staged # "none"

Residue(s) == s \notin OpenIn(res) /\ res[s].staged # "none"

\* The maintenance pass, at boot and on a timer.
Sweep ==
    /\ Idle /\ \E s \in Slots : Residue(s)
    /\ res' = [s \in Slots |-> IF Residue(s) THEN [res[s] EXCEPT !.staged = "none"] ELSE res[s]]
    /\ UNCHANGED <<runVars, expired, lostPause, cap, cursor, produced, decided, msg, open, pass>>

-----------------------------------------------------------------------------
\* The owner.

Pause ==
    /\ Idle /\ runState = "active" /\ runState' = "paused"
    /\ UNCHANGED <<cause, overdue, expired, lostPause, cap, cursor, produced, decided, res, msg, open, pass>>

\* A run that is active resumes from a loss: the position is fetched again.
Resume ==
    /\ Idle /\ runState \in {"active", "paused"}
    /\ runState' = "active" /\ lostPause' = FALSE
    /\ UNCHANGED <<cause, overdue, expired, cap, cursor, produced, decided, res, msg, open, pass>>

Stop(c) ==
    /\ Idle /\ Strengthens(c) /\ Barrier(c, res, msg)
    /\ UNCHANGED <<expired, lostPause, cap, cursor, produced, decided, open, pass>>

SkipLost(s) ==
    LET rows == [res EXCEPT ![s].state = "skipped"] IN
    /\ Idle /\ res[s].state = "lost"
    /\ res' = rows
    /\ \/ res[s].cursor # cursor /\ UNCHANGED cursor
       \/ /\ res[s].cursor = cursor
          /\ \E d \in Positions : Past(rows, cursor + 1, d) /\ cursor' = d
    /\ lostPause' = (lostPause /\ AnyLost(rows))
    /\ UNCHANGED <<runVars, expired, cap, produced, decided, msg, open, pass>>

Update(c) ==
    /\ Idle /\ cap' = c
    /\ UNCHANGED <<runVars, expired, lostPause, cursor, produced, decided, res, msg, open, pass>>

Decidable(s) ==
    /\ msg[s] = "undecided" /\ runState \notin Terminal /\ ~expired
    /\ runState = "draining" => cause \notin Fencing /\ ~overdue

Decide(s) ==
    /\ Idle /\ Decidable(s)
    /\ decided' = decided + 1
    /\ BarrierIf(Basis = "decided" /\ decided' >= MaxCount /\ Strengthens("count"), "count",
                 res, [msg EXCEPT ![s] = "settled"])
    /\ UNCHANGED <<expired, lostPause, cap, cursor, produced, open, pass>>

-----------------------------------------------------------------------------
\* Time.  The clock does not wait for a replay to end.

\* A message's own expiry, or the run's, found by the count of the undecided.
MessageExpires(s) ==
    /\ Idle /\ msg[s] = "undecided"
    /\ msg' = [msg EXCEPT ![s] = "settled"]
    /\ UNCHANGED <<runVars, expired, lostPause, cap, cursor, produced, decided, res, open, pass>>

Expire ==
    /\ ~expired /\ expired' = TRUE
    /\ UNCHANGED <<runVars, lostPause, cap, cursor, produced, decided, res, msg, open, pass>>

DeadlinePasses ==
    /\ runState = "draining" /\ ~overdue /\ overdue' = TRUE
    /\ UNCHANGED <<runState, cause, expired, lostPause, cap, cursor, produced, decided, res, msg, open, pass>>

\* Mutant of SweepDue: a paused run is passed over.
SweepDueActive == expired /\ runState # "paused" /\ Strengthens("expiry")

SweepDue == expired /\ Strengthens("expiry")

ExpirySweep ==
    /\ Idle /\ SweepDue /\ Barrier("expiry", res, msg)
    /\ UNCHANGED <<expired, lostPause, cap, cursor, produced, decided, open, pass>>

ForceTerminate ==
    /\ Idle /\ runState = "draining" /\ overdue
    /\ runState' = TerminalOf(cause)
    /\ res' = Closed(res) /\ msg' = Fenced(msg)
    /\ UNCHANGED <<cause, overdue, expired, lostPause, cap, cursor, produced, decided, open, pass>>

-----------------------------------------------------------------------------

SlotStep(s) ==
    \/ Reserve(s) \/ Release(s) \/ Exhausted(s)
    \/ Replay(s) \/ Spoil(s) \/ SkipLost(s) \/ Decide(s) \/ MessageExpires(s)
    \/ \E id \in Ids : \/ AnswerDuplicate(s, id) \/ AnswerAdmitted(s, id)
                       \/ AnswerRefused(s, id) \/ AnswerHeld(s, id)

RunStep ==
    \/ Lock \/ Unlock \/ Crash \/ Sweep \/ Pause \/ Resume
    \/ Stop("finish_pending") \/ Stop("cancel_pending")
    \/ \E c \in 1..MaxCap : Update(c)
    \/ Expire \/ DeadlinePasses \/ ExpirySweep \/ ForceTerminate

Step == RunStep \/ \E s \in Slots : SlotStep(s)

SameMessage(id, other) == KeyOf[id] = KeyOf[other]

\* The answers that wait under another id while their message is admitted.
Waiting(s) ==
    {t \in In("held") : res[t].id # res'[s].id /\ SameMessage(res[t].id, res'[s].id)}

Next ==
    /\ Step
    /\ twins' = twins \cup UNION {Waiting(s) : s \in Admitted' \ Admitted}

Spec == Init /\ [][Next]_vars

\* Time passes.  A replay once begun is not left by its turn; the timers of
\* the sweeps fire again and again, between replays.
Fairness ==
    /\ WF_core(Expire) /\ WF_core(DeadlinePasses)
    /\ \A s \in Slots : WF_core(Replay(s))
    /\ SF_core(ExpirySweep) /\ SF_core(ForceTerminate) /\ SF_core(Sweep)

FairSpec == Spec /\ Fairness
-----------------------------------------------------------------------------
\* Types of all variables.
CoreOK ==
    /\ runState \in RunStates /\ cause \in Causes \cup {"none"}
    /\ overdue \in BOOLEAN /\ expired \in BOOLEAN /\ lostPause \in BOOLEAN
    /\ cap \in 1..MaxCap
    /\ cursor \in Positions /\ produced \in Nat /\ decided \in Nat
    /\ res \in [Slots -> Row]
    /\ msg \in [Slots -> {"none", "undecided", "settled"}]
    /\ open \in BOOLEAN
    /\ pass \in SUBSET In("held")
TypeOK == CoreOK /\ twins \in SUBSET Slots

\* A message that the owner has is turned away whenever it comes again, for any
\* slot, under its id or another, and locks and replays let it in no second
\* time under its id.  Left is the copy under another id that was held before
\* the first was admitted (ingest.ts:310 asks for the key, held_replay.ts:159
\* for the id only).
RepeatsTurnedAway ==
    \A s, t \in Admitted :
        /\ s # t /\ SameMessage(res[s].id, res[t].id)
        /\ res[s].cursor <= res[t].cursor
        => res[s].id # res[t].id /\ t \in twins

\* Slots fetched ahead, held answers and messages together never exceed what
\* the owner asked for, whatever is locked, lost, replayed or decided in the
\* meantime (withinCountBudget of admission.ts).
CountBudget ==
    /\ Basis = "produced" => produced + Cardinality(OpenIn(res)) <= MaxCount
    /\ Basis = "decided" => Outstanding + decided <= MaxCount

\* What waits for the owner or may come to wait grows only within queue_cap:
\* commits and replays do not add to it (gateReason of admission.ts).
QueueBounded == [][Outstanding' > Outstanding => Outstanding' <= cap]_vars

\* A run that drains or has ended has no slot that an answer in flight or a
\* later replay could fill (onBarrier of termination.ts).
BarrierClosesSlots == runState \notin {"active", "paused"} => OpenIn(res) = {}

\* No command, count, expiry or late sweep takes a barrier back: a run that
\* drains goes on to its end, fencing stays, and an end is final (§5.1).
BarrierMonotone ==
    [][/\ runState \in Terminal => UNCHANGED runVars
       /\ runState = "draining" =>
            /\ runState' \in {"draining"} \cup Terminal
            /\ cause \in Fencing => cause' = cause
            /\ overdue => overdue']_vars

\* Single flight per position: no two open slots are for one position, with
\* slots released, lost and fetched again in any order (reserve()).
OneSlotPerPosition ==
    \A s, t \in OpenIn(res) : res[s].cursor = res[t].cursor => s = t

\* The owner gets the positions in order, each once, none passed over that
\* was not given up, none after it was given up, none after the barrier.
Delivered == CursorsOf(Admitted)
Log == INSTANCE PositionLog WITH
    log <- Delivered,
    gaps <- CursorsOf(In("skipped")) \ Delivered,
    closed <- runState \notin {"active", "paused"}
ImplementsLog == Log!Spec

\* Every run comes to its end: by its TTL at the latest, paused or draining,
\* whatever the owner does and however often the persona is locked.
RunEnds == <>(runState \in Terminal)

\* The staged copy of an answer that is no longer held is destroyed, however
\* the row left: admitted before a crash, lost, or closed by a barrier.
StagedCopyDestroyed ==
    \A s \in Slots :
        s \notin OpenIn(res) /\ res[s].staged # "none" ~> res[s].staged = "none"

-----------------------------------------------------------------------------
\* What the code's comments say and the code does not keep.

\* ingest.ts:154, "it will be admitted exactly-once on unlock": no held
\* answer that could be committed stays behind while the persona is open.
HeldIsAdmitted ==
    open /\ Idle => \A s \in In("held") : ~CanCommit(s)

\* repository.ts:91, no reservation is handed a position that was skipped.
SkippedNeverFetched ==
    [][\A s \in Slots : res[s] = NoRow /\ res'[s] # NoRow =>
            res'[s].cursor \notin SkippedIn(res)]_vars

\* ingest.ts:306, a message that comes again under a fresh id is a duplicate.
OneAdmissionPerKey ==
    \A s, t \in Admitted : SameMessage(res[s].id, res[t].id) => s = t

\* admission.ts:36, a lost response pauses the fetching.
LossPauses ==
    [][\A s \in Slots : res[s].state = "held" /\ res'[s].state = "lost" => lostPause']_vars

=============================================================================
