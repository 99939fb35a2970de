--------------------------- MODULE ResponseBridge ---------------------------
(***************************************************************************)
(* How the answer to a service query reaches the requester after its task  *)
(* ended: the Response Bridge of packages/core/src/workflow/service.ts and *)
(* the sweeper of bridge_pending_sweeper.ts that retries it.               *)
(*                                                                         *)
(* Core is one event loop: what runs between two awaits is one turn, and   *)
(* nothing but a crash comes between its steps.  A send may resolve,       *)
(* reject or never settle; a write to the store may fail; the process may  *)
(* crash anywhere and comes back with what the store holds.  Every task    *)
(* here answers a query and has one answer.                                *)
(***************************************************************************)
EXTENDS Integers, FiniteSets

CONSTANTS
    NTasks,      \* tasks are 1..NTasks
    Reasoning,   \* those answered by the reasoning lane's commit
    MaxClears    \* STASH_CLEAR_MAX_ATTEMPTS

ASSUME BridgeAssumption ==
    /\ NTasks \in Nat \ {0}
    /\ Reasoning \subseteq 1..NTasks
    /\ MaxClears \in Nat \ {0}

VARIABLES
    \* the store
    answer,      \* whether a task's answer is due, withheld or with the bridge
    card,        \* the review card that holds it for the owner
    stash,       \* tasks whose internal_stash holds bridge_pending
    receipts,    \* reasoning tasks with a commit receipt
    \* the process
    fallback,    \* bridgeInMemoryFallback
    inFlight,    \* bridgeInFlight
    awaiting,    \* bridgeDeliveredAwaitingClear
    detached,    \* the initial send of each task
    tick,        \* the running retryPendingBridges
    bridging,    \* the task whose ending is being bridged in this turn (0: none)
    timer,       \* whether the sweeper's interval runs
    pin,         \* the sweeper's tickInFlight
    \* observability
    known,       \* tasks whose send resolved, as far as Dina can know it
    forgotten,   \* tasks whose answer only a crashed process held
    settled      \* deliveries over and done when the running tick read the store

store == <<answer, card, stash, receipts>>
sets == <<fallback, inFlight, awaiting>>
sweeper == <<timer, pin>>
history == <<known, forgotten, settled>>
vars == <<store, sets, detached, tick, bridging, sweeper, history>>

-----------------------------------------------------------------------------

Tasks == 1..NTasks

Answers == {"open", "due", "withheld", "handed"}
Cards == {"none", "pending", "decided"}

\* What becomes of a send: resolved, rejected, or no answer ever.
Fates == {"ok", "rejects", "hangs"}

\* A bounded send and the clear that follows it, and which record it clears.
Op == [at: {"none", "sending", "clearing"}, fate: Fates,
       durable: BOOLEAN, tries: 0..MaxClears-1]
NoOp == [at |-> "none", fate |-> "ok", durable |-> FALSE, tries |-> 0]
Sending(fate, durable) ==
    [at |-> "sending", fate |-> fate, durable |-> durable, tries |-> 0]

Tick == [phase: {"none", "durable", "memory"}, todo: SUBSET Tasks,
         task: Tasks \cup {0}, op: Op]
NoTick == [phase |-> "none", todo |-> {}, task |-> 0, op |-> NoOp]

\* The retry loop is between two sends: its turn goes on.
TickTurn == tick.phase # "none" /\ tick.op.at = "none"

\* No turn is running.
AtRest == bridging = 0 /\ ~TickTurn

Init ==
    /\ answer = [t \in Tasks |-> "open"]
    /\ card = [t \in Tasks |-> "none"]
    /\ stash = {} /\ receipts = {}
    /\ fallback = {} /\ inFlight = {} /\ awaiting = {}
    /\ detached = [t \in Tasks |-> NoOp]
    /\ tick = NoTick
    /\ bridging = 0
    /\ timer = FALSE /\ pin = "none"
    /\ known = {} /\ forgotten = {} /\ settled = {}

-----------------------------------------------------------------------------
(* An answer comes to be sent *)

\* complete or fail commits the ending; the rest of the turn bridges it.
Complete(t) ==
    /\ AtRest /\ t \notin Reasoning
    /\ answer[t] = "open"
    /\ answer' = [answer EXCEPT ![t] = "due"]
    /\ bridging' = t
    /\ UNCHANGED <<card, stash, receipts, sets, detached, tick, sweeper, history>>

\* holdForReview leaves a card that already stands as it is.
CardStands(t) == IF card[t] = "none" THEN "pending" ELSE card[t]

\* applyEgressGate withholds it under a review card of the owner.
HoldForReview(t) ==
    /\ bridging = t /\ card[t] = "none"
    /\ card' = [card EXCEPT ![t] = CardStands(t)]
    /\ bridging' = 0
    /\ UNCHANGED <<answer, stash, receipts, sets, detached, tick, sweeper, history>>

\* The transformer or the gate withholds it, or throws: there is to be no answer.
Withhold(t) ==
    /\ bridging = t /\ card[t] = "none"
    /\ answer' = [answer EXCEPT ![t] = "withheld"]
    /\ bridging' = 0
    /\ UNCHANGED <<card, stash, receipts, sets, detached, tick, sweeper, history>>

\* Mutant of DecideReview: the card is still pending after its decision.
DecideReviewAgain(t) ==
    /\ AtRest /\ card[t] = "pending"
    /\ bridging' = t
    /\ UNCHANGED <<answer, card, stash, receipts, sets, detached, tick, sweeper, history>>

\* The card is approved, denied or lapses; its handler releases the answer.
DecideReview(t) ==
    /\ AtRest /\ card[t] = "pending"
    /\ card' = [card EXCEPT ![t] = "decided"]
    /\ bridging' = t
    /\ UNCHANGED <<answer, stash, receipts, sets, detached, tick, sweeper, history>>

\* dispatchBridge: record first, in memory if the store refuses, then send.
DispatchBridge(t) ==
    /\ bridging = t /\ bridging' = 0
    /\ answer' = [answer EXCEPT ![t] = "handed"]
    /\ inFlight' = inFlight \cup {t}
    /\ \E recorded \in BOOLEAN, fate \in Fates :
        /\ stash' = IF recorded THEN stash \cup {t} ELSE stash
        /\ fallback' = IF recorded THEN fallback ELSE fallback \cup {t}
        /\ detached' = [detached EXCEPT ![t] = Sending(fate, recorded)]
    /\ UNCHANGED <<card, receipts, awaiting, tick, sweeper, history>>

\* Mutant of Stage: a record the store refuses does not stop the receipt.
StageAnyway(t) ==
    /\ AtRest /\ t \in Reasoning \ receipts
    /\ stash' \in {stash, stash \cup {t}}
    /\ receipts' \in {receipts, receipts \cup {t}}
    /\ answer' = [answer EXCEPT ![t] = "handed"]
    /\ UNCHANGED <<card, sets, detached, tick, bridging, sweeper, history>>

\* The reasoning lane's commit, first run or recovery: stageServiceQueryResponse
\* records the answer durably or throws, then the broker records its receipt,
\* which may fail and leave the commit to be replayed.
Stage(t) ==
    /\ AtRest /\ t \in Reasoning \ receipts
    /\ stash' = stash \cup {t}
    /\ receipts' \in {receipts, receipts \cup {t}}
    /\ answer' = [answer EXCEPT ![t] = "handed"]
    /\ UNCHANGED <<card, sets, detached, tick, bridging, sweeper, history>>

\* The same commit when the gate holds the answer: nothing is staged.
StageHeld(t) ==
    /\ AtRest /\ t \in Reasoning \ receipts
    /\ card' = [card EXCEPT ![t] = CardStands(t)]
    /\ receipts' \in {receipts, receipts \cup {t}}
    /\ answer' = [answer EXCEPT ![t] = IF @ \in {"open", "withheld"} THEN "due" ELSE @]
    /\ UNCHANGED <<stash, sets, detached, tick, bridging, sweeper, history>>

\* The same commit when the gate throws: the commit stands without an answer.
StageWithheld(t) ==
    /\ AtRest /\ t \in Reasoning \ receipts
    /\ receipts' \in {receipts, receipts \cup {t}}
    /\ answer' = [answer EXCEPT ![t] = IF @ = "open" THEN "withheld" ELSE @]
    /\ UNCHANGED <<card, stash, sets, detached, tick, bridging, sweeper, history>>

-----------------------------------------------------------------------------
(* A bounded send and its clear *)

\* Mutant of Settles: the send is awaited without a timeout.
SettlesUnbounded(fate) == fate # "hangs"

\* withTimeout: every send settles, one that hangs by BRIDGE_SEND_TIMEOUT_MS.
Settles(fate) == fate \in Fates

Delivered(t, op, next) ==
    /\ op.at = "sending" /\ op.fate = "ok"
    /\ known' = known \cup {t}
    /\ fallback' = fallback \ {t}
    /\ IF op.durable
       THEN /\ next = [op EXCEPT !.at = "clearing"]
            /\ UNCHANGED <<stash, awaiting, inFlight>>
       ELSE /\ next = NoOp
            /\ awaiting' = awaiting \ {t}
            /\ inFlight' = inFlight \ {t}
            /\ UNCHANGED stash

\* Mutant of SendFailed: the finally block clears the record as well.
SendFailedCleared(t, op, next) ==
    /\ op.at = "sending" /\ op.fate # "ok" /\ Settles(op.fate)
    /\ next = NoOp
    /\ inFlight' = inFlight \ {t}
    /\ stash' = stash \ {t}
    /\ UNCHANGED <<fallback, awaiting, known>>

\* Rejected or timed out: the claim is released, the record stays.
SendFailed(t, op, next) ==
    /\ op.at = "sending" /\ op.fate # "ok" /\ Settles(op.fate)
    /\ next = NoOp
    /\ inFlight' = inFlight \ {t}
    /\ UNCHANGED <<stash, fallback, awaiting, known>>

\* clearBridgeRecord, one attempt of MaxClears.
Cleared(t, op, next) ==
    /\ op.at = "clearing" /\ next = NoOp
    /\ stash' = stash \ {t}
    /\ awaiting' = awaiting \ {t}
    /\ inFlight' = inFlight \ {t}
    /\ UNCHANGED <<fallback, known>>

ClearFailed(t, op, next) ==
    /\ op.at = "clearing"
    /\ IF op.tries + 1 < MaxClears
       THEN /\ next = [op EXCEPT !.tries = @ + 1]
            /\ UNCHANGED <<awaiting, inFlight>>
       ELSE /\ next = NoOp
            /\ awaiting' = awaiting \cup {t}
            /\ inFlight' = inFlight \ {t}
    /\ UNCHANGED <<stash, fallback, known>>

OpStep(t, op, next) ==
    \/ Delivered(t, op, next) \/ SendFailed(t, op, next)
    \/ Cleared(t, op, next) \/ ClearFailed(t, op, next)

DetachedStep(t) ==
    /\ AtRest
    /\ \E next \in Op :
        /\ OpStep(t, detached[t], next)
        /\ detached' = [detached EXCEPT ![t] = next]
    /\ UNCHANGED <<answer, card, receipts, tick, bridging, sweeper, forgotten, settled>>

-----------------------------------------------------------------------------
(* retryPendingBridges *)

\* Its loops hold the rows as listed; the order of updated_at is left open.
Scan ==
    /\ tick' = [NoTick EXCEPT !.phase = "durable", !.todo = stash]
    /\ settled' = known \ inFlight

\* Mutants of Skipped: without one or the other of its two sets.
SkippedIfAwaiting(t) == t \in awaiting
SkippedIfInFlight(t) == t \in inFlight

\* Being sent, or delivered with the clear still due.
Skipped(t) == t \in inFlight \/ t \in awaiting

\* A skipped durable record that awaits its clear gets one more attempt.
TickSkip(t) ==
    /\ TickTurn /\ t \in tick.todo /\ Skipped(t)
    /\ tick' = [tick EXCEPT !.todo = @ \ {t}]
    /\ \/ UNCHANGED <<stash, awaiting>>
       \/ /\ tick.phase = "durable" /\ t \in awaiting /\ t \notin inFlight
          /\ stash' = stash \ {t}
          /\ awaiting' = awaiting \ {t}
    /\ UNCHANGED <<answer, card, receipts, fallback, inFlight, detached, bridging, sweeper,
                   history>>

TickSend(t) ==
    /\ TickTurn /\ t \in tick.todo /\ ~Skipped(t)
    /\ inFlight' = inFlight \cup {t}
    /\ \E fate \in Fates :
        tick' = [tick EXCEPT !.todo = @ \ {t}, !.task = t,
                             !.op = Sending(fate, tick.phase = "durable")]
    /\ UNCHANGED <<store, fallback, awaiting, detached, bridging, sweeper, history>>

TickOpStep ==
    /\ AtRest /\ tick.phase # "none"
    /\ \E next \in Op :
        /\ OpStep(tick.task, tick.op, next)
        /\ tick' = [tick EXCEPT !.op = next]
    /\ UNCHANGED <<answer, card, receipts, detached, bridging, sweeper, forgotten, settled>>

\* The durable records are done: on to the answers kept in memory.
TickMemory ==
    /\ TickTurn /\ tick.phase = "durable" /\ tick.todo = {}
    /\ tick' = [NoTick EXCEPT !.phase = "memory", !.todo = fallback]
    /\ UNCHANGED <<store, sets, detached, bridging, sweeper, history>>

\* The tick is over; its own promise leaves the sweeper's tickInFlight only if
\* it is what stands there.
TickEnd ==
    /\ TickTurn /\ tick.phase = "memory" /\ tick.todo = {}
    /\ tick' = NoTick
    /\ pin' = IF pin = "tick" THEN "none" ELSE pin
    /\ UNCHANGED <<store, sets, detached, bridging, timer, history>>

-----------------------------------------------------------------------------
(* The sweeper *)

\* start and the interval assign the promise of their runTick call, which is
\* not the promise of the tick, to tickInFlight.
Sweep ==
    /\ pin' = "outer"
    /\ IF pin = "none" THEN Scan ELSE UNCHANGED <<tick, settled>>
    /\ UNCHANGED <<store, sets, detached, bridging, known, forgotten>>

Start == AtRest /\ ~timer /\ timer' = TRUE /\ Sweep
Interval == AtRest /\ timer /\ UNCHANGED timer /\ Sweep

\* drainOnce calls runTick directly.
DrainOnce ==
    /\ AtRest /\ pin = "none"
    /\ Scan /\ pin' = "tick"
    /\ UNCHANGED <<store, sets, detached, bridging, timer, known, forgotten>>

Stop ==
    /\ AtRest /\ timer /\ timer' = FALSE
    /\ UNCHANGED <<store, sets, detached, tick, bridging, pin, history>>

\* flush, which a stopping host awaits.
Flush ==
    /\ AtRest /\ ~timer /\ pin # "none" /\ tick.phase = "none"
    /\ pin' = "none"
    /\ UNCHANGED <<store, sets, detached, tick, bridging, timer, history>>

\* The process dies and comes back.  Whether a send had resolved is known
\* afterwards only from a cleared record.
Crash ==
    /\ bridging' = 0
    /\ fallback' = {} /\ inFlight' = {} /\ awaiting' = {}
    /\ detached' = [t \in Tasks |-> NoOp]
    /\ tick' = NoTick
    /\ timer' = FALSE /\ pin' = "none"
    /\ known' = known \ stash
    /\ forgotten' = forgotten \cup fallback \cup ({bridging} \ {0})
    /\ settled' = {}
    /\ UNCHANGED store

-----------------------------------------------------------------------------

TaskStep(t) ==
    \/ Complete(t) \/ HoldForReview(t) \/ Withhold(t) \/ DecideReview(t) \/ DispatchBridge(t)
    \/ Stage(t) \/ StageHeld(t) \/ StageWithheld(t) \/ DetachedStep(t)
    \/ TickSkip(t) \/ TickSend(t)

Running ==
    \/ \E t \in Tasks : TaskStep(t)
    \/ TickOpStep \/ TickMemory \/ TickEnd
    \/ Start \/ Interval \/ DrainOnce \/ Stop \/ Flush

Next == Running \/ Crash

Spec == Init /\ [][Next]_vars

\* The turn of a running process goes on, and sends settle by their timeout.
Turns ==
    /\ WF_vars(TickMemory) /\ WF_vars(TickEnd) /\ WF_vars(TickOpStep)
    /\ \A t \in Tasks :
        /\ WF_vars(TickSkip(t)) /\ WF_vars(TickSend(t))
        /\ WF_vars(DetachedStep(t))
        /\ WF_vars(DispatchBridge(t))

\* A host that comes up starts the sweeper, and the interval of a started one
\* fires.  Nothing obliges anyone to drain.
Passes == WF_vars(Start) /\ WF_vars(Interval)

FairSpec == Spec /\ Turns /\ Passes

-----------------------------------------------------------------------------
(* Properties *)

\* Records, claims, sends and the pass have the shape the code gives them, and
\* a pass that drainOnce started is the one its promise stands for.
TypeOK ==
    /\ answer \in [Tasks -> Answers] /\ card \in [Tasks -> Cards]
    /\ stash \subseteq Tasks /\ receipts \subseteq Tasks
    /\ fallback \subseteq Tasks /\ inFlight \subseteq Tasks /\ awaiting \subseteq Tasks
    /\ detached \in [Tasks -> Op]
    /\ tick \in Tick
    /\ bridging \in Tasks \cup {0}
    /\ timer \in BOOLEAN /\ pin \in {"none", "tick", "outer"}
    /\ pin = "tick" => tick.phase # "none"
    /\ known \subseteq Tasks /\ forgotten \subseteq Tasks /\ settled \subseteq Tasks

\* A delegation's completion is never on its way twice at once: the initial
\* send and the sweeper's never carry the same task, and bridgeInFlight says
\* exactly what is being sent.
OneSendAtATime ==
    \A t \in Tasks \ Reasoning :
        LET retried == tick.op.at # "none" /\ tick.task = t
            first == detached[t].at # "none"
        IN  /\ ~(first /\ retried)
            /\ t \in inFlight <=> first \/ retried

\* An answer the bridge was given is known to be delivered, or still recorded,
\* or was only ever in the memory of a process that crashed; one not given yet
\* is in its turn or waits under a card of the owner; and one that is withheld
\* is under no card and in no record.
NothingLost ==
    \A t \in Tasks :
        /\ answer[t] = "handed" => t \in stash \cup fallback \cup known \cup forgotten
        /\ answer[t] = "due" => t = bridging \/ card[t] = "pending" \/ t \in forgotten
        /\ answer[t] = "withheld" => card[t] = "none" /\ t \notin stash \cup fallback

\* A reasoning answer with a commit receipt survives any crash: it is recorded,
\* known to be delivered, or went to a review of the owner, unless the gate
\* withheld it.
ReceiptMeansDurable ==
    \A t \in receipts :
        t \in stash \cup known \/ card[t] # "none" \/ answer[t] = "withheld"

\* The answers of delegated tasks; those still to be sent, and those of them
\* that only the process has.
Delegations == Tasks \ Reasoning
Due == {t \in Tasks : answer[t] = "due"} \ forgotten
Owed == Delegations \cap (stash \cup fallback \cup Due)
Frail == Delegations \cap (fallback \cup {bridging})
Withheld == {t \in Delegations : answer[t] = "withheld"}

Promise == INSTANCE Reply WITH
    Queries <- Delegations, owed <- Owed, frail <- Frail,
    sent <- Delegations \cap known, lost <- Delegations \cap forgotten,
    withheld <- Withheld

\* Bridge, retries, review cards and the store together deliver the answer of
\* a delegation as one promise: owed from its ending on until it is known to
\* have arrived, owed once, withheld only in the turn that ended its task, and
\* lost only with a process that died before the store or the owner had it.
ImplementsReply == Promise!Spec

\* A retry that read the store after a delivery was over never repeats it,
\* even if its record could not be cleared.
FreshScanNeverResends ==
    [][\A t \in Tasks \ Reasoning : TickSend(t) => t \notin settled]_vars

\* What the store holds when the process is up after its last crash and the
\* sweeper is about to start is sent again, unless known to be delivered,
\* whatever becomes of the sends of the others.
RecordedIsResent ==
    <>[][~Crash]_vars =>
        \A t \in Tasks :
            t \in stash \ known /\ ~timer /\ pin = "none" ~>
                t \notin stash \/ t \in inFlight \cup known

\* With the sweeper running, a recorded answer is sent again.
RecordedIsRetried ==
    \A t \in Tasks :
        t \in stash /\ timer ~> t \notin stash \/ t \in inFlight \/ ~timer

=============================================================================
