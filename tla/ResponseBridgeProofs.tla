------------------------ MODULE ResponseBridgeProofs ------------------------
(***************************************************************************)
(* Theorems about ResponseBridge, for every number of tasks, every choice  *)
(* of reasoning tasks and every number of clearing attempts.               *)
(***************************************************************************)
EXTENDS ResponseBridge, TLAPS

-----------------------------------------------------------------------------
(* Type correctness *)

\* Operations and ticks are built in shape.
LEMMA OpFacts ==
    /\ NoOp \in Op
    /\ \A fate \in Fates, durable \in BOOLEAN : Sending(fate, durable) \in Op
    /\ NoTick \in Tick
  <1>1. 0 \in 0..MaxClears-1
    BY BridgeAssumption
  <1>2. NoOp \in Op
    BY <1>1 DEF NoOp, Op, Fates
  <1>3. QED BY <1>1, <1>2 DEF Op, Sending, NoTick, Tick, Fates

\* Replacing what a tick is at keeps its shape.
LEMMA TickType ==
    ASSUME tick \in Tick, NEW op \in Op, NEW todo \in SUBSET Tasks, NEW t \in Tasks
    PROVE  /\ [tick EXCEPT !.op = op] \in Tick
           /\ [tick EXCEPT !.todo = todo] \in Tick
           /\ [tick EXCEPT !.todo = todo, !.task = t, !.op = op] \in Tick
           /\ [NoTick EXCEPT !.phase = "durable", !.todo = todo] \in Tick
           /\ [NoTick EXCEPT !.phase = "memory", !.todo = todo] \in Tick
  BY OpFacts DEF Tick, NoTick

\* The store and the process start in shape, and every step keeps them so.
LEMMA TypeInit == Init => TypeOK
  BY OpFacts DEF Init, TypeOK, Answers, Cards

\* One step of a bounded send keeps the sets it writes in shape.
LEMMA OpStepType ==
    ASSUME TypeOK, NEW t \in Tasks, NEW op \in Op, NEW next \in Op, OpStep(t, op, next)
    PROVE  /\ stash' \subseteq Tasks /\ fallback' \subseteq Tasks
           /\ inFlight' \subseteq Tasks /\ awaiting' \subseteq Tasks
           /\ known' \subseteq Tasks
  BY DEF TypeOK, OpStep, Delivered, SendFailed, Cleared, ClearFailed

\* The task of a send of the pass is a task.
TaskOfOp == tick.op.at # "none" => tick.task \in Tasks

LEMMA TypeStep == TypeOK /\ TaskOfOp /\ [Next]_vars => TypeOK'
  <1> SUFFICES ASSUME TypeOK, TaskOfOp, [Next]_vars PROVE TypeOK'
    OBVIOUS
  <1> USE OpFacts DEF store, sets, sweeper, history, Answers, Cards
  <1>0. CASE UNCHANGED vars
    BY <1>0 DEF vars, TypeOK
  <1>1. ASSUME NEW t \in Tasks, Complete(t) PROVE TypeOK'
    BY <1>1 DEF Complete, TypeOK
  <1>2. ASSUME NEW t \in Tasks, HoldForReview(t) PROVE TypeOK'
    BY <1>2 DEF HoldForReview, CardStands, TypeOK
  <1>3. ASSUME NEW t \in Tasks, DecideReview(t) PROVE TypeOK'
    BY <1>3 DEF DecideReview, TypeOK
  <1>4. ASSUME NEW t \in Tasks, DispatchBridge(t) PROVE TypeOK'
    BY <1>4 DEF DispatchBridge, TypeOK
  <1>5. ASSUME NEW t \in Tasks, Stage(t) PROVE TypeOK'
    BY <1>5 DEF Stage, TypeOK
  <1>6. ASSUME NEW t \in Tasks, StageHeld(t) PROVE TypeOK'
    BY <1>6 DEF StageHeld, CardStands, TypeOK
  <1>23. ASSUME NEW t \in Tasks, Withhold(t) \/ StageWithheld(t) PROVE TypeOK'
    BY <1>23 DEF Withhold, StageWithheld, TypeOK
  <1>7. ASSUME NEW t \in Tasks, DetachedStep(t) PROVE TypeOK'
    <2>1. PICK next \in Op : OpStep(t, detached[t], next)
                             /\ detached' = [detached EXCEPT ![t] = next]
      BY <1>7 DEF DetachedStep
    <2>2. detached[t] \in Op
      BY DEF TypeOK
    <2>3. QED BY <1>7, <2>1, <2>2, OpStepType DEF DetachedStep, TypeOK
  <1>8. ASSUME NEW t \in Tasks, TickSkip(t) PROVE TypeOK'
    <2>1. tick \in Tick /\ tick.todo \ {t} \subseteq Tasks /\ t \in Tasks
      BY DEF TypeOK, Tick
    <2>2. tick' \in Tick /\ tick'.phase = tick.phase
      BY <1>8, <2>1, TickType DEF TickSkip, Tick
    <2>3. QED BY <1>8, <2>2 DEF TickSkip, TypeOK
  <1>9. ASSUME NEW t \in Tasks, TickSend(t) PROVE TypeOK'
    <2>1. tick \in Tick /\ tick.todo \ {t} \subseteq Tasks /\ t \in Tasks
      BY DEF TypeOK, Tick
    <2>2. PICK fate \in Fates :
            tick' = [tick EXCEPT !.todo = @ \ {t}, !.task = t,
                                 !.op = Sending(fate, tick.phase = "durable")]
      BY <1>9 DEF TickSend
    <2>3. Sending(fate, tick.phase = "durable") \in Op
      BY <2>2
    <2>4. tick' \in Tick
      BY <2>1, <2>2, <2>3, TickType
    <2>5. tick'.phase = tick.phase
      BY <2>1, <2>2 DEF Tick
    <2>6. QED BY <1>9, <2>4, <2>5 DEF TickSend, TypeOK
  <1>10. CASE TickOpStep
    <2>1. PICK next \in Op : OpStep(tick.task, tick.op, next)
                             /\ tick' = [tick EXCEPT !.op = next]
      BY <1>10 DEF TickOpStep
    <2>2. tick.op \in Op /\ tick \in Tick
      BY DEF TypeOK, Tick
    <2>3. tick.task \in Tasks
      BY <2>1 DEF TaskOfOp, OpStep, Delivered, SendFailed, Cleared, ClearFailed
    <2>4. tick' \in Tick /\ tick'.phase = tick.phase
      BY <2>1, <2>2, TickType, <2>3 DEF Tick
    <2>5. QED BY <1>10, <2>1, <2>2, <2>3, <2>4, OpStepType DEF TickOpStep, TypeOK
  <1>11. CASE TickMemory
    <2>1. tick \in Tick /\ fallback \subseteq Tasks
      BY DEF TypeOK
    <2>2. tick' \in Tick /\ tick'.phase # "none"
      BY <1>11, <2>1, TickType DEF TickMemory, NoTick, Tick
    <2>3. QED BY <1>11, <2>2 DEF TickMemory, TypeOK
  <1>12. CASE TickEnd
    BY <1>12 DEF TickEnd, TypeOK
  <1>13. ASSUME Scan PROVE tick' \in Tick /\ tick'.phase # "none" /\ settled' \subseteq Tasks
    <2>1. tick \in Tick /\ stash \subseteq Tasks
      BY DEF TypeOK
    <2>2. QED BY <1>13, <2>1, TickType DEF Scan, NoTick, Tick, TypeOK
  <1>14. CASE Start
    BY <1>13, <1>14 DEF Start, Sweep, TypeOK
  <1>15. CASE Interval
    BY <1>13, <1>15 DEF Interval, Sweep, TypeOK
  <1>16. CASE DrainOnce
    BY <1>13, <1>16 DEF DrainOnce, TypeOK
  <1>17. CASE Stop
    BY <1>17 DEF Stop, TypeOK
  <1>18. CASE Flush
    BY <1>18 DEF Flush, TypeOK
  <1>19. CASE Crash
    BY <1>19 DEF Crash, TypeOK
  <1>20. QED
    BY <1>0, <1>1, <1>2, <1>3, <1>4, <1>5, <1>6, <1>7, <1>8, <1>9, <1>10, <1>11,
       <1>12, <1>14, <1>15, <1>16, <1>17, <1>18, <1>19, <1>23
    DEF Next, Running, TaskStep

-----------------------------------------------------------------------------
(* The inductive invariant *)

\* A send belongs to a pass, and a clear follows a delivery.
OpsInv ==
    /\ tick.op.at # "none" => tick.phase # "none" /\ tick.task \in Tasks
    /\ tick.phase = "none" => tick.todo = {}
    /\ pin = "none" => tick.phase = "none"
    /\ \A t \in Tasks : detached[t].at = "clearing" => t \in known
    /\ tick.op.at = "clearing" => tick.task \in known
    /\ awaiting \subseteq known

\* An open task was never seen by the gate or the bridge, a withheld one is in
\* no record, and a reasoning answer is recorded or delivered, or went to a card
\* and takes a turn only once that is decided.
OpenInv ==
    \A t \in Tasks :
        /\ answer[t] = "open" => card[t] = "none" /\ bridging # t
        /\ answer[t] \in {"open", "withheld"} => t \notin stash \cup fallback
        /\ bridging = t => answer[t] # "withheld" /\ (t \in Reasoning => card[t] = "decided")
        /\ t \in Reasoning /\ card[t] = "none" /\ answer[t] \in {"due", "handed"} =>
              t \in stash \cup known

\* A delegation is bridged once: until then nothing of it is anywhere.
OnceInv ==
    \A t \in Delegations :
        /\ bridging = t => answer[t] = "due" /\ card[t] # "pending"
        /\ card[t] = "pending" => answer[t] = "due"
        /\ answer[t] # "handed" =>
            /\ t \notin stash \cup fallback \cup awaiting \cup inFlight
            /\ t \notin tick.todo \cup known

\* It is recorded in one place, and the memory phase carries what memory holds.
PlaceInv ==
    \A t \in Delegations :
        t \in stash =>
            /\ t \notin fallback
            /\ tick.phase = "memory" => t \notin tick.todo
            /\ detached[t].at = "sending" => detached[t].durable
            /\ tick.op.at = "sending" /\ tick.task = t => tick.op.durable

\* A delivered one still recorded is being cleared or waits for its clear, and
\* none is on its way again.
DeliveredInv ==
    \A t \in Delegations \cap known :
        /\ t \notin fallback
        /\ t \in stash =>
            /\ t \in inFlight \cup awaiting
            /\ detached[t].at # "sending"
            /\ ~(tick.op.at = "sending" /\ tick.task = t)

\* A delivery over before the pass read the store is passed over to its end.
SettledInv ==
    /\ settled \subseteq known
    /\ \A t \in Delegations \cap settled :
        /\ t \notin inFlight
        /\ t \in tick.todo => tick.phase = "durable" /\ t \in awaiting

Safe ==
    /\ OneSendAtATime /\ NothingLost /\ ReceiptMeansDurable
    /\ OpsInv /\ OpenInv /\ OnceInv /\ PlaceInv /\ DeliveredInv /\ SettledInv

BridgeInv == TypeOK /\ Safe

\* An idle process with nothing to send satisfies it.
LEMMA InvInit == Init => BridgeInv
  <1> SUFFICES ASSUME Init PROVE BridgeInv
    OBVIOUS
  <1>1. TypeOK
    BY TypeInit
  <1>2. tick.op.at = "none" /\ tick.phase = "none" /\ tick.todo = {}
    BY DEF Init, NoTick, NoOp
  <1>3. \A t \in Tasks : detached[t].at = "none" /\ answer[t] = "open" /\ card[t] = "none"
    BY DEF Init, NoOp
  <1>4. 0 \notin Tasks
    BY DEF Tasks
  <1>5. QED
    BY <1>1, <1>2, <1>3, <1>4 DEF Init, BridgeInv, Safe, OneSendAtATime, NothingLost,
       ReceiptMeansDurable, OpsInv, OpenInv, OnceInv, PlaceInv, DeliveredInv, SettledInv,
       Delegations

\* Every step keeps it: a send, its clear, a pass, the sweeper, a crash.
LEMMA InvStep == BridgeInv /\ [Next]_vars => Safe'
  <1> SUFFICES ASSUME BridgeInv, [Next]_vars PROVE Safe'
    OBVIOUS
  <1> USE DEF store, sets, sweeper, history, Delegations, BridgeInv, Safe, OneSendAtATime, NothingLost,
       ReceiptMeansDurable, OpsInv, OpenInv, OnceInv, PlaceInv, DeliveredInv, SettledInv
  <1>21. 0 \notin Tasks BY DEF Tasks
  <1>0. CASE UNCHANGED vars
    BY <1>0 DEF vars
  <1>1. ASSUME NEW t \in Tasks, Complete(t) PROVE Safe'
    BY <1>1, <1>21 DEF Complete, TypeOK, AtRest
  <1>2. ASSUME NEW t \in Tasks, HoldForReview(t) PROVE Safe'
    BY <1>2, <1>21 DEF HoldForReview, CardStands, TypeOK
  <1>3. ASSUME NEW t \in Tasks, DecideReview(t) PROVE Safe'
    BY <1>3, <1>21 DEF DecideReview, TypeOK, AtRest
  <1>5. ASSUME NEW t \in Tasks, Stage(t) PROVE Safe'
    BY <1>5, <1>21 DEF Stage, TypeOK
  <1>6. ASSUME NEW t \in Tasks, StageHeld(t) PROVE Safe'
    BY <1>6, <1>21 DEF StageHeld, CardStands, TypeOK
  <1>23. ASSUME NEW t \in Tasks, Withhold(t) \/ StageWithheld(t) PROVE Safe'
    <2>1. answer \in [Tasks -> Answers]
      BY DEF TypeOK
    <2>2. CASE Withhold(t)
      <3>1. t \in Delegations /\ answer[t] = "due"
        BY <2>2 DEF Withhold
      <3>2. QED BY <2>1, <2>2, <3>1, <1>21 DEF Withhold
    <2>3. CASE StageWithheld(t)
      <3>1. \A u \in Tasks : answer'[u] = IF u = t /\ answer[t] = "open" THEN "withheld"
                                          ELSE answer[u]
        BY <2>1, <2>3 DEF StageWithheld
      <3>2. t \in Reasoning /\ bridging = 0 /\ receipts' \subseteq receipts \cup {t}
            /\ answer[t] \in Answers
        BY <2>1, <2>3 DEF StageWithheld, AtRest
      <3>3. QED BY <2>3, <3>1, <3>2, <1>21 DEF StageWithheld, Answers
    <2>4. QED BY <1>23, <2>2, <2>3
  <1>22. tick \in Tick /\ detached \in [Tasks -> Op]
    BY DEF TypeOK
  <1>4. ASSUME NEW t \in Tasks, DispatchBridge(t) PROVE Safe'
    <2>1. PICK recorded \in BOOLEAN, fate \in Fates :
            /\ stash' = IF recorded THEN stash \cup {t} ELSE stash
            /\ fallback' = IF recorded THEN fallback ELSE fallback \cup {t}
            /\ detached' = [detached EXCEPT ![t] = Sending(fate, recorded)]
      BY <1>4 DEF DispatchBridge
    <2>2. /\ detached'[t].at = "sending" /\ detached'[t].durable = recorded
          /\ \A u \in Tasks \ {t} : detached'[u] = detached[u]
      BY <2>1, <1>22 DEF Sending
    <2>3. /\ answer' = [answer EXCEPT ![t] = "handed"] /\ answer \in [Tasks -> Answers]
          /\ answer[t] # "withheld"
      BY <1>4 DEF DispatchBridge, TypeOK
    <2>4. QED BY <1>4, <2>1, <2>2, <2>3, <1>21 DEF DispatchBridge, TypeOK
  <1>7. ASSUME NEW t \in Tasks, DetachedStep(t) PROVE Safe'
    <2>1. PICK next \in Op : OpStep(t, detached[t], next)
                             /\ detached' = [detached EXCEPT ![t] = next]
      BY <1>7 DEF DetachedStep
    <2>2. detached'[t] = next /\ \A u \in Tasks \ {t} : detached'[u] = detached[u]
      BY <2>1, <1>22
    <2>3. detached[t] \in Op
      BY <1>22
    <2>4. CASE Delivered(t, detached[t], next)
      BY <1>7, <2>2, <2>3, <2>4, <1>21 DEF DetachedStep, Delivered, TypeOK, Op, NoOp
    <2>5. CASE SendFailed(t, detached[t], next)
      BY <1>7, <2>2, <2>3, <2>5, <1>21 DEF DetachedStep, SendFailed, TypeOK, Op, NoOp
    <2>6. CASE Cleared(t, detached[t], next)
      BY <1>7, <2>2, <2>3, <2>6, <1>21 DEF DetachedStep, Cleared, TypeOK, Op, NoOp
    <2>7. CASE ClearFailed(t, detached[t], next)
      BY <1>7, <2>2, <2>3, <2>7, <1>21 DEF DetachedStep, ClearFailed, TypeOK, Op, NoOp
    <2>8. QED BY <2>1, <2>4, <2>5, <2>6, <2>7 DEF OpStep
  <1>8. ASSUME NEW t \in Tasks, TickSkip(t) PROVE Safe'
    <2>1. /\ tick'.todo = tick.todo \ {t} /\ tick'.phase = tick.phase
          /\ tick'.op = tick.op /\ tick'.task = tick.task
      BY <1>8, <1>22 DEF TickSkip, Tick
    <2>2. QED BY <1>8, <2>1, <1>21 DEF TickSkip, TickTurn, TypeOK
  <1>9. ASSUME NEW t \in Tasks, TickSend(t) PROVE Safe'
    <2>1. PICK fate \in Fates :
            tick' = [tick EXCEPT !.todo = @ \ {t}, !.task = t,
                                 !.op = Sending(fate, tick.phase = "durable")]
      BY <1>9 DEF TickSend
    <2>2. /\ tick'.todo = tick.todo \ {t} /\ tick'.phase = tick.phase
          /\ tick'.task = t /\ tick'.op = Sending(fate, tick.phase = "durable")
      BY <2>1, <1>22 DEF Tick
    <2>3. tick'.op.at = "sending" /\ tick'.op.durable = (tick.phase = "durable")
      BY <2>2 DEF Sending
    <2>6. tick.phase = "durable" => tick'.op.durable
      BY <2>3, Zenon
    <2>4. tick.phase \in {"durable", "memory"}
      BY <1>9, <1>22 DEF TickSend, TickTurn, Tick
    <2>5. QED BY <1>9, <2>2, <2>3, <2>4, <2>6, <1>21 DEF TickSend, TickTurn, Skipped, TypeOK
  <1>10. CASE TickOpStep
    <2>1. PICK next \in Op : OpStep(tick.task, tick.op, next)
                             /\ tick' = [tick EXCEPT !.op = next]
      BY <1>10 DEF TickOpStep
    <2>2. /\ tick'.todo = tick.todo /\ tick'.phase = tick.phase
          /\ tick'.task = tick.task /\ tick'.op = next
      BY <2>1, <1>22 DEF Tick
    <2>3. tick.op \in Op /\ tick.op.at # "none" /\ tick.task \in Tasks
      BY <1>22, <2>1 DEF Tick, OpStep, Delivered, SendFailed, Cleared, ClearFailed
    <2>4. CASE Delivered(tick.task, tick.op, next)
      BY <1>10, <2>2, <2>3, <2>4, <1>21 DEF TickOpStep, Delivered, TypeOK, Op, NoOp
    <2>5. CASE SendFailed(tick.task, tick.op, next)
      BY <1>10, <2>2, <2>3, <2>5, <1>21 DEF TickOpStep, SendFailed, TypeOK, Op, NoOp
    <2>6. CASE Cleared(tick.task, tick.op, next)
      BY <1>10, <2>2, <2>3, <2>6, <1>21 DEF TickOpStep, Cleared, TypeOK, Op, NoOp
    <2>7. CASE ClearFailed(tick.task, tick.op, next)
      BY <1>10, <2>2, <2>3, <2>7, <1>21 DEF TickOpStep, ClearFailed, TypeOK, Op, NoOp
    <2>8. QED BY <2>1, <2>4, <2>5, <2>6, <2>7 DEF OpStep
  <1>11. CASE TickMemory
    <2>1. /\ tick'.todo = fallback /\ tick'.phase = "memory" /\ tick'.op.at = "none"
      BY <1>11 DEF TickMemory, NoTick, NoOp
    <2>2. QED BY <1>11, <2>1, <1>21 DEF TickMemory, TickTurn, TypeOK
  <1>12. CASE TickEnd
    <2>1. /\ tick'.todo = {} /\ tick'.phase = "none" /\ tick'.op.at = "none"
      BY <1>12 DEF TickEnd, NoTick, NoOp
    <2>2. QED BY <1>12, <2>1, <1>21 DEF TickEnd, TickTurn, TypeOK
  <1>13. ASSUME Scan, tick.phase = "none",
                UNCHANGED <<store, sets, detached, bridging, known, forgotten>>,
                pin' # "none"
         PROVE  Safe'
    <2>1. /\ tick'.todo = stash /\ tick'.phase = "durable" /\ tick'.op.at = "none"
      BY <1>13 DEF Scan, NoTick, NoOp
    <2>2. tick.op.at = "none"
      BY <1>13
    <2>3. QED BY <1>13, <2>1, <2>2, <1>21 DEF Scan, TypeOK
  <1>14. ASSUME Sweep, UNCHANGED bridging PROVE Safe'
    <2>1. CASE pin = "none"
      BY <1>13, <1>14, <2>1 DEF Sweep
    <2>2. CASE pin # "none"
      BY <1>14, <2>2 DEF Sweep
    <2>3. QED BY <2>1, <2>2
  <1>15. CASE Start \/ Interval
    BY <1>14, <1>15 DEF Start, Interval, Sweep
  <1>16. CASE DrainOnce
    BY <1>13, <1>16 DEF DrainOnce
  <1>17. CASE Stop
    BY <1>17 DEF Stop, TypeOK
  <1>18. CASE Flush
    BY <1>18 DEF Flush, TypeOK
  <1>19. CASE Crash
    <2>1. /\ tick'.todo = {} /\ tick'.phase = "none" /\ tick'.op.at = "none"
          /\ \A t \in Tasks : detached'[t].at = "none"
      BY <1>19 DEF Crash, NoTick, NoOp
    <2>2. QED BY <1>19, <2>1, <1>21 DEF Crash, TypeOK
  <1>20. QED
    BY <1>0, <1>1, <1>2, <1>3, <1>4, <1>5, <1>6, <1>7, <1>8, <1>9, <1>10, <1>11,
       <1>12, <1>15, <1>16, <1>17, <1>18, <1>19, <1>23
    DEF Next, Running, TaskStep

-----------------------------------------------------------------------------
(* The theorems *)

\* The inductive invariant holds of every behaviour.
THEOREM Invariance == Spec => []BridgeInv
  <1>1. BridgeInv => TaskOfOp
    BY DEF BridgeInv, Safe, OpsInv, TaskOfOp
  <1>2. BridgeInv /\ [Next]_vars => BridgeInv'
    BY <1>1, TypeStep, InvStep DEF BridgeInv
  <1>3. QED BY InvInit, <1>2, PTL DEF Spec

\* The store, the sets and the pass are well typed in every reachable state.
THEOREM TypeCorrect == Spec => []TypeOK
  BY Invariance, PTL DEF BridgeInv

\* The initial send of a delegation's answer and a retry never overlap.
THEOREM NeverTwiceAtOnce == Spec => []OneSendAtATime
  BY Invariance, PTL DEF BridgeInv, Safe

\* An answer is lost only with the memory of a process that crashed.
THEOREM AnswersKept == Spec => []NothingLost
  BY Invariance, PTL DEF BridgeInv, Safe

\* A receipt promises an answer that survives crashes.
THEOREM ReceiptsKept == Spec => []ReceiptMeansDurable
  BY Invariance, PTL DEF BridgeInv, Safe

\* A pass never repeats a delivery that was over when it read the store.
THEOREM NoFreshResend == Spec => FreshScanNeverResends
  <1>1. BridgeInv => \A t \in Tasks \ Reasoning : TickSend(t) => t \notin settled
    BY DEF BridgeInv, Safe, SettledInv, Delegations, TickSend, Skipped
  <1>2. QED BY Invariance, <1>1, PTL DEF FreshScanNeverResends

-----------------------------------------------------------------------------
(* The bridge implements the promise of an answer *)

\* An answer that a crash took is nowhere any more, and nothing brings it back.
LostInv ==
    \A t \in Delegations \cap forgotten :
        /\ answer[t] # "open" /\ card[t] # "pending" /\ bridging # t
        /\ t \notin stash \cup fallback \cup inFlight \cup tick.todo \cup known

\* A send under way or a listed record belongs to an answer that is not lost,
\* so no step brings a lost one back.
LEMMA LostStep == BridgeInv /\ LostInv /\ [Next]_vars => LostInv'
  <1> SUFFICES ASSUME BridgeInv, LostInv, [Next]_vars PROVE LostInv'
    OBVIOUS
  <1> USE DEF store, sets, sweeper, history, Delegations, LostInv
  <1>21. 0 \notin Tasks BY DEF Tasks
  <1>22. tick \in Tick /\ detached \in [Tasks -> Op] /\ TypeOK
    BY DEF BridgeInv, TypeOK
  <1>23. OneSendAtATime /\ OnceInv /\ PlaceInv /\ DeliveredInv /\ OpsInv
    BY DEF BridgeInv, Safe
  <1>0. CASE UNCHANGED vars
    BY <1>0 DEF vars
  <1>1. ASSUME NEW t \in Tasks, Complete(t) PROVE LostInv'
    BY <1>1, <1>22 DEF Complete, TypeOK
  <1>2. ASSUME NEW t \in Tasks, HoldForReview(t) PROVE LostInv'
    BY <1>2, <1>21, <1>22 DEF HoldForReview, CardStands, TypeOK
  <1>3. ASSUME NEW t \in Tasks, DecideReview(t) PROVE LostInv'
    BY <1>3, <1>22 DEF DecideReview, TypeOK
  <1>4. ASSUME NEW t \in Tasks, DispatchBridge(t) PROVE LostInv'
    BY <1>4, <1>21, <1>22 DEF DispatchBridge, TypeOK
  <1>5. ASSUME NEW t \in Tasks, Stage(t) PROVE LostInv'
    BY <1>5, <1>22 DEF Stage, TypeOK
  <1>6. ASSUME NEW t \in Tasks, StageHeld(t) PROVE LostInv'
    BY <1>6, <1>22 DEF StageHeld, CardStands, TypeOK
  <1>24. ASSUME NEW t \in Tasks, Withhold(t) \/ StageWithheld(t) PROVE LostInv'
    BY <1>21, <1>22, <1>24 DEF Withhold, StageWithheld, TypeOK
  <1>7. ASSUME NEW t \in Tasks, DetachedStep(t) PROVE LostInv'
    <2>1. PICK next \in Op : OpStep(t, detached[t], next)
      BY <1>7 DEF DetachedStep
    <2>2. detached[t].at # "none"
      BY <2>1 DEF OpStep, Delivered, SendFailed, Cleared, ClearFailed
    <2>3. t \in Delegations => t \in inFlight
      BY <2>2, <1>23 DEF OneSendAtATime
    <2>4. /\ stash' \subseteq stash /\ fallback' \subseteq fallback
          /\ inFlight' \subseteq inFlight /\ known' \subseteq known \cup {t}
      BY <2>1 DEF OpStep, Delivered, SendFailed, Cleared, ClearFailed
    <2>5. QED BY <1>7, <2>3, <2>4 DEF DetachedStep
  <1>8. ASSUME NEW t \in Tasks, TickSkip(t) PROVE LostInv'
    <2>1. tick'.todo = tick.todo \ {t}
      BY <1>8, <1>22 DEF TickSkip, Tick
    <2>2. QED BY <1>8, <2>1 DEF TickSkip
  <1>9. ASSUME NEW t \in Tasks, TickSend(t) PROVE LostInv'
    <2>1. tick'.todo = tick.todo \ {t}
      BY <1>9, <1>22 DEF TickSend, Tick
    <2>2. QED BY <1>9, <2>1 DEF TickSend
  <1>10. CASE TickOpStep
    <2>1. PICK next \in Op : OpStep(tick.task, tick.op, next)
                             /\ tick' = [tick EXCEPT !.op = next]
      BY <1>10 DEF TickOpStep
    <2>2. tick.op.at # "none"
      BY <2>1 DEF OpStep, Delivered, SendFailed, Cleared, ClearFailed
    <2>3. tick.task \in Delegations => tick.task \in inFlight
      BY <2>2, <1>23 DEF OneSendAtATime
    <2>4. /\ stash' \subseteq stash /\ fallback' \subseteq fallback
          /\ inFlight' \subseteq inFlight /\ known' \subseteq known \cup {tick.task}
      BY <2>1 DEF OpStep, Delivered, SendFailed, Cleared, ClearFailed
    <2>5. tick'.todo = tick.todo
      BY <2>1, <1>22 DEF Tick
    <2>6. QED BY <1>10, <2>3, <2>4, <2>5 DEF TickOpStep
  <1>11. CASE TickMemory
    <2>1. tick'.todo = fallback
      BY <1>11 DEF TickMemory, NoTick
    <2>2. QED BY <1>11, <2>1 DEF TickMemory
  <1>12. CASE TickEnd
    BY <1>12 DEF TickEnd, NoTick
  <1>13. ASSUME Scan PROVE tick'.todo = stash
    BY <1>13 DEF Scan, NoTick
  <1>14. CASE Start \/ Interval \/ DrainOnce
    BY <1>13, <1>14 DEF Start, Interval, DrainOnce, Sweep
  <1>17. CASE Stop \/ Flush
    BY <1>17 DEF Stop, Flush
  <1>19. CASE Crash
    <2>1. tick'.todo = {}
      BY <1>19 DEF Crash, NoTick
    <2>2. QED BY <1>19, <2>1, <1>21, <1>23 DEF Crash, OnceInv, PlaceInv, DeliveredInv
  <1>20. QED
    BY <1>0, <1>1, <1>2, <1>3, <1>4, <1>5, <1>6, <1>7, <1>8, <1>9, <1>10, <1>11,
       <1>12, <1>14, <1>17, <1>19, <1>24
    DEF Next, Running, TaskStep

\* What the bridge does to the promise, when one answer changes hands.
LEMMA PromiseStep ==
    ASSUME NEW t \in Delegations,
           \/ Promise!Answer(t) \/ Promise!Withhold(t) \/ Promise!Keep(t)
           \/ Promise!TakeBack(t) \/ Promise!Arrive(t) \/ Promise!Strike(t)
    PROVE  Promise!Next
  BY DEF Promise!Next

\* Nothing of the promise changes while no answer does.
LEMMA Idle ==
    ASSUME UNCHANGED <<stash, fallback, known, forgotten, bridging, answer>>
    PROVE  UNCHANGED Promise!vars
  BY DEF Promise!vars, Owed, Frail, Due, Withheld

\* A send of an answer, and its clear, are an arrival, a strike or nothing.
LEMMA PromiseOp ==
    ASSUME BridgeInv, LostInv, NEW t \in Tasks, NEW op \in Op, NEW next \in Op,
           OpStep(t, op, next), UNCHANGED <<answer, bridging, forgotten>>,
           AtRest, t \in Delegations => t \in inFlight,
           op.at = "clearing" => t \in known,
           op.at = "sending" /\ t \in stash => op.durable
    PROVE  [Promise!Next]_(Promise!vars)
  <1> USE DEF Delegations
  <1>1. /\ 0 \notin Tasks /\ bridging = 0
        /\ OnceInv /\ PlaceInv /\ DeliveredInv /\ NothingLost
    BY DEF Tasks, AtRest, BridgeInv, Safe
  <1>2. CASE t \in Delegations
    <2>1. t \notin forgotten /\ answer[t] = "handed"
      BY <1>1, <1>2 DEF LostInv, OnceInv
    <2>2. t \in stash \cup fallback \cup known
      BY <1>1, <2>1 DEF NothingLost
    <2>3. CASE Delivered(t, op, next)
      <3>1. stash' = stash /\ known' = known \cup {t} /\ fallback' = fallback \ {t}
        BY <2>3 DEF Delivered
      <3>2. Frail' = Frail \ {t} /\ (t \in Frail <=> t \in fallback)
        BY <1>1, <1>2, <3>1 DEF Frail
      <3>3. CASE t \in known
        BY <3>1, <3>3, <1>1, <1>2, Idle DEF DeliveredInv
      <3>4. CASE t \in stash /\ t \notin known
        <4>1. t \notin fallback /\ Owed' = Owed /\ t \in Owed /\ t \notin Frail
          BY <1>1, <1>2, <3>1, <3>2, <3>4 DEF PlaceInv, Owed, Due
        <4>2. Promise!Arrive(t)
          BY <1>2, <3>1, <3>2, <3>4, <4>1 DEF Promise!Arrive, Withheld
        <4>3. QED BY <4>2, <1>2, PromiseStep
      <3>5. CASE t \in fallback /\ t \notin known
        <4>1. t \notin stash /\ Owed' = Owed \ {t} /\ t \in Owed /\ t \in Frail
          BY <1>1, <1>2, <2>1, <3>1, <3>2, <3>5 DEF PlaceInv, Owed, Due
        <4>2. Promise!Arrive(t)
          BY <1>2, <3>1, <3>2, <3>5, <4>1 DEF Promise!Arrive, Withheld
        <4>3. QED BY <4>2, <1>2, PromiseStep
      <3>6. QED BY <2>2, <3>3, <3>4, <3>5
    <2>4. CASE SendFailed(t, op, next) \/ ClearFailed(t, op, next)
      BY <2>4, Idle DEF SendFailed, ClearFailed
    <2>5. CASE Cleared(t, op, next)
      <3>1. t \in known /\ t \notin fallback
        BY <2>5, <1>1, <1>2 DEF Cleared, DeliveredInv
      <3>2. /\ stash' = stash \ {t} /\ UNCHANGED <<fallback, known>>
        BY <2>5 DEF Cleared
      <3>3. Frail' = Frail /\ Owed' = Owed \ {t}
        BY <2>1, <3>1, <3>2 DEF Frail, Owed, Due
      <3>4. CASE t \in stash
        <4>1. Promise!Strike(t)
          BY <1>2, <3>1, <3>2, <3>3, <3>4 DEF Promise!Strike, Withheld, Owed
        <4>2. QED BY <4>1, <1>2, PromiseStep
      <3>5. CASE t \notin stash
        BY <3>2, <3>5, Idle
      <3>6. QED BY <3>4, <3>5
    <2>6. QED BY <2>3, <2>4, <2>5 DEF OpStep
  <1>3. CASE t \notin Delegations
    BY <1>3 DEF OpStep, Delivered, SendFailed, Cleared, ClearFailed, Promise!vars,
       Owed, Frail, Due, Withheld
  <1>4. QED BY <1>2, <1>3

\* Every step of the bridge is one of the promise, or leaves it as it is.
LEMMA PromiseNext ==
    BridgeInv /\ LostInv /\ [Next]_vars => [Promise!Next]_(Promise!vars)
  <1> SUFFICES ASSUME BridgeInv, LostInv, [Next]_vars
               PROVE  [Promise!Next]_(Promise!vars)
    OBVIOUS
  <1> USE DEF store, sets, sweeper, history, Delegations
  <1>21. 0 \notin Tasks BY DEF Tasks
  <1>22. tick \in Tick /\ detached \in [Tasks -> Op] /\ TypeOK
    BY DEF BridgeInv, TypeOK
  <1>23. /\ OneSendAtATime /\ OnceInv /\ PlaceInv /\ DeliveredInv /\ OpsInv /\ OpenInv
         /\ NothingLost
    BY DEF BridgeInv, Safe
  <1>0. CASE UNCHANGED vars
    BY <1>0, Idle DEF vars
  <1>1. ASSUME NEW t \in Tasks, Complete(t) PROVE Promise!Next
    <2>1. /\ t \in Delegations /\ bridging = 0 /\ t \notin forgotten
          /\ t \notin stash \cup fallback \cup known
      BY <1>1, <1>23 DEF Complete, AtRest, OnceInv, LostInv
    <2>2. /\ answer' = [answer EXCEPT ![t] = "due"] /\ bridging' = t
          /\ UNCHANGED <<stash, fallback, known, forgotten>>
      BY <1>1 DEF Complete
    <2>3. answer \in [Tasks -> Answers] /\ answer[t] = "open"
      BY <1>1, <1>22 DEF Complete, TypeOK
    <2>4. Owed' = Owed \cup {t} /\ Frail' = Frail \cup {t} /\ t \notin Owed
      BY <2>1, <2>2, <2>3, <1>21 DEF Owed, Frail, Due
    <2>5. Promise!Answer(t)
      BY <2>1, <2>2, <2>3, <2>4 DEF Promise!Answer, Withheld
    <2>6. QED BY <2>1, <2>5, PromiseStep
  <1>2. ASSUME NEW t \in Tasks, HoldForReview(t)
        PROVE  [Promise!Next]_(Promise!vars)
    <2>1. /\ bridging = t /\ bridging' = 0
          /\ UNCHANGED <<answer, stash, fallback, known, forgotten>>
      BY <1>2 DEF HoldForReview
    <2>2. Owed' = Owed
      BY <2>1 DEF Owed, Due
    <2>3. CASE t \in Delegations
      <3>1. t \notin fallback /\ Frail' = Frail \ {t} /\ t \in Frail
        BY <2>1, <2>3, <1>21, <1>23 DEF OnceInv, Frail
      <3>2. Promise!Keep(t)
        BY <2>1, <2>2, <3>1 DEF Promise!Keep, Withheld
      <3>3. QED BY <3>2, <2>3, PromiseStep
    <2>4. CASE t \notin Delegations
      BY <2>1, <2>2, <2>4, <1>21 DEF Promise!vars, Frail, Withheld
    <2>5. QED BY <2>3, <2>4
  <1>3. ASSUME NEW t \in Tasks, DecideReview(t)
        PROVE  [Promise!Next]_(Promise!vars)
    <2>1. /\ bridging = 0 /\ bridging' = t /\ card[t] = "pending"
          /\ UNCHANGED <<answer, stash, fallback, known, forgotten>>
      BY <1>3 DEF DecideReview, AtRest
    <2>2. Owed' = Owed
      BY <2>1 DEF Owed, Due
    <2>3. CASE t \in Delegations
      <3>1. /\ t \notin forgotten /\ answer[t] = "due" /\ t \notin known
            /\ Frail' = Frail \cup {t} /\ t \in Owed
        BY <2>1, <2>3, <1>21, <1>23 DEF OnceInv, LostInv, Frail, Owed, Due
      <3>2. Promise!TakeBack(t)
        BY <2>1, <2>2, <3>1 DEF Promise!TakeBack, Withheld
      <3>3. QED BY <3>2, <2>3, PromiseStep
    <2>4. CASE t \notin Delegations
      BY <2>1, <2>2, <2>4, <1>21 DEF Promise!vars, Frail, Withheld
    <2>5. QED BY <2>3, <2>4
  <1>4. ASSUME NEW t \in Tasks, DispatchBridge(t)
        PROVE  [Promise!Next]_(Promise!vars)
    <2>1. PICK recorded \in BOOLEAN :
            /\ stash' = IF recorded THEN stash \cup {t} ELSE stash
            /\ fallback' = IF recorded THEN fallback ELSE fallback \cup {t}
      BY <1>4 DEF DispatchBridge
    <2>2. /\ bridging = t /\ bridging' = 0 /\ UNCHANGED <<known, forgotten>>
          /\ answer' = [answer EXCEPT ![t] = "handed"]
      BY <1>4 DEF DispatchBridge
    <2>3. answer \in [Tasks -> Answers]
      BY <1>22 DEF TypeOK
    <2>4. CASE t \in Delegations
      <3>1. /\ t \notin forgotten /\ answer[t] = "due"
            /\ t \notin stash \cup fallback \cup known
        BY <2>2, <2>4, <1>23 DEF OnceInv, LostInv
      <3>2. Owed' = Owed /\ t \in Owed /\ Withheld' = Withheld
        BY <2>1, <2>2, <2>3, <2>4, <3>1 DEF Owed, Due, Withheld
      <3>3. CASE recorded
        <4>1. Frail' = Frail \ {t} /\ t \in Frail
          BY <2>1, <2>2, <2>4, <3>1, <3>3, <1>21 DEF Frail
        <4>2. Promise!Keep(t)
          BY <2>2, <3>2, <4>1 DEF Promise!Keep
        <4>3. QED BY <4>2, <2>4, PromiseStep
      <3>4. CASE ~recorded
        <4>1. Frail' = Frail
          BY <2>1, <2>2, <3>4, <1>21 DEF Frail
        <4>2. QED BY <2>2, <3>2, <4>1 DEF Promise!vars
      <3>5. QED BY <3>3, <3>4
    <2>5. CASE t \notin Delegations
      BY <2>1, <2>2, <2>3, <2>5, <1>21 DEF Promise!vars, Owed, Frail, Due, Withheld
    <2>6. QED BY <2>4, <2>5
  <1>5. ASSUME NEW t \in Tasks, Stage(t) \/ StageHeld(t) \/ StageWithheld(t)
        PROVE  UNCHANGED Promise!vars
    <2>1. /\ t \notin Delegations /\ UNCHANGED <<fallback, known, forgotten, bridging>>
          /\ stash \subseteq stash' /\ stash' \subseteq stash \cup {t}
          /\ \A u \in Tasks \ {t} : answer'[u] = answer[u]
      BY <1>5, <1>22 DEF Stage, StageHeld, StageWithheld, TypeOK
    <2>2. QED BY <2>1 DEF Promise!vars, Owed, Frail, Due, Withheld
  <1>6. ASSUME NEW t \in Tasks, Withhold(t)
        PROVE  [Promise!Next]_(Promise!vars)
    <2>1. /\ bridging = t /\ bridging' = 0 /\ answer' = [answer EXCEPT ![t] = "withheld"]
          /\ UNCHANGED <<stash, fallback, known, forgotten>>
      BY <1>6 DEF Withhold
    <2>2. answer \in [Tasks -> Answers]
      BY <1>22 DEF TypeOK
    <2>3. CASE t \in Delegations
      <3>1. answer[t] = "due" /\ t \notin stash \cup fallback
        BY <2>1, <2>3, <1>23 DEF OnceInv
      <3>2. /\ t \in Frail /\ Frail' = Frail \ {t} /\ Owed' = Owed \ {t}
            /\ Withheld' = Withheld \cup {t}
        BY <2>1, <2>2, <2>3, <3>1, <1>21 DEF Frail, Owed, Due, Withheld
      <3>3. Promise!Withhold(t)
        BY <2>1, <3>2 DEF Promise!Withhold
      <3>4. QED BY <2>3, <3>3, PromiseStep
    <2>4. CASE t \notin Delegations
      BY <2>1, <2>2, <2>4, <1>21 DEF Promise!vars, Owed, Frail, Due, Withheld
    <2>5. QED BY <2>3, <2>4
  <1>7. ASSUME NEW t \in Tasks, DetachedStep(t)
        PROVE  [Promise!Next]_(Promise!vars)
    <2>1. PICK next \in Op : OpStep(t, detached[t], next)
      BY <1>7 DEF DetachedStep
    <2>2. detached[t].at # "none" /\ detached[t] \in Op
      BY <2>1, <1>22 DEF OpStep, Delivered, SendFailed, Cleared, ClearFailed
    <2>3. t \in Delegations => t \in inFlight
      BY <2>2, <1>23 DEF OneSendAtATime
    <2>4. CASE t \in Delegations
      <3>1. detached[t].at = "clearing" => t \in known
        BY <1>23 DEF OpsInv
      <3>2. detached[t].at = "sending" /\ t \in stash => detached[t].durable
        BY <2>4, <1>23 DEF PlaceInv
      <3>3. AtRest /\ UNCHANGED <<answer, bridging, forgotten>>
        BY <1>7 DEF DetachedStep
      <3>4. QED BY <2>1, <2>2, <2>3, <3>1, <3>2, <3>3, PromiseOp
    <2>5. CASE t \notin Delegations
      BY <1>7, <2>1, <2>5 DEF DetachedStep, OpStep, Delivered, SendFailed, Cleared,
         ClearFailed, Promise!vars, Owed, Frail, Due, Withheld
    <2>6. QED BY <2>4, <2>5
  <1>8. ASSUME NEW t \in Tasks, TickSkip(t)
        PROVE  [Promise!Next]_(Promise!vars)
    <2>1. UNCHANGED <<answer, fallback, known, forgotten, bridging>>
      BY <1>8 DEF TickSkip
    <2>2. CASE UNCHANGED stash
      BY <2>1, <2>2, Idle
    <2>3. CASE stash' = stash \ {t} /\ t \in awaiting /\ t \in Delegations /\ t \in stash
      <3>1. /\ t \in known /\ t \notin fallback /\ answer[t] = "handed"
        BY <2>3, <1>22, <1>23 DEF OpsInv, DeliveredInv, OnceInv, TypeOK, Answers
      <3>2. Owed' = Owed \ {t} /\ t \in Owed /\ Frail' = Frail
        BY <2>1, <2>3, <3>1 DEF Owed, Frail, Due
      <3>3. Promise!Strike(t)
        BY <2>1, <2>3, <3>1, <3>2 DEF Promise!Strike, Withheld
      <3>4. QED BY <2>3, <3>3, PromiseStep
    <2>4. CASE stash' = stash \ {t} /\ t \notin Delegations
      BY <2>1, <2>4 DEF Promise!vars, Owed, Frail, Due, Withheld
    <2>5. QED BY <1>8, <2>2, <2>3, <2>4 DEF TickSkip
  <1>9. ASSUME NEW t \in Tasks, TickSend(t) PROVE UNCHANGED Promise!vars
    BY <1>9, Idle DEF TickSend
  <1>10. CASE TickOpStep
    <2>1. PICK next \in Op : OpStep(tick.task, tick.op, next)
      BY <1>10 DEF TickOpStep
    <2>2. tick.op.at # "none" /\ tick.op \in Op
      BY <2>1, <1>22 DEF Tick, OpStep, Delivered, SendFailed, Cleared, ClearFailed
    <2>3. /\ tick.task \in Tasks
          /\ tick.task \in Delegations => tick.task \in inFlight
      BY <2>2, <1>23 DEF OneSendAtATime, OpsInv
    <2>4. CASE tick.task \in Delegations
      <3>1. tick.op.at = "clearing" => tick.task \in known
        BY <1>23 DEF OpsInv
      <3>2. tick.op.at = "sending" /\ tick.task \in stash => tick.op.durable
        BY <2>4, <1>23 DEF PlaceInv
      <3>3. AtRest /\ UNCHANGED <<answer, bridging, forgotten>>
        BY <1>10 DEF TickOpStep
      <3>4. QED BY <2>1, <2>2, <2>3, <3>1, <3>2, <3>3, PromiseOp
    <2>5. CASE tick.task \notin Delegations
      BY <1>10, <2>1, <2>5 DEF TickOpStep, OpStep, Delivered, SendFailed, Cleared,
         ClearFailed, Promise!vars, Owed, Frail, Due, Withheld
    <2>6. QED BY <2>4, <2>5
  <1>11. CASE TickMemory \/ TickEnd \/ Start \/ Interval \/ DrainOnce \/ Stop \/ Flush
    BY <1>11, Idle DEF TickMemory, TickEnd, Start, Interval, DrainOnce, Stop, Flush, Sweep
  <1>19. CASE Crash
    <2>1. /\ bridging' = 0 /\ fallback' = {} /\ known' = known \ stash
          /\ forgotten' = forgotten \cup fallback \cup ({bridging} \ {0})
          /\ UNCHANGED <<stash, answer>>
      BY <1>19 DEF Crash
    <2>2. Frail' = {}
      BY <2>1, <1>21 DEF Frail
    <2>3. Delegations \cap forgotten' = (Delegations \cap forgotten) \cup Frail
      BY <2>1, <1>21 DEF Frail
    <2>4. Owed' = Owed \ Frail
      BY <2>1, <1>21, <1>23 DEF Frail, Owed, Due, OnceInv, PlaceInv
    <2>5. Delegations \cap known' = (Delegations \cap known) \ Owed
      BY <2>1, <1>23 DEF Owed, Due, OnceInv, DeliveredInv
    <2>6. Promise!Crash
      BY <2>1, <2>2, <2>3, <2>4, <2>5 DEF Promise!Crash, Withheld
    <2>7. QED BY <2>6 DEF Promise!Next
  <1>20. QED
    BY <1>0, <1>1, <1>2, <1>3, <1>4, <1>5, <1>6, <1>7, <1>8, <1>9, <1>10, <1>11,
       <1>19
    DEF Next, Running, TaskStep

\* From its first state on, the bridge keeps the promise of an answer: owed
\* once, until it is known to have arrived, and lost only with the process.
THEOREM ReplyKept == Spec => ImplementsReply
  <1>1. Init => LostInv
    BY DEF Init, LostInv
  <1>2. Spec => []LostInv
    BY <1>1, Invariance, LostStep, PTL DEF Spec
  <1>3. Init => Promise!Init
    BY DEF Init, Promise!Init, Owed, Frail, Due, Withheld, Delegations, Tasks
  <1>4. QED
    BY <1>2, <1>3, Invariance, PromiseNext, PTL DEF Spec, ImplementsReply, Promise!Spec

\* An answer known to have arrived and struck from the record stays so through
\* every later step and crash: nothing makes the node owe it again.
THEOREM NeverOwedAgain ==
    Spec => [][\A t \in Delegations : t \in known \ Owed => t \in known' \ Owed']_vars
  <1>1. ASSUME [Promise!Next]_(Promise!vars), NEW t \in Delegations, t \in known \ Owed
        PROVE  t \in known' \ Owed'
    BY <1>1 DEF Promise!Next, Promise!vars, Promise!Answer, Promise!Withhold, Promise!Keep, Promise!TakeBack,
       Promise!Arrive, Promise!Strike, Promise!Crash
  <1>2. [Promise!Next]_(Promise!vars) =>
            \A t \in Delegations : t \in known \ Owed => t \in known' \ Owed'
    BY <1>1
  <1>3. QED
    BY ReplyKept, <1>2, PTL DEF ImplementsReply, Promise!Spec

=============================================================================
