------------------------- MODULE RunAdmissionProofs -------------------------
(***************************************************************************)
(* Proofs about the admission of results to a run.                         *)
(*                                                                         *)
(* Most steps are quiet: they open no slot, admit nothing and pass over    *)
(* nothing, and what a quiet step keeps is proved once.  Left are the step *)
(* that opens a slot, the commit, and the owner's skip of a loss.  Answers *)
(* that are held and their copies come last, and that the bound on the     *)
(* provider's positions is one no run meets.                               *)
(***************************************************************************)
EXTENDS RunAdmission, FiniteSetTheorems, TLAPS

\* A message stands under a committed reservation.
AdmittedIsCommitted == \A s \in Admitted : res[s].state = "committed"

\* Under its own id it has one.
AdmittedOnce == \A s, t \in Admitted : res[s].id = res[t].id => s = t

\* Below the cursor every position is settled, at it none is, and messages
\* are only below.
Delivered_Below == \A s \in Admitted : res[s].cursor < cursor
Skipped_Passed == cursor \notin SkippedIn(res)
Filled == \A p \in Positions : p < cursor => p \in Delivered \cup SkippedIn(res)

Inv ==
    /\ CoreOK /\ AdmittedIsCommitted /\ AdmittedOnce
    /\ CountBudget /\ BarrierClosesSlots /\ OneSlotPerPosition
    /\ Delivered_Below /\ Skipped_Passed /\ Filled

-----------------------------------------------------------------------------
\* Sizes.

LEMMA OpenFinite ==
    ASSUME NEW rows
    PROVE  /\ IsFiniteSet(OpenIn(rows))
           /\ Cardinality(OpenIn(rows)) \in Nat
<1>1. OpenIn(rows) \in SUBSET Slots
  BY DEF OpenIn
<1> QED
  BY <1>1, RunAssumption, FS_Subset, FS_CardinalityType

LEMMA UndecidedFinite ==
    ASSUME NEW m
    PROVE  /\ IsFiniteSet(UndecidedIn(m))
           /\ Cardinality(UndecidedIn(m)) \in Nat
<1>1. UndecidedIn(m) \in SUBSET Slots
  BY DEF UndecidedIn
<1> QED
  BY <1>1, RunAssumption, FS_Subset, FS_CardinalityType

LEMMA Smaller ==
    ASSUME NEW S, IsFiniteSet(S), NEW T, T \subseteq S
    PROVE  /\ Cardinality(T) \in Nat /\ Cardinality(S) \in Nat
           /\ Cardinality(T) <= Cardinality(S)
BY FS_Subset, FS_CardinalityType

LEMMA SmallerByOne ==
    ASSUME NEW S, IsFiniteSet(S), NEW x \in S, NEW T, T \subseteq S \ {x}
    PROVE  /\ Cardinality(T) \in Nat /\ Cardinality(S) \in Nat
           /\ Cardinality(T) + 1 <= Cardinality(S)
<1>1. /\ IsFiniteSet(S \ {x}) /\ Cardinality(S \ {x}) = Cardinality(S) - 1
  BY FS_RemoveElement
<1>2. /\ Cardinality(T) \in Nat /\ Cardinality(T) <= Cardinality(S \ {x})
  BY <1>1, Smaller
<1> QED
  BY <1>1, <1>2, FS_CardinalityType

LEMMA LargerByOne ==
    ASSUME NEW S, IsFiniteSet(S), NEW x, NEW T, T \subseteq S \cup {x}
    PROVE  /\ Cardinality(T) \in Nat /\ Cardinality(S) \in Nat
           /\ Cardinality(T) <= Cardinality(S) + 1
<1>1. Cardinality(S) \in Nat
  BY FS_CardinalityType
<1>2. /\ IsFiniteSet(S \cup {x})
      /\ Cardinality(S \cup {x}) = IF x \in S THEN Cardinality(S) ELSE Cardinality(S) + 1
  BY FS_AddElement
<1>3. /\ Cardinality(T) \in Nat /\ Cardinality(T) <= Cardinality(S \cup {x})
  BY <1>2, Smaller
<1> QED
  BY <1>1, <1>2, <1>3

-----------------------------------------------------------------------------
\* Quiet steps.

Quiet ==
    /\ \A s \in Slots :
        /\ res'[s].cursor = res[s].cursor
        /\ res'[s].state = "skipped" <=> res[s].state = "skipped"
        /\ s \in OpenIn(res') => s \in OpenIn(res)
        /\ res[s].state = "committed" =>
             res'[s].state = "committed" /\ res'[s].id = res[s].id
        /\ msg'[s] = "none" <=> msg[s] = "none"
    /\ UNCHANGED <<cursor, produced>>
    /\ \/ decided' = decided /\ UndecidedIn(msg') \subseteq UndecidedIn(msg)
       \/ \E s \in UndecidedIn(msg) :
            decided' = decided + 1 /\ UndecidedIn(msg') \subseteq UndecidedIn(msg) \ {s}

Running == runState \in {"active", "paused"}

\* A barrier closes the slots and is not taken back.
Forward ==
    /\ runState \in Terminal => UNCHANGED runVars
    /\ runState = "draining" =>
         /\ runState' \in {"draining"} \cup Terminal
         /\ cause \in Fencing => cause' = cause
         /\ overdue => overdue'
    /\ Running /\ ~Running' => OpenIn(res') = {}

LEMMA QuietAdmitted ==
    ASSUME Inv, CoreOK', Quiet
    PROVE  /\ Admitted' = Admitted /\ SkippedIn(res') = SkippedIn(res)
           /\ Delivered' = Delivered
           /\ OpenIn(res') \subseteq OpenIn(res)
<1>1. Admitted' = Admitted
  BY DEF Quiet, Admitted
<1>2. SkippedIn(res') = SkippedIn(res)
  BY DEF Quiet, SkippedIn
<1>3. CursorsOf(Admitted)' = CursorsOf(Admitted)
  <2>1. \A s \in Admitted : s \in Slots /\ res'[s].cursor = res[s].cursor
    BY DEF Quiet, Admitted
  <2> QED
    BY <1>1, <2>1 DEF CursorsOf
<1>4. OpenIn(res') \subseteq OpenIn(res)
  BY DEF Quiet, OpenIn
<1> QED
  BY <1>1, <1>2, <1>3, <1>4 DEF Delivered

LEMMA QuietSizes ==
    ASSUME Inv, CoreOK', Quiet
    PROVE  /\ Cardinality(OpenIn(res')) \in Nat /\ Cardinality(OpenIn(res)) \in Nat
           /\ Cardinality(OpenIn(res')) <= Cardinality(OpenIn(res))
           /\ Outstanding \in Nat /\ Outstanding' \in Nat
           /\ Outstanding' <= Outstanding
           /\ Outstanding' + decided' <= Outstanding + decided
<1>1. /\ Cardinality(OpenIn(res')) \in Nat /\ Cardinality(OpenIn(res)) \in Nat
      /\ Cardinality(OpenIn(res')) <= Cardinality(OpenIn(res))
  BY QuietAdmitted, OpenFinite, Smaller
<1>2. CASE decided' = decided /\ UndecidedIn(msg') \subseteq UndecidedIn(msg)
  <2>1. /\ Cardinality(UndecidedIn(msg')) \in Nat /\ Cardinality(UndecidedIn(msg)) \in Nat
        /\ Cardinality(UndecidedIn(msg')) <= Cardinality(UndecidedIn(msg))
    BY <1>2, UndecidedFinite, Smaller
  <2> QED
    BY <1>1, <1>2, <2>1 DEF Inv, CoreOK, Outstanding
<1>3. ASSUME NEW s \in UndecidedIn(msg), decided' = decided + 1,
             UndecidedIn(msg') \subseteq UndecidedIn(msg) \ {s}
      PROVE  /\ Outstanding \in Nat /\ Outstanding' \in Nat
             /\ Outstanding' <= Outstanding
             /\ Outstanding' + decided' <= Outstanding + decided
  <2>1. /\ Cardinality(UndecidedIn(msg')) \in Nat /\ Cardinality(UndecidedIn(msg)) \in Nat
        /\ Cardinality(UndecidedIn(msg')) + 1 <= Cardinality(UndecidedIn(msg))
    BY <1>3, UndecidedFinite, SmallerByOne
  <2> QED
    BY <1>1, <1>3, <2>1 DEF Inv, CoreOK, Outstanding
<1> QED
  BY <1>1, <1>2, <1>3 DEF Quiet

\* A quiet step keeps the invariant and the log.
LEMMA QuietKeeps ==
    ASSUME Inv, CoreOK', Quiet, Forward
    PROVE  Inv' /\ Outstanding' <= Outstanding
<1> USE QuietAdmitted
<1>1. AdmittedIsCommitted'
  BY DEF Inv, AdmittedIsCommitted, Quiet, Admitted
<1>2. AdmittedOnce'
  <2>1. \A s \in Admitted : res'[s].id = res[s].id
    BY DEF Inv, AdmittedIsCommitted, Quiet, Admitted
  <2> QED
    BY <2>1 DEF Inv, AdmittedOnce
<1>3. CountBudget'
  <2>1. CountBudget /\ produced \in Nat /\ decided \in Nat /\ decided' \in Nat /\ MaxCount \in Nat /\ produced' = produced
    BY RunAssumption DEF Inv, CoreOK, Quiet
  <2> QED
    BY <2>1, QuietSizes DEF CountBudget
<1>4. BarrierClosesSlots'
  BY DEF Inv, BarrierClosesSlots, Forward, Running
<1>5. OneSlotPerPosition'
  <2>1. \A s \in OpenIn(res') : s \in OpenIn(res) /\ res'[s].cursor = res[s].cursor
    BY DEF Quiet, OpenIn
  <2> QED
    BY <2>1 DEF Inv, OneSlotPerPosition
<1>6. Delivered_Below'
  <2>1. \A s \in Admitted : res'[s].cursor = res[s].cursor
    BY DEF Quiet, Admitted
  <2> QED
    BY <2>1 DEF Inv, Delivered_Below, Quiet
<1>7. Skipped_Passed' /\ Filled'
  BY DEF Inv, Skipped_Passed, Filled, Quiet
<1> QED
  BY <1>1, <1>2, <1>3, <1>4, <1>5, <1>6, <1>7, QuietSizes DEF Inv

-----------------------------------------------------------------------------
\* Rows written one at a time.

LEMMA RowWritten ==
    ASSUME CoreOK, NEW s \in Slots, NEW x \in Row, res' = [res EXCEPT ![s] = x]
    PROVE  /\ res' \in [Slots -> Row]
           /\ res'[s] = x
           /\ \A t \in Slots : t # s => res'[t] = res[t]
BY DEF CoreOK

\* The rows a barrier leaves, when it finds rows of the run's reservations.
LEMMA ClosedRows ==
    ASSUME NEW rows \in [Slots -> Row]
    PROVE  /\ Closed(rows) \in [Slots -> Row]
           /\ OpenIn(Closed(rows)) = {}
           /\ \A s \in Slots :
                /\ Closed(rows)[s].cursor = rows[s].cursor
                /\ Closed(rows)[s].id = rows[s].id
                /\ Closed(rows)[s].state =
                     IF s \in OpenIn(rows) THEN "released" ELSE rows[s].state
<1>1. \A s \in Slots : rows[s] \in Row
  OBVIOUS
<1>2. \A s \in Slots : [rows[s] EXCEPT !.state = "released"] \in Row
  BY <1>1 DEF Row
<1>3. Closed(rows) \in [Slots -> Row]
  BY <1>1, <1>2 DEF Closed
<1>4. \A s \in Slots :
                /\ Closed(rows)[s].cursor = rows[s].cursor
                /\ Closed(rows)[s].id = rows[s].id
                /\ Closed(rows)[s].state =
                     IF s \in OpenIn(rows) THEN "released" ELSE rows[s].state
  BY <1>1 DEF Closed, Row
<1>5. OpenIn(Closed(rows)) = {}
  BY <1>4 DEF OpenIn
<1> QED
  BY <1>3, <1>4, <1>5

LEMMA FencedMessages ==
    ASSUME NEW m \in [Slots -> {"none", "undecided", "settled"}]
    PROVE  /\ Fenced(m) \in [Slots -> {"none", "undecided", "settled"}]
           /\ UndecidedIn(Fenced(m)) = {}
           /\ \A s \in Slots : Fenced(m)[s] = "none" <=> m[s] = "none"
BY DEF Fenced, UndecidedIn

\* What a barrier does, over rows and messages as its transaction left them.
LEMMA BarrierEffect ==
    ASSUME CoreOK, NEW c \in Causes, Strengthens(c),
           NEW rows \in [Slots -> Row],
           NEW m \in [Slots -> {"none", "undecided", "settled"}],
           Barrier(c, rows, m)
    PROVE  /\ runState' \in RunStates /\ cause' \in Causes /\ overdue' \in BOOLEAN
           /\ res' \in [Slots -> Row]
           /\ msg' \in [Slots -> {"none", "undecided", "settled"}]
           /\ Forward /\ OpenIn(res') = {}
           /\ \A s \in Slots :
                /\ res'[s].cursor = rows[s].cursor /\ res'[s].id = rows[s].id
                /\ res'[s].state = IF s \in OpenIn(rows) THEN "released" ELSE rows[s].state
                /\ msg'[s] = "none" <=> m[s] = "none"
           /\ UndecidedIn(msg') \subseteq UndecidedIn(m)
<1>1. /\ res' = Closed(rows) /\ res' \in [Slots -> Row] /\ OpenIn(res') = {}
      /\ \A s \in Slots :
           /\ res'[s].cursor = rows[s].cursor /\ res'[s].id = rows[s].id
           /\ res'[s].state = IF s \in OpenIn(rows) THEN "released" ELSE rows[s].state
  BY ClosedRows DEF Barrier
<1>2. /\ msg' \in [Slots -> {"none", "undecided", "settled"}]
      /\ \A s \in Slots : msg'[s] = "none" <=> m[s] = "none"
      /\ UndecidedIn(msg') \subseteq UndecidedIn(m)
  BY FencedMessages DEF Barrier
<1>3. /\ runState' = "draining" /\ cause' = c
      /\ overdue' = (runState = "draining" /\ overdue)
  BY DEF Barrier
<1>4. Forward
  BY <1>1, <1>3 DEF Forward, Strengthens, Terminal, Running, CoreOK, RunStates, runVars
<1> QED
  BY <1>1, <1>2, <1>3, <1>4 DEF RunStates, CoreOK

-----------------------------------------------------------------------------
\* The quiet steps.

\* A step that writes one row, of a slot that stays as closed as it was.
LEMMA RowStep ==
    ASSUME Inv, NEW s \in Slots, NEW x \in Row, res' = [res EXCEPT ![s] = x],
           x.cursor = res[s].cursor,
           x.state = "skipped" <=> res[s].state = "skipped",
           x.state \in {"reserved", "held"} => s \in OpenIn(res),
           res[s].state = "committed" => x.state = "committed" /\ x.id = res[s].id,
           UNCHANGED <<runVars, expired, cap, cursor, produced, decided, msg>>,
           lostPause' \in BOOLEAN, open' \in BOOLEAN,
           pass' \in SUBSET In("held"), s \in pass' => x.state = "held"
    PROVE  CoreOK' /\ Quiet /\ Forward
<1>1. /\ res' \in [Slots -> Row] /\ res'[s] = x
      /\ \A t \in Slots : t # s => res'[t] = res[t]
  BY RowWritten DEF Inv
<1>2. pass' \in SUBSET In("held")'
  BY <1>1 DEF In
<1>3. CoreOK'
  BY <1>1, <1>2 DEF Inv, CoreOK, runVars
<1>4. Quiet
  <2>1. \A t \in Slots :
          /\ res'[t].cursor = res[t].cursor
          /\ res'[t].state = "skipped" <=> res[t].state = "skipped"
          /\ t \in OpenIn(res') => t \in OpenIn(res)
          /\ res[t].state = "committed" =>
               res'[t].state = "committed" /\ res'[t].id = res[t].id
    BY <1>1 DEF OpenIn
  <2> QED
    BY <2>1 DEF Quiet
<1>5. Forward
  BY DEF Forward, Running, runVars
<1> QED
  BY <1>3, <1>4, <1>5

\* A step that writes no row, no message and no counter.
LEMMA StateStep ==
    ASSUME Inv, UNCHANGED <<cursor, produced, decided, res, msg>>,
           runState' \in RunStates, cause' \in Causes \cup {"none"},
           overdue' \in BOOLEAN, expired' \in BOOLEAN, lostPause' \in BOOLEAN,
           cap' \in 1..MaxCap, open' \in BOOLEAN,
           pass' \in SUBSET In("held"), Forward
    PROVE  CoreOK' /\ Quiet
<1>1. CoreOK'
  BY DEF Inv, CoreOK, In
<1>2. Quiet
  BY DEF Quiet, OpenIn
<1> QED
  BY <1>1, <1>2

LEMMA ReleaseQuiet ==
    ASSUME Inv, NEW s \in Slots, Release(s)
    PROVE  CoreOK' /\ Quiet /\ Forward
<1> DEFINE x == [res[s] EXCEPT !.state = "released"]
<1>1. res[s] \in Row /\ x \in Row /\ x.state = "released" /\ x.cursor = res[s].cursor
  BY DEF Inv, CoreOK, Row
<1>2. res' = [res EXCEPT ![s] = x]
  BY DEF Release, Released
<1>3. /\ res[s].state = "reserved"
      /\ UNCHANGED <<runVars, expired, cap, cursor, produced, decided, msg>>
      /\ lostPause' \in BOOLEAN /\ open' \in BOOLEAN
      /\ pass' \in SUBSET In("held") /\ pass' = {}
  BY DEF Release, Idle, Inv, CoreOK
<1> HIDE DEF x
<1> QED
  BY <1>1, <1>2, <1>3, RowStep

\* Exhaustion closes the answering slot, then all.
LEMMA ExhaustedQuiet ==
    ASSUME Inv, NEW s \in Slots, Exhausted(s)
    PROVE  CoreOK' /\ Quiet /\ Forward
<1> DEFINE x == [res[s] EXCEPT !.state = "released"]
<1>1. res[s] \in Row /\ x \in Row /\ x.state = "released" /\ x.cursor = res[s].cursor
  BY DEF Inv, CoreOK, Row
<1>2. Released(s) = [res EXCEPT ![s] = x]
  BY DEF Released
<1>3. /\ Released(s) \in [Slots -> Row] /\ Released(s)[s] = x
      /\ \A t \in Slots : t # s => Released(s)[t] = res[t]
  BY <1>1, <1>2 DEF Inv, CoreOK
<1>4. CASE runState # "active"
  <2>1. res' = [res EXCEPT ![s] = x] /\ UNCHANGED <<runVars, msg>>
    BY <1>2, <1>4 DEF Exhausted, BarrierIf
  <2>2. /\ res[s].state = "reserved"
        /\ UNCHANGED <<runVars, expired, cap, cursor, produced, decided, msg>>
        /\ lostPause' \in BOOLEAN /\ open' \in BOOLEAN
        /\ pass' \in SUBSET In("held") /\ pass' = {}
    BY <2>1 DEF Exhausted, Idle, Inv, CoreOK
  <2> HIDE DEF x
  <2> QED
    BY <1>1, <2>1, <2>2, RowStep
<1>5. CASE runState = "active"
  <2>1. Barrier("exhaustion", Released(s), msg) /\ Strengthens("exhaustion")
    BY <1>5 DEF Exhausted, BarrierIf, Strengthens
  <2>2. /\ runState' \in RunStates /\ cause' \in Causes /\ overdue' \in BOOLEAN
        /\ res' \in [Slots -> Row]
        /\ msg' \in [Slots -> {"none", "undecided", "settled"}]
        /\ Forward /\ OpenIn(res') = {}
        /\ \A t \in Slots :
             /\ res'[t].cursor = Released(s)[t].cursor /\ res'[t].id = Released(s)[t].id
             /\ res'[t].state = IF t \in OpenIn(Released(s)) THEN "released"
                                ELSE Released(s)[t].state
             /\ msg'[t] = "none" <=> msg[t] = "none"
        /\ UndecidedIn(msg') \subseteq UndecidedIn(msg)
    BY <1>3, <2>1, BarrierEffect DEF Inv, CoreOK, Causes
  <2>3. CoreOK'
    BY <2>2 DEF Exhausted, Idle, Inv, CoreOK
  <2>4. Quiet
    <3>1. \A t \in Slots :
            /\ res'[t].cursor = res[t].cursor
            /\ res'[t].state = "skipped" <=> res[t].state = "skipped"
            /\ t \notin OpenIn(res')
            /\ res[t].state = "committed" =>
                 res'[t].state = "committed" /\ res'[t].id = res[t].id
      <4>1. res[s].state = "reserved" /\ Released(s)[s].state = "released"
        BY <1>1, <1>3 DEF Exhausted
      <4>2. \A t \in Slots : Released(s)[t].cursor = res[t].cursor
        BY <1>1, <1>3
      <4>3. \A t \in Slots : t \notin OpenIn(res')
        BY <2>2
      <4> HIDE DEF x
      <4> QED
        BY <1>3, <2>2, <4>1, <4>2, <4>3 DEF OpenIn
    <3> QED
      BY <2>2, <3>1 DEF Quiet, Exhausted
  <2> QED
    BY <2>2, <2>3, <2>4
<1> QED
  BY <1>4, <1>5

LEMMA HeldQuiet ==
    ASSUME Inv, NEW s \in Slots, NEW id \in Ids, AnswerHeld(s, id)
    PROVE  CoreOK' /\ Quiet /\ Forward
<1> DEFINE x == [res[s] EXCEPT !.state = "held", !.id = id, !.staged = "good"]
<1>1. /\ res[s] \in Row /\ x \in Row /\ x.state = "held" /\ x.cursor = res[s].cursor
      /\ s \in OpenIn(res)
  BY DEF Inv, CoreOK, Row, AnswerHeld, OpenIn
<1>2. res' = [res EXCEPT ![s] = x]
  BY <1>1 DEF AnswerHeld, Row, Inv, CoreOK
<1> QED
  BY <1>1, <1>2, RowStep DEF AnswerHeld, Inv, CoreOK

LEMMA ReplayKnownQuiet ==
    ASSUME Inv, NEW s \in Slots, ReplayKnown(s)
    PROVE  CoreOK' /\ Quiet /\ Forward
<1> DEFINE x == [res[s] EXCEPT !.state = "committed", !.staged = "none"]
<1>1. /\ res[s] \in Row /\ x \in Row /\ x.state = "committed" /\ x.cursor = res[s].cursor
  BY DEF Inv, CoreOK, Row
<1>2. res' = [res EXCEPT ![s] = x]
  BY <1>1 DEF ReplayKnown, Row, Inv, CoreOK
<1>3. /\ res[s].state = "held"
      /\ UNCHANGED <<runVars, expired, cap, cursor, produced, decided, msg>>
      /\ lostPause' \in BOOLEAN /\ open' \in BOOLEAN
      /\ pass' \in SUBSET In("held") /\ s \notin pass'
  BY DEF ReplayKnown, NextHeld, Inv, CoreOK, In
<1> HIDE DEF x
<1> QED
  BY <1>1, <1>2, <1>3, RowStep

LEMMA ReplayLostQuiet ==
    ASSUME Inv, NEW s \in Slots, ReplayLost(s)
    PROVE  CoreOK' /\ Quiet /\ Forward
<1>1. PICK left \in {"bad", "none"} :
        res' = [res EXCEPT ![s].state = "lost", ![s].staged = left]
  BY DEF ReplayLost
<1> DEFINE x == [res[s] EXCEPT !.state = "lost", !.staged = left]
<1>2. /\ res[s] \in Row /\ x \in Row /\ x.state = "lost" /\ x.cursor = res[s].cursor
  BY DEF Inv, CoreOK, Row
<1>3. res' = [res EXCEPT ![s] = x]
  BY <1>1, <1>2 DEF Row, Inv, CoreOK
<1>4. /\ res[s].state = "held"
      /\ UNCHANGED <<runVars, expired, cap, cursor, produced, decided, msg>>
      /\ lostPause' \in BOOLEAN /\ open' \in BOOLEAN
      /\ pass' \in SUBSET In("held") /\ s \notin pass'
  BY DEF ReplayLost, NextHeld, Inv, CoreOK, In
<1> HIDE DEF x
<1> QED
  BY <1>2, <1>3, <1>4, RowStep

LEMMA SpoilQuiet ==
    ASSUME Inv, NEW s \in Slots, Spoil(s)
    PROVE  CoreOK' /\ Quiet /\ Forward
<1> DEFINE x == [res[s] EXCEPT !.staged = "bad"]
<1>1. /\ res[s] \in Row /\ x \in Row /\ x.state = res[s].state
      /\ x.cursor = res[s].cursor /\ x.id = res[s].id
  BY DEF Inv, CoreOK, Row
<1>2. res' = [res EXCEPT ![s] = x]
  BY DEF Spoil
<1>3. /\ UNCHANGED <<runVars, expired, cap, cursor, produced, decided, msg>>
      /\ lostPause' \in BOOLEAN /\ open' \in BOOLEAN
      /\ pass' \in SUBSET In("held") /\ pass' = {}
  BY DEF Spoil, Idle, Inv, CoreOK
<1>4. x.state \in {"reserved", "held"} => s \in OpenIn(res)
  BY <1>1 DEF OpenIn
<1> HIDE DEF x
<1> QED
  BY <1>1, <1>2, <1>3, <1>4, RowStep

LEMMA SweepQuiet ==
    ASSUME Inv, Sweep
    PROVE  CoreOK' /\ Quiet /\ Forward
<1>1. \A s \in Slots : res[s] \in Row /\ [res[s] EXCEPT !.staged = "none"] \in Row
  BY DEF Inv, CoreOK, Row
<1>2. res' \in [Slots -> Row]
  BY <1>1 DEF Sweep
<1>3. \A s \in Slots :
        /\ res'[s].cursor = res[s].cursor /\ res'[s].state = res[s].state
        /\ res'[s].id = res[s].id
  BY <1>1 DEF Sweep, Row
<1>4. CoreOK'
  BY <1>2 DEF Sweep, Idle, Inv, CoreOK, runVars
<1>5. Quiet
  BY <1>3 DEF Sweep, Quiet, OpenIn
<1>6. Forward
  BY DEF Sweep, Forward, Running, runVars
<1> QED
  BY <1>4, <1>5, <1>6

\* The steps that write no row.
LEMMA StateQuiet ==
    ASSUME Inv,
           \/ Lock \/ Unlock \/ Crash \/ Pause \/ Resume
           \/ \E c \in 1..MaxCap : Update(c)
           \/ Expire \/ DeadlinePasses
           \/ \E s \in Slots : ReplayStalls(s)
    PROVE  CoreOK' /\ Quiet /\ Forward
<1>1. Forward
  BY DEF Forward, Running, runVars, Terminal, Lock, Unlock, Crash, Pause, Resume,
         Update, Expire, DeadlinePasses, ReplayStalls
<1>2. /\ UNCHANGED <<cursor, produced, decided, res, msg>>
      /\ runState' \in RunStates /\ cause' \in Causes \cup {"none"}
      /\ overdue' \in BOOLEAN /\ expired' \in BOOLEAN /\ lostPause' \in BOOLEAN
      /\ cap' \in 1..MaxCap /\ open' \in BOOLEAN /\ pass' \in SUBSET In("held")
  BY DEF Inv, CoreOK, RunStates, runVars, Idle, Lock, Unlock, Crash, Pause, Resume,
         Update, Expire, DeadlinePasses, ReplayStalls
<1> QED
  BY <1>1, <1>2, StateStep

\* A barrier over the run's rows and messages as they are.
LEMMA BarrierQuiet ==
    ASSUME Inv, NEW c \in Causes, Strengthens(c), Barrier(c, res, msg), Idle,
           UNCHANGED <<expired, lostPause, cap, cursor, produced, decided, open, pass>>
    PROVE  CoreOK' /\ Quiet /\ Forward
<1>1. /\ runState' \in RunStates /\ cause' \in Causes /\ overdue' \in BOOLEAN
      /\ res' \in [Slots -> Row]
      /\ msg' \in [Slots -> {"none", "undecided", "settled"}]
      /\ Forward /\ OpenIn(res') = {}
      /\ \A s \in Slots :
           /\ res'[s].cursor = res[s].cursor /\ res'[s].id = res[s].id
           /\ res'[s].state = IF s \in OpenIn(res) THEN "released" ELSE res[s].state
           /\ msg'[s] = "none" <=> msg[s] = "none"
      /\ UndecidedIn(msg') \subseteq UndecidedIn(msg)
  BY BarrierEffect DEF Inv, CoreOK
<1>2. CoreOK'
  BY <1>1 DEF Idle, Inv, CoreOK
<1>3. Quiet
  BY <1>1 DEF Quiet, OpenIn
<1> QED
  BY <1>1, <1>2, <1>3

LEMMA StopQuiet ==
    ASSUME Inv, NEW c \in Causes, Stop(c)
    PROVE  CoreOK' /\ Quiet /\ Forward
BY BarrierQuiet DEF Stop

LEMMA ExpirySweepQuiet ==
    ASSUME Inv, ExpirySweep
    PROVE  CoreOK' /\ Quiet /\ Forward
BY BarrierQuiet DEF ExpirySweep, SweepDue, Causes, Fencing

LEMMA ForceTerminateQuiet ==
    ASSUME Inv, ForceTerminate
    PROVE  CoreOK' /\ Quiet /\ Forward
<1>1. /\ res' = Closed(res) /\ res' \in [Slots -> Row] /\ OpenIn(res') = {}
      /\ \A s \in Slots :
           /\ res'[s].cursor = res[s].cursor /\ res'[s].id = res[s].id
           /\ res'[s].state = IF s \in OpenIn(res) THEN "released" ELSE res[s].state
  BY ClosedRows DEF ForceTerminate, Inv, CoreOK
<1>2. /\ msg' \in [Slots -> {"none", "undecided", "settled"}]
      /\ \A s \in Slots : msg'[s] = "none" <=> msg[s] = "none"
      /\ UndecidedIn(msg') = {}
  BY FencedMessages DEF ForceTerminate, Inv, CoreOK
<1>3. runState' \in Terminal /\ runState = "draining"
  BY DEF ForceTerminate, TerminalOf, Terminal
<1>4. CoreOK'
  BY <1>1, <1>2, <1>3 DEF ForceTerminate, Idle, Inv, CoreOK, RunStates
<1>5. Quiet
  BY <1>1, <1>2 DEF ForceTerminate, Quiet, OpenIn
<1>6. Forward
  BY <1>1, <1>3 DEF ForceTerminate, Forward, Terminal, Running
<1> QED
  BY <1>4, <1>5, <1>6

LEMMA MessageExpiresQuiet ==
    ASSUME Inv, NEW s \in Slots, MessageExpires(s)
    PROVE  CoreOK' /\ Quiet /\ Forward
<1>1. msg' \in [Slots -> {"none", "undecided", "settled"}]
  BY DEF MessageExpires, Inv, CoreOK
<1>2. CoreOK'
  BY <1>1 DEF MessageExpires, Idle, Inv, CoreOK, runVars
<1>3. UndecidedIn(msg') \subseteq UndecidedIn(msg)
  BY DEF MessageExpires, UndecidedIn, Inv, CoreOK
<1>4. Quiet
  BY <1>3 DEF MessageExpires, Quiet, OpenIn, Inv, CoreOK
<1>5. Forward
  BY DEF MessageExpires, Forward, Running, runVars
<1> QED
  BY <1>2, <1>4, <1>5

\* A decision takes one from the undecided and counts it.
LEMMA DecideQuiet ==
    ASSUME Inv, NEW s \in Slots, Decide(s)
    PROVE  CoreOK' /\ Quiet /\ Forward
<1> DEFINE m == [msg EXCEPT ![s] = "settled"]
<1>1. /\ m \in [Slots -> {"none", "undecided", "settled"}]
      /\ \A t \in Slots : m[t] = "none" <=> msg[t] = "none"
      /\ s \in UndecidedIn(msg) /\ UndecidedIn(m) \subseteq UndecidedIn(msg) \ {s}
  BY DEF Decide, Decidable, Inv, CoreOK, UndecidedIn
<1>2. decided' = decided + 1 /\ decided' \in Nat
  BY DEF Decide, Inv, CoreOK
<1>3. CASE res' = res /\ msg' = m /\ UNCHANGED runVars
  <2>1. CoreOK'
    BY <1>1, <1>2, <1>3 DEF Decide, Idle, Inv, CoreOK, runVars
  <2>2. Quiet
    BY <1>1, <1>2, <1>3 DEF Decide, Quiet, OpenIn
  <2>3. Forward
    BY <1>3 DEF Forward, Running, runVars
  <2> QED
    BY <2>1, <2>2, <2>3
<1>4. CASE Strengthens("count") /\ Barrier("count", res, m)
  <2>1. /\ runState' \in RunStates /\ cause' \in Causes /\ overdue' \in BOOLEAN
        /\ res' \in [Slots -> Row]
        /\ msg' \in [Slots -> {"none", "undecided", "settled"}]
        /\ Forward /\ OpenIn(res') = {}
        /\ \A t \in Slots :
             /\ res'[t].cursor = res[t].cursor /\ res'[t].id = res[t].id
             /\ res'[t].state = IF t \in OpenIn(res) THEN "released" ELSE res[t].state
             /\ msg'[t] = "none" <=> m[t] = "none"
        /\ UndecidedIn(msg') \subseteq UndecidedIn(m)
    <3> HIDE DEF m
    <3> QED
      BY <1>1, <1>4, BarrierEffect DEF Inv, CoreOK, Causes
  <2>2. CoreOK'
    BY <1>2, <2>1 DEF Decide, Idle, Inv, CoreOK
  <2>3. UndecidedIn(msg') \subseteq UndecidedIn(msg) \ {s}
    BY <1>1, <2>1
  <2> HIDE DEF m
  <2>4. Quiet
    BY <1>1, <1>2, <2>1, <2>3 DEF Decide, Quiet, OpenIn
  <2> QED
    BY <2>1, <2>2, <2>4
<1> QED
  BY <1>3, <1>4 DEF Decide, BarrierIf

-----------------------------------------------------------------------------
\* All quiet steps.

QuietSlotStep(s) ==
    \/ Release(s) \/ Exhausted(s) \/ Spoil(s) \/ Decide(s) \/ MessageExpires(s)
    \/ ReplayKnown(s) \/ ReplayLost(s) \/ ReplayStalls(s)
    \/ \E id \in Ids : AnswerHeld(s, id)

\* A step of the run, or one of a slot that admits and passes over nothing.
LEMMA QuietSteps ==
    ASSUME Inv, RunStep \/ \E s \in Slots : QuietSlotStep(s)
    PROVE  CoreOK' /\ Quiet /\ Forward
<1>1. CASE RunStep
  <2>1. {"finish_pending", "cancel_pending"} \subseteq Causes
    BY DEF Causes, Fencing
  <2> QED
    BY <1>1, <2>1, StateQuiet, SweepQuiet, StopQuiet, ExpirySweepQuiet, ForceTerminateQuiet
       DEF RunStep
<1>2. ASSUME NEW s \in Slots, QuietSlotStep(s)
      PROVE  CoreOK' /\ Quiet /\ Forward
  BY <1>2, ReleaseQuiet, ExhaustedQuiet, SpoilQuiet, DecideQuiet, MessageExpiresQuiet,
     ReplayKnownQuiet, ReplayLostQuiet, StateQuiet, HeldQuiet DEF QuietSlotStep
<1> QED
  BY <1>1, <1>2

-----------------------------------------------------------------------------
\* The step that opens a slot.

LEMMA ReserveKeeps ==
    ASSUME Inv, NEW s \in Slots, Reserve(s)
    PROVE  /\ Inv' /\ Forward /\ Outstanding' <= cap
           /\ Delivered' = Delivered /\ SkippedIn(res') = SkippedIn(res)
<1>1. PICK c \in Positions :
        /\ LowestFree(c)
        /\ res' = [res EXCEPT ![s].state = "reserved", ![s].cursor = c]
  BY DEF Reserve
<1> DEFINE x == [res[s] EXCEPT !.state = "reserved", !.cursor = c]
<1>2. res[s] \in Row /\ x \in Row /\ x.state = "reserved" /\ x.cursor = c
  BY DEF Inv, CoreOK, Row
<1>3. res' = [res EXCEPT ![s] = x]
  BY <1>1, <1>2 DEF Row, Inv, CoreOK
<1> HIDE DEF x
<1>4. /\ res' \in [Slots -> Row] /\ res'[s] = x
      /\ \A t \in Slots : t # s => res'[t] = res[t]
  BY <1>2, <1>3, RowWritten DEF Inv
<1>5. res[s].state = "none" /\ UNCHANGED <<cap, cursor, produced, decided, msg, runState, cause, overdue, expired, lostPause, open>>
  BY DEF Reserve, NoRow, runVars
<1>6. pass' = {} /\ CoreOK'
  BY <1>4, <1>5 DEF Reserve, Idle, Inv, CoreOK
<1>7. Admitted' = Admitted /\ s \notin Admitted
  BY <1>5 DEF Admitted, Inv, AdmittedIsCommitted
<1>8. OpenIn(res') = OpenIn(res) \cup {s}
  BY <1>2, <1>4 DEF OpenIn
<1>9. SkippedIn(res') = SkippedIn(res)
  BY <1>2, <1>4, <1>5 DEF SkippedIn
<1>10. \A t \in Admitted : t \in Slots /\ res'[t] = res[t]
  BY <1>4, <1>7 DEF Admitted
<1>11. Delivered' = Delivered
  BY <1>7, <1>10 DEF Delivered, CursorsOf
<1>12. AdmittedIsCommitted' /\ AdmittedOnce' /\ Delivered_Below'
  BY <1>5, <1>7, <1>10 DEF Inv, AdmittedIsCommitted, AdmittedOnce, Delivered_Below
<1>13. /\ Cardinality(OpenIn(res)) \in Nat /\ Cardinality(OpenIn(res')) \in Nat
       /\ Cardinality(OpenIn(res')) <= Cardinality(OpenIn(res)) + 1
       /\ Cardinality(UndecidedIn(msg)) \in Nat
  BY <1>8, OpenFinite, UndecidedFinite, LargerByOne
<1>14. Outstanding' <= cap /\ Outstanding' <= Outstanding + 1 /\ Outstanding \in Nat /\ Outstanding' \in Nat
  BY <1>5, <1>13 DEF Reserve, WithinQueue, Outstanding, Inv, CoreOK
<1>15. CountBudget'
  <2>1. /\ WithinCount /\ produced \in Nat /\ decided \in Nat /\ MaxCount \in Nat
        /\ produced' = produced /\ decided' = decided
    BY <1>5, RunAssumption DEF Reserve, Inv, CoreOK
  <2>2. CASE Basis = "produced"
    <3>1. produced + Cardinality(OpenIn(res)) < MaxCount
      BY <2>1, <2>2 DEF WithinCount
    <3> QED
      BY <2>1, <2>2, <3>1, <1>13 DEF CountBudget
  <2>3. CASE Basis = "decided"
    <3>1. Outstanding + decided < MaxCount
      BY <2>1, <2>3 DEF WithinCount
    <3> QED
      <4>1. \A a, b, d, n \in Nat : a <= b + 1 /\ b + d < n => a + d <= n
        OBVIOUS
      <4>2. Outstanding' + decided <= MaxCount
        BY <4>1, <3>1, <1>14, <2>1
      <4> QED
        BY <2>1, <2>3, <4>2 DEF CountBudget
  <2> QED
    BY <2>2, <2>3 DEF CountBudget
<1>16. BarrierClosesSlots' /\ Forward
  BY <1>5 DEF Reserve, BarrierClosesSlots, Forward, Running, runVars, Terminal
<1>17. OneSlotPerPosition'
  <2>1. \A t \in OpenIn(res) : t # s /\ res'[t] = res[t] /\ res[t].cursor # c
    BY <1>1, <1>4, <1>5 DEF OpenIn, LowestFree, CursorsOf
  <2> QED
    BY <1>2, <1>4, <1>8, <2>1 DEF Inv, OneSlotPerPosition
<1>18. Skipped_Passed' /\ Filled'
  BY <1>5, <1>9, <1>11 DEF Inv, Skipped_Passed, Filled
<1> QED
  BY <1>6, <1>9, <1>11, <1>12, <1>14, <1>15, <1>16, <1>17, <1>18 DEF Inv

-----------------------------------------------------------------------------
\* The owner gives up a position.

LEMMA SkipLostKeeps ==
    ASSUME Inv, NEW s \in Slots, SkipLost(s)
    PROVE  /\ Inv' /\ Forward /\ Outstanding' <= Outstanding
           /\ Delivered' = Delivered
           /\ SkippedIn(res') = SkippedIn(res) \cup {res[s].cursor}
           /\ res[s].cursor \in Positions /\ runState' = runState
<1> DEFINE x == [res[s] EXCEPT !.state = "skipped"]
<1>1. res[s] \in Row /\ x \in Row /\ x.state = "skipped" /\ x.cursor = res[s].cursor
  BY DEF Inv, CoreOK, Row
<1>2. res' = [res EXCEPT ![s] = x] /\ res[s].state = "lost"
  BY DEF SkipLost
<1> HIDE DEF x
<1>3. /\ res' \in [Slots -> Row] /\ res'[s] = x
      /\ \A t \in Slots : t # s => res'[t] = res[t]
  BY <1>1, <1>2, RowWritten DEF Inv
<1>4. UNCHANGED <<cap, produced, decided, msg, runState, cause, overdue, expired, open, pass>>
  BY DEF SkipLost, runVars
<1>5. /\ cursor \in Nat /\ cursor' \in Positions /\ cursor' >= cursor
      /\ cursor' \notin SkippedIn(res')
      /\ \A p \in Positions : cursor <= p /\ p < cursor' => p \in SkippedIn(res')
  <2>1. cursor \in Positions /\ cursor \in Nat /\ Positions \subseteq Nat
    BY DEF Inv, CoreOK, Positions
  <2>2. SkippedIn(res') = SkippedIn(res) \cup {res[s].cursor}
    BY <1>1, <1>3 DEF SkippedIn
  <2>3. CASE res[s].cursor # cursor /\ UNCHANGED cursor
    BY <2>1, <2>2, <2>3 DEF Inv, Skipped_Passed
  <2>4. CASE /\ res[s].cursor = cursor
             /\ \E d \in Positions : Past(res', cursor + 1, d) /\ cursor' = d
    <3>1. /\ cursor' \in Positions /\ cursor' >= cursor + 1
          /\ cursor' \notin SkippedIn(res')
          /\ \A e \in Positions : cursor + 1 <= e /\ e < cursor' => e \in SkippedIn(res')
      BY <2>4 DEF Past
    <3> QED
      BY <2>1, <2>2, <2>4, <3>1
  <2> QED
    BY <2>3, <2>4, <1>2 DEF SkipLost
<1>6. SkippedIn(res') = SkippedIn(res) \cup {res[s].cursor}
  BY <1>1, <1>3 DEF SkippedIn
<1>7. Admitted' = Admitted /\ s \notin Admitted
  BY <1>2, <1>4 DEF Admitted, Inv, AdmittedIsCommitted
<1>8. OpenIn(res') = OpenIn(res) /\ s \notin OpenIn(res)
  BY <1>1, <1>2, <1>3 DEF OpenIn
<1>9. \A t \in Admitted : t \in Slots /\ res'[t] = res[t]
  BY <1>3, <1>7 DEF Admitted
<1>10. Delivered' = Delivered
  BY <1>7, <1>9 DEF Delivered, CursorsOf
<1>11. CoreOK'
  <2>1. In("held")' = In("held")
    BY <1>1, <1>2, <1>3 DEF In
  <2>2. lostPause' \in BOOLEAN
    BY DEF SkipLost, Inv, CoreOK
  <2> QED
    BY <1>3, <1>4, <1>5, <2>1, <2>2 DEF Inv, CoreOK
<1>12. AdmittedIsCommitted' /\ AdmittedOnce'
  BY <1>7, <1>9 DEF Inv, AdmittedIsCommitted, AdmittedOnce
<1>13. Delivered_Below'
  <2>1. \A t \in Admitted : res[t].cursor \in Nat
    BY DEF Admitted, Inv, CoreOK, Row, Positions
  <2>2. cursor \in Nat /\ cursor' \in Nat /\ cursor' >= cursor
    BY <1>5 DEF Positions
  <2> QED
    BY <1>7, <1>9, <2>1, <2>2 DEF Inv, Delivered_Below
<1>14. Outstanding' = Outstanding /\ Outstanding \in Nat
  BY <1>4, <1>8, OpenFinite, UndecidedFinite DEF Outstanding
<1>15. CountBudget' /\ BarrierClosesSlots'
  BY <1>4, <1>8, <1>14 DEF Inv, CountBudget, BarrierClosesSlots
<1>16. OneSlotPerPosition'
  <2>1. \A t \in OpenIn(res) : res'[t] = res[t]
    BY <1>3, <1>8 DEF OpenIn
  <2> QED
    BY <1>8, <2>1 DEF Inv, OneSlotPerPosition
<1>17. Skipped_Passed' /\ Filled'
  <2>1. Skipped_Passed'
    BY <1>5 DEF Skipped_Passed
  <2>2. ASSUME NEW p \in Positions, p < cursor'
        PROVE  p \in Delivered \cup SkippedIn(res')
    BY <1>5, <1>6, <2>2 DEF Inv, Filled, Positions
  <2> QED
    BY <1>10, <2>1, <2>2 DEF Filled, Positions
<1>18. Forward
  BY <1>4, <1>8 DEF Forward, Running, runVars
<1>19. res[s].cursor \in Positions
  BY <1>1 DEF Row
<1> QED
  BY <1>4, <1>6, <1>10, <1>11, <1>12, <1>13, <1>14, <1>15, <1>16, <1>17, <1>18, <1>19 DEF Inv

-----------------------------------------------------------------------------
\* The commit.

\* What a commit settles, whether or not it brings the count's barrier.
Settles(s, id) ==
    /\ s \in OpenIn(res) /\ res[s].cursor = cursor /\ runState = "active"
    /\ \A t \in Slots : res'[t].cursor = res[t].cursor
    /\ res'[s].state = "committed" /\ res'[s].id = id /\ msg'[s] # "none"
    /\ \A t \in Slots \ {s} :
        /\ res[t].state = "committed" =>
             res'[t].state = "committed" /\ res'[t].id = res[t].id
        /\ res'[t].state = "skipped" => res[t].state = "skipped" \/ res[t].cursor = cursor
        /\ res[t].state = "skipped" => res'[t].state = "skipped"
        /\ msg'[t] = "none" <=> msg[t] = "none"
    /\ OpenIn(res') \subseteq OpenIn(res) \ {s}
    /\ UndecidedIn(msg') \subseteq UndecidedIn(msg) \cup {s}
    /\ cursor' \in Positions /\ cursor' >= cursor + 1 /\ cursor' \notin SkippedIn(res')
    /\ \A e \in Positions : cursor + 1 <= e /\ e < cursor' => e \in SkippedIn(res')
    /\ produced' = produced + 1 /\ decided' = decided

\* At the count, the slot committed is the last one open.
LEMMA LastSlot ==
    ASSUME Inv, NEW s \in OpenIn(res), Basis = "produced", produced + 1 >= MaxCount
    PROVE  OpenIn(res) = {s}
<1>1. /\ IsFiniteSet(OpenIn(res) \ {s})
      /\ Cardinality(OpenIn(res) \ {s}) \in Nat /\ Cardinality(OpenIn(res)) \in Nat
      /\ Cardinality(OpenIn(res) \ {s}) + 1 <= Cardinality(OpenIn(res))
  BY OpenFinite, SmallerByOne, FS_Subset
<1>2. produced + Cardinality(OpenIn(res)) <= MaxCount /\ produced \in Nat /\ MaxCount \in Nat
  BY RunAssumption DEF Inv, CoreOK, CountBudget
<1>3. Cardinality(OpenIn(res) \ {s}) = 0
  BY <1>1, <1>2
<1>4. OpenIn(res) \ {s} = {}
  BY <1>1, <1>3, FS_EmptySet
<1> QED
  BY <1>4

LEMMA CommitSettles ==
    ASSUME Inv, NEW s \in OpenIn(res), NEW row \in Row,
           row.state = "committed", row.cursor = res[s].cursor, Commit(s, row)
    PROVE  /\ Settles(s, row.id) /\ Forward
           /\ res' \in [Slots -> Row]
           /\ msg' \in [Slots -> {"none", "undecided", "settled"}]
           /\ runState' \in RunStates /\ cause' \in Causes \cup {"none"}
           /\ overdue' \in BOOLEAN /\ lostPause' \in BOOLEAN
           /\ UNCHANGED <<expired, cap, decided>>
           /\ \A t \in In("held") \ {s} : res'[t].state = "held"
<1> DEFINE rows == Committing(s, row)
           m == [msg EXCEPT ![s] = "undecided"]
<1>1. /\ s \in Slots /\ res[s].cursor = cursor /\ runState = "active"
      /\ \A t \in Slots : res[t] \in Row
  BY DEF OpenIn, Commit, CanCommit, Inv, CoreOK
<1>2. /\ rows \in [Slots -> Row] /\ rows[s] = row
      /\ \A t \in Slots \ {s} :
           /\ rows[t].cursor = res[t].cursor /\ rows[t].id = res[t].id
           /\ rows[t].state = IF res[t].state = "lost" /\ res[t].cursor = cursor
                              THEN "skipped" ELSE res[t].state
  <2>1. \A t \in Slots : [res[t] EXCEPT !.state = "skipped"] \in Row
    BY <1>1 DEF Row
  <2>2. rows \in [Slots -> Row] /\ rows[s] = row
    BY <1>1, <2>1 DEF Committing
  <2>3. \A t \in Slots \ {s} :
          rows[t] = IF res[t].state = "lost" /\ res[t].cursor = cursor
                    THEN [res[t] EXCEPT !.state = "skipped"] ELSE res[t]
    BY <1>1 DEF Committing
  <2> QED
    BY <1>1, <2>2, <2>3 DEF Row
<1>3. /\ m \in [Slots -> {"none", "undecided", "settled"}]
      /\ m[s] # "none"
      /\ \A t \in Slots \ {s} : m[t] = msg[t]
      /\ UndecidedIn(m) \subseteq UndecidedIn(msg) \cup {s}
  BY <1>1 DEF Inv, CoreOK, UndecidedIn
<1>4. OpenIn(rows) = OpenIn(res) \ {s}
  BY <1>1, <1>2 DEF OpenIn
<1>5. /\ cursor' \in Positions /\ cursor' >= cursor + 1 /\ cursor' \notin SkippedIn(rows)
      /\ \A e \in Positions : cursor + 1 <= e /\ e < cursor' => e \in SkippedIn(rows)
      /\ produced' = produced + 1 /\ lostPause' \in BOOLEAN
      /\ UNCHANGED <<expired, cap, decided>>
  BY DEF Commit, Past, Inv, CoreOK
<1>6. /\ \/ /\ Basis = "produced" /\ produced' >= MaxCount
            /\ Barrier("count", rows, m)
         \/ res' = rows /\ msg' = m /\ UNCHANGED runVars
  BY DEF Commit, BarrierIf
<1> HIDE DEF rows, m
<1>7. /\ res' \in [Slots -> Row]
      /\ msg' \in [Slots -> {"none", "undecided", "settled"}]
      /\ runState' \in RunStates /\ cause' \in Causes \cup {"none"} /\ overdue' \in BOOLEAN
      /\ Forward
      /\ \A t \in Slots :
           /\ res'[t].cursor = rows[t].cursor /\ res'[t].id = rows[t].id
           /\ \/ res'[t].state = rows[t].state
              \/ t \in OpenIn(rows) /\ res'[t].state = "released"
           /\ msg'[t] = "none" <=> m[t] = "none"
      /\ UndecidedIn(msg') \subseteq UndecidedIn(m)
      /\ \A t \in In("held") \ {s} : res'[t].state = "held"
  <2>1. CASE /\ Basis = "produced" /\ produced' >= MaxCount
             /\ Barrier("count", rows, m)
    <3>1. Strengthens("count") /\ "count" \in Causes
      BY <1>1 DEF Strengthens, Causes
    <3>2. OpenIn(res) = {s}
      BY <1>5, <2>1, LastSlot
    <3>3. In("held") \ {s} = {}
      BY <3>2 DEF In, OpenIn
    <3>4. /\ runState' \in RunStates /\ cause' \in Causes /\ overdue' \in BOOLEAN
          /\ res' \in [Slots -> Row]
          /\ msg' \in [Slots -> {"none", "undecided", "settled"}]
          /\ Forward
          /\ \A t \in Slots :
               /\ res'[t].cursor = rows[t].cursor /\ res'[t].id = rows[t].id
               /\ res'[t].state = IF t \in OpenIn(rows) THEN "released" ELSE rows[t].state
               /\ msg'[t] = "none" <=> m[t] = "none"
          /\ UndecidedIn(msg') \subseteq UndecidedIn(m)
      BY <1>2, <1>3, <2>1, <3>1, BarrierEffect DEF Inv
    <3> QED
      BY <3>3, <3>4
  <2>2. CASE res' = rows /\ msg' = m /\ UNCHANGED runVars
    <3>1. Forward
      BY <1>1, <2>2 DEF Forward, Running, runVars, Terminal
    <3>2. \A t \in In("held") \ {s} : res'[t].state = "held"
      BY <1>2, <2>2 DEF In
    <3>3. runState' \in RunStates /\ cause' \in Causes \cup {"none"} /\ overdue' \in BOOLEAN
      BY <2>2 DEF Inv, CoreOK, runVars
    <3> QED
      BY <1>2, <1>3, <2>2, <3>1, <3>2, <3>3
  <2> QED
    BY <1>6, <2>1, <2>2
<1>8. SkippedIn(res') = SkippedIn(rows)
  BY <1>7 DEF SkippedIn, OpenIn
<1>9. /\ \A t \in Slots : res'[t].cursor = res[t].cursor
      /\ res'[s].state = "committed" /\ res'[s].id = row.id /\ msg'[s] # "none"
  BY <1>1, <1>2, <1>3, <1>4, <1>7
<1>10. \A t \in Slots \ {s} :
        /\ res[t].state = "committed" =>
             res'[t].state = "committed" /\ res'[t].id = res[t].id
        /\ res'[t].state = "skipped" => res[t].state = "skipped" \/ res[t].cursor = cursor
        /\ res[t].state = "skipped" => res'[t].state = "skipped"
        /\ msg'[t] = "none" <=> msg[t] = "none"
  BY <1>2, <1>3, <1>7 DEF OpenIn
<1>11. OpenIn(res') \subseteq OpenIn(res) \ {s}
  BY <1>4, <1>7 DEF OpenIn
<1>12. UndecidedIn(msg') \subseteq UndecidedIn(msg) \cup {s}
  BY <1>3, <1>7
<1>13. Settles(s, row.id)
  BY <1>1, <1>5, <1>8, <1>9, <1>10, <1>11, <1>12 DEF Settles
<1> QED
  BY <1>5, <1>7, <1>13

\* What settles a position keeps the invariant.
LEMMA SettlesKeeps ==
    ASSUME Inv, CoreOK', NEW s, NEW id, Settles(s, id), id \notin KnownIds, Forward
    PROVE  /\ Inv' /\ Outstanding' <= Outstanding
           /\ Delivered' = Delivered \cup {cursor}
           /\ SkippedIn(res) \subseteq SkippedIn(res')
           /\ SkippedIn(res') \subseteq SkippedIn(res) \cup {cursor}
           /\ cursor \in Positions /\ cursor \notin Delivered
<1>1. /\ s \in Slots /\ s \notin Admitted /\ s \in OpenIn(res)
      /\ cursor \in Nat /\ cursor' \in Nat /\ Positions \subseteq Nat
      /\ produced \in Nat /\ decided \in Nat /\ MaxCount \in Nat
  BY RunAssumption
     DEF Settles, OpenIn, Inv, AdmittedIsCommitted, CoreOK, Positions
<1>2. Admitted' = Admitted \cup {s}
  BY <1>1 DEF Settles, Admitted
<1>3. \A t \in Admitted :
        /\ t \in Slots \ {s} /\ res[t].state = "committed" /\ res[t].cursor \in Nat
        /\ res'[t].state = "committed" /\ res'[t].id = res[t].id
        /\ res'[t].cursor = res[t].cursor /\ res[t].id # id
  <2>1. \A t \in Admitted : t \in Slots \ {s} /\ res[t].state = "committed"
    BY <1>1 DEF Admitted, Inv, AdmittedIsCommitted
  <2>2. \A t \in Admitted : res[t].cursor \in Nat
    BY <1>1, <2>1 DEF Inv, CoreOK, Row
  <2>3. \A t \in Admitted : res[t].id # id
    BY DEF KnownIds
  <2> QED
    BY <2>1, <2>2, <2>3 DEF Settles
<1>4. AdmittedIsCommitted' /\ AdmittedOnce'
  <2>1. AdmittedIsCommitted'
    BY <1>2, <1>3 DEF AdmittedIsCommitted, Settles
  <2>2. AdmittedOnce'
    BY <1>2, <1>3 DEF Inv, AdmittedOnce, Settles
  <2> QED
    BY <2>1, <2>2
<1>5. Delivered' = Delivered \cup {cursor}
  <2>1. res'[s].cursor = cursor
    BY <1>1 DEF Settles
  <2> QED
    BY <1>2, <1>3, <2>1 DEF Delivered, CursorsOf
<1>6. cursor \in Positions /\ cursor \notin Delivered
  <2>1. \A t \in Admitted : res[t].cursor < cursor /\ res[t].cursor \in Nat
    BY <1>3 DEF Inv, Delivered_Below
  <2>2. \A t \in Admitted : res[t].cursor # cursor
    BY <1>1, <2>1
  <2> QED
    BY <2>2 DEF Delivered, CursorsOf, Inv, CoreOK
<1>7. Delivered_Below'
  <2>1. cursor' >= cursor + 1 /\ res'[s].cursor = cursor
    BY <1>1 DEF Settles
  <2>2. \A t \in Admitted : res[t].cursor < cursor
    BY DEF Inv, Delivered_Below
  <2> QED
    BY <1>1, <1>2, <1>3, <2>1, <2>2 DEF Delivered_Below
<1>8. /\ SkippedIn(res) \subseteq SkippedIn(res')
      /\ SkippedIn(res') \subseteq SkippedIn(res) \cup {cursor}
  BY <1>1 DEF Settles, SkippedIn, OpenIn
<1>9. Skipped_Passed' /\ Filled'
  <2>1. Skipped_Passed'
    BY DEF Settles, Skipped_Passed
  <2>2. ASSUME NEW p \in Positions, p < cursor'
        PROVE  p \in Delivered' \cup SkippedIn(res')
    <3>1. CASE p < cursor
      BY <1>5, <1>8, <3>1 DEF Inv, Filled
    <3>2. CASE p = cursor
      BY <1>5, <3>2
    <3>3. CASE cursor + 1 <= p
      BY <2>2, <3>3 DEF Settles
    <3> QED
      BY <1>1, <3>1, <3>2, <3>3
  <2> QED
    BY <2>1, <2>2 DEF Filled, Positions
<1>10. /\ Cardinality(OpenIn(res)) \in Nat /\ Cardinality(OpenIn(res')) \in Nat
       /\ Cardinality(OpenIn(res')) + 1 <= Cardinality(OpenIn(res))
  BY <1>1, OpenFinite, SmallerByOne DEF Settles
<1>11. /\ Cardinality(UndecidedIn(msg)) \in Nat /\ Cardinality(UndecidedIn(msg')) \in Nat
       /\ Cardinality(UndecidedIn(msg')) <= Cardinality(UndecidedIn(msg)) + 1
  BY UndecidedFinite, LargerByOne DEF Settles
<1>12. Outstanding' <= Outstanding /\ Outstanding \in Nat /\ Outstanding' \in Nat
  BY <1>10, <1>11 DEF Outstanding
<1>13. CountBudget'
  <2>1. /\ produced' = produced + 1 /\ decided' = decided
        /\ Basis = "produced" => produced + Cardinality(OpenIn(res)) <= MaxCount
        /\ Basis = "decided" => Outstanding + decided <= MaxCount
    BY DEF Settles, Inv, CountBudget
  <2>2. Basis = "produced" => produced' + Cardinality(OpenIn(res')) <= MaxCount
    BY <1>1, <1>10, <2>1
  <2>3. \A a, b, d, n \in Nat : a <= b /\ b + d <= n => a + d <= n
    OBVIOUS
  <2>4. Basis = "decided" => Outstanding' + decided' <= MaxCount
    BY <1>1, <1>12, <2>1, <2>3
  <2> QED
    BY <2>2, <2>4 DEF CountBudget
<1>14. BarrierClosesSlots'
  BY DEF BarrierClosesSlots, Forward, Running, Settles
<1>15. OneSlotPerPosition'
  <2>1. \A t \in OpenIn(res') : t \in OpenIn(res) /\ res'[t].cursor = res[t].cursor
    BY DEF Settles, OpenIn
  <2> QED
    BY <2>1 DEF Inv, OneSlotPerPosition
<1> QED
  BY <1>4, <1>5, <1>6, <1>7, <1>8, <1>9, <1>12, <1>13, <1>14, <1>15 DEF Inv

\* A commit, from either of the handlers that admit.
AdmitsAt(s) == (\E id \in Ids : AnswerAdmitted(s, id)) \/ ReplayAdmitted(s)

LEMMA AnswerSettles ==
    ASSUME Inv, NEW s \in Slots, NEW id \in Ids, AnswerAdmitted(s, id)
    PROVE  CoreOK' /\ Settles(s, id) /\ Forward /\ id \notin KnownIds
<1> DEFINE row == Committed(s, id)
<1>1. /\ res[s] \in Row /\ row \in Row /\ row.state = "committed"
      /\ row.cursor = res[s].cursor /\ row.id = id
  BY DEF Committed, Inv, CoreOK, Row
<1>2. s \in OpenIn(res)
  BY DEF AnswerAdmitted, OpenIn
<1>3. Commit(s, row)
  BY DEF AnswerAdmitted
<1> HIDE DEF row
<1>4. /\ Settles(s, id) /\ Forward
      /\ res' \in [Slots -> Row]
      /\ msg' \in [Slots -> {"none", "undecided", "settled"}]
      /\ runState' \in RunStates /\ cause' \in Causes \cup {"none"}
      /\ overdue' \in BOOLEAN /\ lostPause' \in BOOLEAN
      /\ UNCHANGED <<expired, cap, decided>>
  BY <1>1, <1>2, <1>3, CommitSettles
<1>5. CoreOK'
  <2>1. cursor' \in Positions /\ produced' \in Nat /\ decided' \in Nat
    BY <1>4 DEF Settles, Inv, CoreOK
  <2> QED
    BY <1>4, <2>1 DEF AnswerAdmitted, Idle, Inv, CoreOK
<1> QED
  BY <1>4, <1>5 DEF AnswerAdmitted, Known

LEMMA ReplaySettles ==
    ASSUME Inv, NEW s \in Slots, ReplayAdmitted(s)
    PROVE  CoreOK' /\ Settles(s, res[s].id) /\ Forward /\ res[s].id \notin KnownIds
<1>1. PICK left \in {"good", "none"} :
        Commit(s, [res[s] EXCEPT !.state = "committed", !.staged = left])
  <2>1. /\ res[s] \in Row /\ res[s].staged = "good"
    BY DEF ReplayAdmitted, Inv, CoreOK
  <2>2. [res[s] EXCEPT !.state = "committed"]
          = [res[s] EXCEPT !.state = "committed", !.staged = "good"]
    BY <2>1 DEF Row
  <2> QED
    BY <2>2 DEF ReplayAdmitted
<1> DEFINE row == [res[s] EXCEPT !.state = "committed", !.staged = left]
<1>2. /\ res[s] \in Row /\ row \in Row /\ row.state = "committed"
      /\ row.cursor = res[s].cursor /\ row.id = res[s].id
  BY DEF Inv, CoreOK, Row
<1>3. s \in OpenIn(res)
  BY DEF ReplayAdmitted, NextHeld, Inv, CoreOK, In, OpenIn
<1>4. Commit(s, row)
  BY <1>1
<1> HIDE DEF row
<1>5. /\ Settles(s, res[s].id) /\ Forward
      /\ res' \in [Slots -> Row]
      /\ msg' \in [Slots -> {"none", "undecided", "settled"}]
      /\ runState' \in RunStates /\ cause' \in Causes \cup {"none"}
      /\ overdue' \in BOOLEAN /\ lostPause' \in BOOLEAN
      /\ UNCHANGED <<expired, cap, decided>>
      /\ \A t \in In("held") \ {s} : res'[t].state = "held"
  BY <1>2, <1>3, <1>4, CommitSettles
<1>6. CoreOK'
  <2>1. cursor' \in Positions /\ produced' \in Nat /\ decided' \in Nat
    BY <1>5 DEF Settles, Inv, CoreOK
  <2>2. pass' \subseteq In("held") \ {s} /\ open' \in BOOLEAN
    BY DEF ReplayAdmitted, Inv, CoreOK
  <2>3. pass' \in SUBSET In("held")'
    BY <1>5, <2>2 DEF In
  <2> QED
    BY <1>5, <2>1, <2>2, <2>3 DEF Inv, CoreOK
<1> QED
  BY <1>5, <1>6 DEF ReplayAdmitted, Known

-----------------------------------------------------------------------------
\* The invariant, and what each step does to the log.

LEMMA StepKinds ==
    ASSUME Next
    PROVE  \/ RunStep
           \/ \E s \in Slots :
                QuietSlotStep(s) \/ Reserve(s) \/ SkipLost(s) \/ AdmitsAt(s)
BY DEF Next, Step, SlotStep, QuietSlotStep, AdmitsAt, Replay, AnswerDuplicate, AnswerRefused

\* Every step keeps the invariant, takes no barrier back, lets the queue grow
\* only within its cap, and is a step of the log.
LEMMA StepKeeps ==
    ASSUME Inv, Next
    PROVE  /\ Inv' /\ Forward
           /\ (Outstanding' <= Outstanding \/ Outstanding' <= cap)
           /\ \/ /\ Delivered' = Delivered
                 /\ SkippedIn(res') = SkippedIn(res)
              \/ \E s \in Slots : SkipLost(s)
              \/ \E s \in Slots : AdmitsAt(s)
<1>1. CASE RunStep \/ \E s \in Slots : QuietSlotStep(s)
  <2>1. CoreOK' /\ Quiet /\ Forward
    BY <1>1, QuietSteps
  <2>2. Inv' /\ Outstanding' <= Outstanding
    BY <2>1, QuietKeeps
  <2>3. Delivered' = Delivered /\ SkippedIn(res') = SkippedIn(res)
    BY <2>1, QuietAdmitted
  <2> QED
    BY <2>1, <2>2, <2>3
<1>2. ASSUME NEW s \in Slots, Reserve(s)
      PROVE  /\ Inv' /\ Forward /\ Outstanding' <= cap
             /\ Delivered' = Delivered /\ SkippedIn(res') = SkippedIn(res)
  BY <1>2, ReserveKeeps
<1>3. ASSUME NEW s \in Slots, SkipLost(s)
      PROVE  Inv' /\ Forward /\ Outstanding' <= Outstanding
  BY <1>3, SkipLostKeeps
<1>4. ASSUME NEW s \in Slots, AdmitsAt(s)
      PROVE  Inv' /\ Forward /\ Outstanding' <= Outstanding
  BY <1>4, AnswerSettles, ReplaySettles, SettlesKeeps DEF AdmitsAt
<1>5. CASE \E s \in Slots : Reserve(s)
  BY <1>2, <1>5
<1>6. CASE \E s \in Slots : SkipLost(s)
  BY <1>3, <1>6
<1>7. CASE \E s \in Slots : AdmitsAt(s)
  BY <1>4, <1>7
<1> QED
  BY <1>1, <1>5, <1>6, <1>7, StepKinds

LEMMA InitInv == Init => Inv
<1> SUFFICES ASSUME Init PROVE Inv
  OBVIOUS
<1>1. Cardinality(Slots) \in Nat /\ MaxCap \in Nat /\ MaxCount \in Nat /\ MaxCount >= 1
  BY RunAssumption, FS_CardinalityType
<1>2. 0 \in Positions /\ \A p \in Positions : p \in Nat
  BY <1>1 DEF Positions
<1>3. NoRow \in Row
  BY <1>2 DEF NoRow, Row
<1>4. /\ OpenIn(res) = {} /\ UndecidedIn(msg) = {} /\ Admitted = {}
      /\ SkippedIn(res) = {} /\ In("held") = {}
  BY DEF Init, NoRow, OpenIn, UndecidedIn, Admitted, SkippedIn, In
<1>5. Cardinality(OpenIn(res)) = 0 /\ Outstanding = 0
  BY <1>4, FS_EmptySet DEF Outstanding
<1>6. CoreOK
  BY <1>2, <1>3 DEF Init, CoreOK, RunStates
<1>7. CountBudget
  BY <1>1, <1>5 DEF Init, CountBudget
<1>8. /\ AdmittedIsCommitted /\ AdmittedOnce /\ BarrierClosesSlots
      /\ OneSlotPerPosition /\ Delivered_Below /\ Skipped_Passed
  BY <1>4 DEF AdmittedIsCommitted, AdmittedOnce, BarrierClosesSlots,
              OneSlotPerPosition, Delivered_Below, Skipped_Passed
<1>9. Filled
  BY <1>2 DEF Init, Filled
<1> QED
  BY <1>6, <1>7, <1>8, <1>9 DEF Inv

\* A step that changes nothing.
LEMMA StutterKeeps ==
    ASSUME Inv, UNCHANGED vars
    PROVE  /\ Inv' /\ Forward /\ Outstanding' = Outstanding
           /\ Delivered' = Delivered /\ SkippedIn(res') = SkippedIn(res)
<1>1. UNCHANGED <<runState, cause, overdue, expired, lostPause, cap, cursor,
                  produced, decided, res, msg, open, pass>>
  BY DEF vars, core, runVars
<1>2. CoreOK' /\ Quiet /\ Forward
  BY <1>1 DEF Inv, CoreOK, In, Quiet, OpenIn, Forward, Running, runVars
<1> QED
  BY <1>1, <1>2, QuietKeeps, QuietAdmitted DEF Outstanding

\* Inv is inductive.
THEOREM Invariance == Spec => []Inv
<1>1. Inv /\ [Next]_vars => Inv'
  BY StepKeeps, StutterKeeps
<1> QED
  BY <1>1, InitInv, PTL DEF Spec

-----------------------------------------------------------------------------
\* Every variable keeps its type.
THEOREM TypeCorrect == Spec => []TypeOK
<1>1. Init => twins \in SUBSET Slots
  BY DEF Init
<1>2. twins \in SUBSET Slots /\ [Next]_vars => (twins \in SUBSET Slots)'
  BY DEF Next, Waiting, In, vars
<1>3. Inv => CoreOK
  BY DEF Inv
<1> QED
  BY <1>1, <1>2, <1>3, Invariance, PTL DEF Spec, TypeOK

\* What is admitted, held and fetched ahead stays within max_count.
THEOREM BudgetKept == Spec => []CountBudget
BY Invariance, PTL DEF Inv

\* Once a run drains, no slot is open that a late answer could fill.
THEOREM NoSlotAfterBarrier == Spec => []BarrierClosesSlots
BY Invariance, PTL DEF Inv

\* Never are two open slots for one position.
THEOREM SingleFlight == Spec => []OneSlotPerPosition
BY Invariance, PTL DEF Inv

\* Only a slot that the cap allows adds to what waits for the owner.
THEOREM QueueWithinCap == Spec => QueueBounded
<1>1. Inv /\ [Next]_vars => [Outstanding' > Outstanding => Outstanding' <= cap]_vars
  <2> SUFFICES ASSUME Inv, Next
               PROVE  Outstanding' > Outstanding => Outstanding' <= cap
    OBVIOUS
  <2>1. Inv' /\ (Outstanding' <= Outstanding \/ Outstanding' <= cap)
    BY StepKeeps
  <2>2. Outstanding \in Nat /\ Outstanding' \in Nat
    BY OpenFinite, UndecidedFinite DEF Outstanding
  <2> QED
    BY <2>1, <2>2
<1> QED
  BY <1>1, Invariance, PTL DEF Spec, QueueBounded

\* A barrier is not taken back, by command, count, expiry or a late sweep.
THEOREM BarriersStand == Spec => BarrierMonotone
<1>1. Inv /\ [Next]_vars =>
        [/\ runState \in Terminal => UNCHANGED runVars
         /\ runState = "draining" =>
              /\ runState' \in {"draining"} \cup Terminal
              /\ cause \in Fencing => cause' = cause
              /\ overdue => overdue']_vars
  BY StepKeeps DEF Forward
<1> QED
  BY <1>1, Invariance, PTL DEF Spec, BarrierMonotone

-----------------------------------------------------------------------------
\* The log of positions.

Over == runState \notin {"active", "paused"}

LEMMA GapsAreSkipped == CursorsOf(In("skipped")) = SkippedIn(res)
BY DEF CursorsOf, In, SkippedIn

LEMMA InitLog == Init => Log!Init
<1> SUFFICES ASSUME Init PROVE Log!Init
  OBVIOUS
<1>1. Delivered = {} /\ CursorsOf(In("skipped")) = {}
  BY DEF Init, NoRow, Delivered, Admitted, CursorsOf, In
<1> QED
  BY <1>1 DEF Init, Log!Init

LEMMA StepLog ==
    ASSUME Inv, [Next]_vars
    PROVE  [Log!Next]_(Log!vars)
<1>1. /\ CursorsOf(In("skipped")) = SkippedIn(res)
      /\ CursorsOf(In("skipped"))' = SkippedIn(res')
  BY GapsAreSkipped DEF CursorsOf, In, SkippedIn
<1>2. ASSUME Delivered' = Delivered, SkippedIn(res') = SkippedIn(res), Forward
      PROVE  [Log!Next]_(Log!vars)
  <2>1. CASE Over' = Over
    BY <1>1, <1>2, <2>1 DEF Log!vars, Over
  <2>2. CASE Over' # Over
    <3>1. ~Over /\ Over'
      BY <1>2, <2>2 DEF Over, Forward, Terminal, Inv, CoreOK, RunStates, runVars
    <3>2. Log!Close
      BY <1>1, <1>2, <3>1 DEF Log!Close, Over
    <3> QED
      BY <3>2 DEF Log!Next
  <2> QED
    BY <2>1, <2>2
<1>3. ASSUME NEW s \in Slots, SkipLost(s)
      PROVE  [Log!Next]_(Log!vars)
  <2>1. /\ Delivered' = Delivered
        /\ SkippedIn(res') = SkippedIn(res) \cup {res[s].cursor}
        /\ res[s].cursor \in Positions /\ runState' = runState
    BY <1>3, SkipLostKeeps
  <2>2. CASE res[s].cursor \in Delivered
    BY <1>1, <2>1, <2>2 DEF Log!vars
  <2>3. CASE res[s].cursor \notin Delivered
    <3>1. Log!GiveUp(res[s].cursor)
      BY <1>1, <2>1, <2>3 DEF Log!GiveUp
    <3> QED
      BY <2>1, <3>1 DEF Log!Next
  <2> QED
    BY <2>2, <2>3
<1>4. ASSUME NEW s \in Slots, AdmitsAt(s)
      PROVE  [Log!Next]_(Log!vars)
  <2>1. /\ Delivered' = Delivered \cup {cursor}
        /\ SkippedIn(res) \subseteq SkippedIn(res')
        /\ SkippedIn(res') \subseteq SkippedIn(res) \cup {cursor}
        /\ cursor \in Positions /\ cursor \notin Delivered
    BY <1>4, AnswerSettles, ReplaySettles, SettlesKeeps DEF AdmitsAt
  <2>2. runState = "active"
    BY <1>4 DEF AdmitsAt, AnswerAdmitted, ReplayAdmitted, Commit, CanCommit
  <2>3. /\ cursor \notin SkippedIn(res)
        /\ \A q \in Positions : q < cursor => q \in Delivered \cup SkippedIn(res)
    BY DEF Inv, Skipped_Passed, Filled
  <2>4. SkippedIn(res') \ Delivered' = SkippedIn(res) \ Delivered
    BY <2>1, <2>3
  <2>5. Log!Admit(cursor)
    BY <1>1, <2>1, <2>2, <2>3, <2>4 DEF Log!Admit, Log!Settled
  <2> QED
    BY <2>1, <2>5 DEF Log!Next
<1>5. CASE Next
  BY <1>2, <1>3, <1>4, <1>5, StepKeeps
<1>6. CASE UNCHANGED vars
  BY <1>2, <1>6, StutterKeeps
<1> QED
  BY <1>5, <1>6

\* The run delivers a provider's positions in order and each once, passes over
\* none but those the owner gave up, and nothing once it is being closed.
THEOREM LogImplemented == Spec => ImplementsLog
<1>1. Inv /\ [Next]_vars => [Log!Next]_(Log!vars)
  BY StepLog
<1> QED
  BY <1>1, InitLog, Invariance, PTL DEF Spec, ImplementsLog, Log!Spec

\* A message the owner has keeps its place and its id.
MessagesKept == \A s \in Admitted : /\ s \in Admitted'
                                    /\ res'[s].cursor = res[s].cursor
                                    /\ res'[s].id = res[s].id
MessageStays == [][MessagesKept]_vars

\* Nothing is missing before a message the owner has: every earlier position is
\* delivered as well, or was given up; and no two messages are for one position.
NoGapBefore ==
    \A s \in Admitted :
        /\ \A p \in Positions : p < res[s].cursor => p \in Delivered \cup SkippedIn(res)
        /\ \A t \in Admitted : res[s].cursor = res[t].cursor => s = t

\* Messages stay where they are; a new one is at the cursor, where none was.
LEMMA MessagesMove ==
    ASSUME Inv, [Next]_vars
    PROVE  /\ \A t \in Admitted : /\ t \in Admitted'
                                  /\ res'[t].cursor = res[t].cursor
                                  /\ res'[t].id = res[t].id
           /\ \/ Admitted' = Admitted
              \/ \E s \in Slots : /\ AdmitsAt(s) /\ Admitted' = Admitted \cup {s}
                                  /\ res'[s].cursor = cursor
<1>1. Admitted \subseteq Slots /\ \A t \in Admitted : res[t].state = "committed"
  BY DEF Admitted, Inv, AdmittedIsCommitted
<1>2. ASSUME RunStep \/ \E s \in Slots : QuietSlotStep(s)
      PROVE  /\ Admitted' = Admitted
             /\ \A t \in Admitted : res'[t].cursor = res[t].cursor /\ res'[t].id = res[t].id
  <2>1. CoreOK' /\ Quiet
    BY <1>2, QuietSteps
  <2> QED
    BY <1>1, <2>1, QuietAdmitted DEF Quiet
<1>3. ASSUME NEW s \in Slots, Reserve(s) \/ SkipLost(s)
      PROVE  /\ Admitted' = Admitted
             /\ \A t \in Admitted : res'[t].cursor = res[t].cursor /\ res'[t].id = res[t].id
  <2>1. s \notin Admitted /\ Admitted' = Admitted
    BY <1>1, <1>3 DEF Reserve, NoRow, SkipLost, Admitted
  <2>2. \A t \in Slots \ {s} : res'[t] = res[t]
    BY <1>3 DEF Reserve, SkipLost, Inv, CoreOK
  <2> QED
    BY <1>1, <2>1, <2>2
<1>4. ASSUME NEW s \in Slots, AdmitsAt(s)
      PROVE  /\ Admitted' = Admitted \cup {s} /\ res'[s].cursor = cursor
             /\ \A t \in Admitted : res'[t].cursor = res[t].cursor /\ res'[t].id = res[t].id
  <2>1. PICK id : Settles(s, id)
    BY <1>4, AnswerSettles, ReplaySettles DEF AdmitsAt
  <2>2. s \notin Admitted
    BY <1>1, <2>1 DEF Settles, OpenIn
  <2> QED
    BY <1>1, <2>1, <2>2 DEF Settles, Admitted
<1>5. CASE UNCHANGED vars
  BY <1>5 DEF vars, core, Admitted
<1>6. CASE Next
  BY <1>2, <1>3, <1>4, <1>6, StepKinds
<1> QED
  BY <1>5, <1>6

\* What the owner has been given is neither moved nor taken back.
THEOREM MessagesStay == Spec => MessageStays
<1>1. Inv /\ [Next]_vars => [MessagesKept]_vars
  BY MessagesMove DEF MessagesKept
<1> QED
  BY <1>1, Invariance, PTL DEF Spec, MessageStays

\* The messages at hand are the provider's, from the first on, without a gap.
THEOREM MessagesInOrder == Spec => []NoGapBefore
<1> DEFINE Apart == \A s, t \in Admitted : res[s].cursor = res[t].cursor => s = t
<1>1. Init => Apart
  BY DEF Init, Admitted
<1>2. Inv /\ Apart /\ [Next]_vars => Apart'
  <2> SUFFICES ASSUME Inv, Apart, [Next]_vars PROVE Apart'
    OBVIOUS
  <2>1. \A t \in Admitted : res[t].cursor # cursor
    <3>1. \A t \in Admitted : res[t].cursor \in Nat /\ res[t].cursor < cursor
      BY DEF Inv, CoreOK, Row, Positions, Admitted, Delivered_Below
    <3> QED
      BY <3>1 DEF Inv, CoreOK, Positions
  <2>2. CASE Admitted' = Admitted
    BY <2>2, MessagesMove
  <2>3. ASSUME NEW s \in Slots, Admitted' = Admitted \cup {s}, res'[s].cursor = cursor
        PROVE  Apart'
    BY <2>1, <2>3, MessagesMove
  <2> QED
    BY <2>2, <2>3, MessagesMove
<1>3. Inv /\ Apart => NoGapBefore
  <2> SUFFICES ASSUME Inv, Apart, NEW s \in Admitted
               PROVE  \A p \in Positions : p < res[s].cursor => p \in Delivered \cup SkippedIn(res)
    BY DEF NoGapBefore
  <2>1. res[s].cursor \in Nat /\ res[s].cursor < cursor /\ cursor \in Nat /\ Positions \subseteq Nat
    BY DEF Inv, CoreOK, Row, Positions, Admitted, Delivered_Below
  <2>2. Filled
    BY DEF Inv
  <2> SUFFICES ASSUME NEW p \in Positions, p < res[s].cursor
               PROVE  p \in Delivered \cup SkippedIn(res)
    OBVIOUS
  <2>3. p < cursor
    BY <2>1
  <2> QED
    BY <2>2, <2>3 DEF Filled
<1> QED
  BY <1>1, <1>2, <1>3, Invariance, PTL DEF Spec

-----------------------------------------------------------------------------
\* What becomes of an answer that was held.

\* A held row names its message and has a staged copy, be it readable or not;
\* a slot still waiting for its answer has none.
Shape(s) ==
    /\ res[s].state = "held" => res[s].id \in Ids /\ res[s].staged # "none"
    /\ res[s].state = "reserved" => res[s].staged = "none"

HeldHasCopy == \A s \in Slots : Shape(s)

\* A held answer stays held, or is with the owner, or could not be read, or
\* was let go of by the run's own barrier.
Ends(s) ==
    res[s].state = "held" =>
        \/ res'[s].state = "held" /\ res'[s].id = res[s].id
        \/ res'[s].state = "committed" /\ res[s].id \in KnownIds'
        \/ res'[s].state = "lost" /\ res[s].staged = "bad"
        \/ res'[s].state = "released" /\ ~Running'

\* No crash, duplicate, stall or replay in pieces lets a held answer vanish
\* (drainOneHeld, markLost and onBarrier).
HeldEndsWell == [][\A s \in Slots : Ends(s)]_vars

\* Of an answer that still waits for its turn, the staged copy is not
\* destroyed (sweepResidue, the delete after the commit).
CopyKept(s) ==
    res[s].staged # "none" /\ res'[s].staged = "none" => s \notin OpenIn(res')
CopyStays == [][\A s \in Slots : CopyKept(s)]_vars

\* What is held was held, or came under a key that no message had.
Comes(s) ==
    res'[s].state = "held" =>
        \/ res[s].state = "held" /\ res'[s].id = res[s].id
        \/ Admitted' = Admitted /\ ~KeyKnown(res'[s].id)

Turns == \A s \in Slots : Shape(s)' /\ Ends(s) /\ CopyKept(s) /\ Comes(s)

\* One row is written, and neither opened nor taken from those held.
LEMMA RowTurns ==
    ASSUME Inv, HeldHasCopy, NEW s \in Slots, NEW x \in Row, res' = [res EXCEPT ![s] = x],
           x.state \in {"held", "reserved"} =>
                /\ x.state = res[s].state /\ x.id = res[s].id
                /\ x.staged = "none" <=> res[s].staged = "none",
           res[s].state = "held" =>
                \/ x.state = "held"
                \/ x.state = "lost" /\ res[s].staged = "bad"
                \/ x.state = "committed" /\ res[s].id \in KnownIds'
    PROVE  Turns
<1>1. res'[s] = x /\ \A t \in Slots : t # s => res'[t] = res[t]
  BY RowWritten DEF Inv
<1>2. \A t \in Slots : Shape(t)
  BY DEF HeldHasCopy
<1>3. Shape(s)' /\ Ends(s) /\ CopyKept(s) /\ Comes(s)
  BY <1>1, <1>2 DEF Shape, Ends, CopyKept, Comes, OpenIn
<1>4. \A t \in Slots : t # s => Shape(t)' /\ Ends(t) /\ CopyKept(t) /\ Comes(t)
  BY <1>1, <1>2 DEF Shape, Ends, CopyKept, Comes, OpenIn
<1> QED
  BY <1>3, <1>4 DEF Turns

\* A barrier closes what rows it finds.
LEMMA ClosedTurns ==
    ASSUME HeldHasCopy, NEW rows \in [Slots -> Row], res' = Closed(rows),
           ~Running',
           NEW s, \A t \in Slots \ {s} : res[t].state = "held" => rows[t].state = "held",
           res[s].state = "held" =>
                \/ rows[s].state = "held"
                \/ rows[s].state = "committed" /\ res[s].id \in KnownIds'
    PROVE  Turns
<1> SUFFICES ASSUME NEW t \in Slots PROVE Shape(t)' /\ Ends(t) /\ CopyKept(t) /\ Comes(t)
  BY DEF Turns
<1>1. /\ OpenIn(res') = {}
      /\ res'[t].state = IF t \in OpenIn(rows) THEN "released" ELSE rows[t].state
  BY ClosedRows
<1>2. Shape(t)'
  BY <1>1 DEF Shape, OpenIn
<1>3. Ends(t)
  BY <1>1 DEF Ends, OpenIn
<1>4. CopyKept(t) /\ Comes(t)
  BY <1>1 DEF CopyKept, Comes, OpenIn
<1> QED
  BY <1>2, <1>3, <1>4

\* No row is written.
LEMMA StillTurns ==
    ASSUME HeldHasCopy, res' = res
    PROVE  Turns
BY DEF HeldHasCopy, Turns, Shape, Ends, CopyKept, Comes, OpenIn

\* The rows as a commit writes them, before the count may close the rest.
LEMMA CommitTurns ==
    ASSUME Inv, HeldHasCopy, NEW s \in OpenIn(res), NEW row \in Row, row.state = "committed",
           res[s].state = "held" => row.id = res[s].id, Commit(s, row)
    PROVE  Turns
<1> DEFINE rows == Committing(s, row)
           m == [msg EXCEPT ![s] = "undecided"]
<1>1. s \in Slots /\ res \in [Slots -> Row] /\ m \in [Slots -> {"none", "undecided", "settled"}]
  BY DEF OpenIn, Inv, CoreOK
<1>2. /\ rows \in [Slots -> Row] /\ rows[s] = row
      /\ \A t \in Slots \ {s} :
            \/ rows[t] = res[t]
            \/ res[t].state = "lost" /\ rows[t].state = "skipped"
  <2>1. \A t \in Slots : res[t] \in Row /\ [res[t] EXCEPT !.state = "skipped"] \in Row
                         /\ [res[t] EXCEPT !.state = "skipped"].state = "skipped"
    BY <1>1 DEF Row
  <2> QED
    BY <1>1, <2>1 DEF Committing
<1> HIDE DEF rows
<1>3. CASE res' = rows /\ msg' = m
  <2>1. s \in Admitted' /\ res'[s] = row
    BY <1>1, <1>2, <1>3 DEF Admitted
  <2>2. row.id \in KnownIds'
    BY <2>1 DEF KnownIds
  <2>3. Shape(s)' /\ Ends(s) /\ CopyKept(s) /\ Comes(s)
    BY <2>1, <2>2 DEF Shape, Ends, CopyKept, Comes, OpenIn
  <2>4. \A t \in Slots \ {s} : Shape(t)' /\ Ends(t) /\ CopyKept(t) /\ Comes(t)
    BY <1>2, <1>3 DEF Shape, Ends, CopyKept, Comes, OpenIn, HeldHasCopy
  <2> QED
    BY <2>3, <2>4 DEF Turns
<1>4. CASE Barrier("count", rows, m)
  <2>1. res' = Closed(rows) /\ msg' = m /\ ~Running'
    BY <1>4 DEF Barrier, Running, Fencing
  <2>2. s \in Admitted' /\ res'[s].id = row.id
    BY <1>1, <1>2, <2>1, ClosedRows DEF Admitted
  <2>3. row.id \in KnownIds'
    BY <2>2 DEF KnownIds
  <2> QED
    BY <1>2, <2>1, <2>3, ClosedTurns
<1>5. (res' = rows /\ msg' = m) \/ Barrier("count", rows, m)
  BY DEF Commit, BarrierIf, rows
<1> QED
  BY <1>3, <1>4, <1>5

LEMMA AdmitTurns ==
    ASSUME Inv, HeldHasCopy, NEW s \in Slots, AdmitsAt(s)
    PROVE  Turns
<1>1. res[s] \in Row
  BY DEF Inv, CoreOK
<1>2. ASSUME NEW id \in Ids, AnswerAdmitted(s, id) PROVE Turns
  <2>1. /\ Committed(s, id) \in Row /\ Committed(s, id).state = "committed"
        /\ s \in OpenIn(res) /\ res[s].state # "held"
    BY <1>1, <1>2 DEF Committed, AnswerAdmitted, Row, OpenIn
  <2> QED
    BY <1>2, <2>1, CommitTurns DEF AnswerAdmitted
<1>3. ASSUME ReplayAdmitted(s) PROVE Turns
  <2>1. s \in OpenIn(res)
    BY <1>3 DEF ReplayAdmitted, NextHeld, Inv, CoreOK, In, OpenIn
  <2>2. PICK row \in Row : row.state = "committed" /\ row.id = res[s].id /\ Commit(s, row)
    <3>1. /\ [res[s] EXCEPT !.state = "committed", !.staged = "none"] \in Row
          /\ [res[s] EXCEPT !.state = "committed"] \in Row
          /\ [res[s] EXCEPT !.state = "committed", !.staged = "none"].state = "committed"
          /\ [res[s] EXCEPT !.state = "committed"].state = "committed"
          /\ [res[s] EXCEPT !.state = "committed", !.staged = "none"].id = res[s].id
          /\ [res[s] EXCEPT !.state = "committed"].id = res[s].id
      BY <1>1 DEF Row
    <3> QED
      BY <1>3, <3>1 DEF ReplayAdmitted
  <2> QED
    BY <2>1, <2>2, CommitTurns
<1> QED
  BY <1>2, <1>3 DEF AdmitsAt

LEMMA ReplayTurns ==
    ASSUME Inv, HeldHasCopy, NEW s \in Slots, ReplayKnown(s) \/ ReplayLost(s) \/ ReplayStalls(s)
    PROVE  Turns
<1>1. res[s] \in Row /\ res[s].state = "held"
  BY DEF Inv, CoreOK, In, ReplayKnown, ReplayLost, ReplayStalls, NextHeld
<1>2. CASE ReplayKnown(s)
  <2> DEFINE x == [res[s] EXCEPT !.state = "committed", !.staged = "none"]
  <2>1. x \in Row /\ x.state = "committed" /\ x.id = res[s].id
    BY <1>1 DEF Row
  <2>2. res' = [res EXCEPT ![s] = x]
    BY <1>1, <1>2 DEF ReplayKnown, Row, Inv, CoreOK
  <2> HIDE DEF x
  <2>3. res'[s].id = res[s].id /\ \A t \in Slots : t # s => res'[t] = res[t]
    BY <2>1, <2>2, RowWritten DEF Inv
  <2>4. Admitted' = Admitted /\ Admitted \subseteq Slots
    BY <1>2 DEF ReplayKnown, Admitted
  <2>5. KnownIds' = KnownIds
    BY <2>3, <2>4 DEF KnownIds
  <2>6. res[s].id \in KnownIds'
    BY <1>2, <2>5 DEF ReplayKnown, Known
  <2> QED
    BY <2>1, <2>2, <2>6, RowTurns
<1>3. CASE ReplayLost(s)
  <2>1. PICK left \in {"bad", "none"} :
            res' = [res EXCEPT ![s].state = "lost", ![s].staged = left]
    BY <1>3 DEF ReplayLost
  <2> DEFINE x == [res[s] EXCEPT !.state = "lost", !.staged = left]
  <2>2. x \in Row /\ x.state = "lost"
    BY <1>1 DEF Row
  <2>3. res' = [res EXCEPT ![s] = x]
    BY <1>1, <2>1 DEF Row, Inv, CoreOK
  <2> HIDE DEF x
  <2> QED
    BY <1>3, <2>2, <2>3, RowTurns DEF ReplayLost
<1>4. CASE ReplayStalls(s)
  BY <1>4, StillTurns DEF ReplayStalls
<1> QED
  BY <1>2, <1>3, <1>4

LEMMA SlotTurns ==
    ASSUME Inv, HeldHasCopy, NEW s \in Slots, QuietSlotStep(s) \/ Reserve(s) \/ SkipLost(s)
    PROVE  Turns
<1>1. res[s] \in Row /\ res \in [Slots -> Row]
  BY DEF Inv, CoreOK
<1> DEFINE off == [res[s] EXCEPT !.state = "released"]
<1>2. /\ off \in Row /\ off.state = "released" /\ Released(s) = [res EXCEPT ![s] = off]
  BY <1>1 DEF Released, Row
<1> HIDE DEF off
<1>3. CASE Release(s)
  BY <1>2, <1>3, RowTurns DEF Release
<1>4. CASE Exhausted(s)
  <2>1. /\ Released(s) \in [Slots -> Row] /\ res[s].state = "reserved"
        /\ \A t \in Slots \ {s} : Released(s)[t] = res[t]
    BY <1>1, <1>2, <1>4 DEF Exhausted
  <2>2. CASE res' = Released(s)
    BY <1>2, <2>1, <2>2, RowTurns
  <2>3. CASE res' = Closed(Released(s)) /\ ~Running'
    BY <2>1, <2>3, ClosedTurns
  <2> QED
    BY <1>4, <2>2, <2>3 DEF Exhausted, BarrierIf, Barrier, Running
<1>5. CASE Spoil(s)
  <2> DEFINE x == [res[s] EXCEPT !.staged = "bad"]
  <2>1. x \in Row /\ x.state = res[s].state /\ x.id = res[s].id /\ x.staged = "bad"
    BY <1>1 DEF Row
  <2>2. res' = [res EXCEPT ![s] = x] /\ res[s].staged = "good"
    BY <1>1, <1>5 DEF Spoil, Row
  <2> HIDE DEF x
  <2> QED
    BY <2>1, <2>2, RowTurns
<1>6. CASE Decide(s)
  <2>1. CASE res' = res
    BY <2>1, StillTurns
  <2>2. CASE res' = Closed(res) /\ ~Running'
    BY <1>1, <2>2, ClosedTurns
  <2> QED
    BY <1>6, <2>1, <2>2 DEF Decide, BarrierIf, Barrier, Running
<1>7. CASE MessageExpires(s)
  BY <1>7, StillTurns DEF MessageExpires
<1>8. ASSUME NEW id \in Ids, AnswerHeld(s, id) PROVE Turns
  <2> DEFINE x == [res[s] EXCEPT !.state = "held", !.id = id, !.staged = "good"]
  <2>1. x \in Row /\ x.state = "held" /\ x.id = id /\ x.staged = "good"
    BY <1>1 DEF Row
  <2>2. res' = [res EXCEPT ![s] = x] /\ res[s].state = "reserved"
    BY <1>1, <1>8 DEF AnswerHeld, Row
  <2> HIDE DEF x
  <2>3. res'[s] = x /\ \A t \in Slots \ {s} : res'[t] = res[t]
    BY <2>1, <2>2, RowWritten DEF Inv
  <2>4. Admitted' = Admitted /\ ~KeyKnown(id)
    BY <1>8 DEF AnswerHeld, Admitted
  <2> QED
    BY <2>1, <2>2, <2>3, <2>4 DEF Turns, Shape, Ends, CopyKept, Comes, OpenIn, HeldHasCopy
<1>9. CASE Reserve(s)
  <2>1. PICK c \in Positions :
          res' = [res EXCEPT ![s].state = "reserved", ![s].cursor = c]
    BY <1>9 DEF Reserve
  <2> DEFINE x == [res[s] EXCEPT !.state = "reserved", !.cursor = c]
  <2>0. res[s].staged = "none" /\ res[s].state = "none"
    BY <1>9 DEF Reserve, NoRow
  <2>2. x \in Row /\ x.state = "reserved" /\ x.staged = "none"
    BY <1>1, <2>0 DEF Row
  <2>3. res' = [res EXCEPT ![s] = x]
    BY <1>1, <2>1 DEF Row
  <2> HIDE DEF x
  <2>4. res'[s] = x /\ \A t \in Slots \ {s} : res'[t] = res[t]
    BY <2>2, <2>3, RowWritten DEF Inv
  <2> QED
    BY <2>0, <2>2, <2>4 DEF Turns, Shape, Ends, CopyKept, Comes, OpenIn, HeldHasCopy
<1>10. CASE SkipLost(s)
  <2> DEFINE x == [res[s] EXCEPT !.state = "skipped"]
  <2>1. x \in Row /\ x.state = "skipped" /\ res' = [res EXCEPT ![s] = x]
    BY <1>1, <1>10 DEF SkipLost, Row
  <2>2. res[s].state = "lost"
    BY <1>10 DEF SkipLost
  <2> HIDE DEF x
  <2> QED
    BY <2>1, <2>2, RowTurns
<1> QED
  BY <1>3, <1>4, <1>5, <1>6, <1>7, <1>8, <1>9, <1>10, ReplayTurns DEF QuietSlotStep

LEMMA RunTurns ==
    ASSUME Inv, HeldHasCopy, RunStep
    PROVE  Turns
<1>1. res \in [Slots -> Row]
  BY DEF Inv, CoreOK
<1>2. CASE res' = res
  BY <1>2, StillTurns
<1>3. CASE res' = Closed(res) /\ ~Running'
  BY <1>1, <1>3, ClosedTurns
<1>4. CASE Sweep
  <2>1. \A s \in Slots : /\ res'[s].state = res[s].state /\ res'[s].id = res[s].id
                         /\ s \in OpenIn(res) => res'[s] = res[s]
    <3> SUFFICES ASSUME NEW s \in Slots
                 PROVE  /\ res'[s].state = res[s].state /\ res'[s].id = res[s].id
                        /\ s \in OpenIn(res) => res'[s] = res[s]
      OBVIOUS
    <3>1. res'[s] = IF Residue(s) THEN [res[s] EXCEPT !.staged = "none"] ELSE res[s]
      BY <1>4 DEF Sweep
    <3>2. res[s] \in Row
      BY <1>1
    <3> QED
      BY <3>1, <3>2 DEF Row, Residue
  <2> QED
    BY <2>1 DEF Turns, Shape, Ends, CopyKept, Comes, HeldHasCopy, OpenIn
<1>5. ASSUME NEW c, Stop(c) \/ ExpirySweep PROVE res' = Closed(res) /\ ~Running'
  BY <1>5 DEF Stop, ExpirySweep, Barrier, Running
<1>6. CASE ForceTerminate
  <2>1. runState' \in Terminal
    BY <1>6 DEF ForceTerminate, TerminalOf, Terminal
  <2> QED
    BY <1>3, <1>6, <2>1 DEF ForceTerminate, Running, Terminal
<1> QED
  BY <1>2, <1>3, <1>4, <1>5, <1>6
     DEF RunStep, Lock, Unlock, Crash, Pause, Resume, Update, Expire, DeadlinePasses

LEMMA StepTurns ==
    ASSUME Inv, HeldHasCopy, [Next]_vars
    PROVE  Turns
<1>1. CASE UNCHANGED vars
  BY <1>1, StillTurns DEF vars, core
<1>2. CASE Next
  BY <1>2, StepKinds, RunTurns, SlotTurns, AdmitTurns
<1> QED
  BY <1>1, <1>2

\* Whatever is replayed in pieces or swept, what is held has its copy.
THEOREM HeldKeepsItsCopy == Spec => []HeldHasCopy
<1>1. Init => HeldHasCopy
  BY DEF Init, HeldHasCopy, Shape, NoRow
<1>2. Inv /\ HeldHasCopy /\ [Next]_vars => HeldHasCopy'
  BY StepTurns DEF Turns, HeldHasCopy
<1> QED
  BY <1>1, <1>2, Invariance, PTL DEF Spec

\* A held answer reaches the owner, unless it cannot be read or the run ends.
THEOREM HeldAreAnswered == Spec => HeldEndsWell
<1>1. Inv /\ HeldHasCopy /\ [Next]_vars => [\A s \in Slots : Ends(s)]_vars
  BY StepTurns DEF Turns
<1> QED
  BY <1>1, Invariance, HeldKeepsItsCopy, PTL DEF Spec, HeldEndsWell

\* A copy is destroyed only behind an answer that is no longer waiting.
THEOREM CopyOutlivesHold == Spec => CopyStays
<1>1. Inv /\ HeldHasCopy /\ [Next]_vars => [\A s \in Slots : CopyKept(s)]_vars
  BY StepTurns DEF Turns
<1> QED
  BY <1>1, Invariance, HeldKeepsItsCopy, PTL DEF Spec, CopyStays

-----------------------------------------------------------------------------
\* Messages that come again.

\* An answer that waits while the owner has its message waited before, under
\* another id.
TwinsNoted ==
    \A t \in In("held"), s \in Admitted :
        SameMessage(res[s].id, res[t].id) => res[s].id = res[t].id \/ t \in twins

Noted == TwinsNoted /\ RepeatsTurnedAway

LEMMA TwinsKept ==
    ASSUME Inv, HeldHasCopy, TwinsNoted, Next
    PROVE  TwinsNoted'
<1> SUFFICES ASSUME NEW t \in In("held")', NEW s \in Admitted',
                    SameMessage(res'[s].id, res'[t].id)
             PROVE  res'[s].id = res'[t].id \/ t \in twins'
  BY DEF TwinsNoted, SameMessage
<1>1. t \in Slots /\ Comes(t) /\ res'[t].state = "held" /\ twins \subseteq twins'
  BY StepTurns DEF Turns, In, Next
<1>2. CASE Admitted' = Admitted /\ ~KeyKnown(res'[t].id)
  BY <1>2, MessagesMove DEF KeyKnown, KnownIds, SameMessage
<1>3. CASE t \in In("held") /\ res'[t].id = res[t].id
  <2>1. CASE s \in Admitted
    BY <1>1, <1>3, <2>1, MessagesMove DEF TwinsNoted
  <2>2. CASE s \notin Admitted /\ res'[s].id # res[t].id
    <3>1. t \in Waiting(s) /\ s \in Admitted' \ Admitted
      BY <1>3, <2>2 DEF Waiting, SameMessage
    <3> QED
      BY <3>1 DEF Next
  <2> QED
    BY <1>3, <2>1, <2>2
<1> QED
  BY <1>1, <1>2, <1>3 DEF Comes, In

LEMMA RepeatsKept ==
    ASSUME Inv, HeldHasCopy, Noted, Next
    PROVE  RepeatsTurnedAway'
<1> SUFFICES ASSUME NEW s \in Admitted', NEW t \in Admitted', s # t,
                    SameMessage(res'[s].id, res'[t].id), res'[s].cursor <= res'[t].cursor
             PROVE  res'[s].id # res'[t].id /\ t \in twins'
  BY DEF RepeatsTurnedAway, SameMessage
<1>1. twins \subseteq twins'
  BY DEF Next
<1>2. CASE s \in Admitted /\ t \in Admitted
  BY <1>1, <1>2, MessagesMove DEF Noted, RepeatsTurnedAway
<1>3. ASSUME NEW n \in Slots, AdmitsAt(n), Admitted' = Admitted \cup {n},
             res'[n].cursor = cursor, ~(s \in Admitted /\ t \in Admitted)
      PROVE  res'[s].id # res'[t].id /\ t \in twins'
  <2>1. cursor \in Nat /\ \A r \in Admitted : res[r].cursor \in Nat /\ res[r].cursor < cursor
    BY DEF Inv, CoreOK, Row, Positions, Admitted, Delivered_Below
  <2>2. ~(s = n /\ t \in Admitted)
    BY <1>3, <2>1, MessagesMove
  <2>3. t = n /\ s \in Admitted
    BY <1>3, <2>2
  <2>4. res'[s].id = res[s].id
    BY <2>3, MessagesMove
  <2>5. ASSUME NEW id \in Ids, AnswerAdmitted(n, id) PROVE FALSE
    <3>1. res'[t].id = id
      BY <2>3, <2>5, AnswerSettles DEF Settles
    <3>2. ~KeyKnown(id)
      BY <2>5 DEF AnswerAdmitted
    <3> QED
      BY <2>3, <2>4, <3>1, <3>2 DEF KeyKnown, KnownIds, SameMessage
  <2>6. CASE ReplayAdmitted(n)
    <3>1. res'[t].id = res[t].id /\ res[t].id \notin KnownIds
      BY <2>3, <2>6, ReplaySettles DEF Settles
    <3>2. t \in In("held")
      BY <2>3, <2>6 DEF ReplayAdmitted, NextHeld, Inv, CoreOK
    <3>3. res[s].id # res[t].id
      BY <2>3, <3>1 DEF KnownIds
    <3> QED
      BY <1>1, <2>3, <2>4, <3>1, <3>2, <3>3 DEF Noted, TwinsNoted
  <2> QED
    BY <1>3, <2>5, <2>6 DEF AdmitsAt
<1> QED
  BY <1>2, <1>3, MessagesMove

\* A message the owner has is not admitted again, whatever slots it comes for
\* and however often it is held and replayed, unless a copy of it under another
\* id was held when it was admitted.
THEOREM MessagesOnce == Spec => []RepeatsTurnedAway
<1>1. Init => Noted
  BY DEF Init, Noted, TwinsNoted, RepeatsTurnedAway, Admitted
<1>2. Inv /\ HeldHasCopy /\ Noted /\ [Next]_vars => Noted'
  <2> SUFFICES ASSUME Inv, HeldHasCopy, Noted, [Next]_vars PROVE Noted'
    OBVIOUS
  <2>1. CASE Next
    BY <2>1, TwinsKept, RepeatsKept DEF Noted
  <2>2. CASE UNCHANGED vars
    BY <2>2 DEF vars, core, Noted, TwinsNoted, RepeatsTurnedAway, In, Admitted, SameMessage
  <2> QED
    BY <2>1, <2>2
<1> QED
  BY <1>1, <1>2, Invariance, HeldKeepsItsCopy, PTL DEF Spec, Noted


-----------------------------------------------------------------------------
\* The bound on positions.

\* No choice of a position for every slot uses all the positions there are.
LEMMA SomeUnused ==
    ASSUME NEW f \in [Slots -> Positions]
    PROVE  \E p \in Positions : \A t \in Slots : f[t] # p
<1>1. Cardinality(Slots) \in Nat /\ IsFiniteSet(Slots)
  BY RunAssumption, FS_CardinalityType
<1>2. Cardinality(Positions) = Cardinality(Slots) + 1
  BY <1>1, FS_Interval DEF Positions
<1>3. SUFFICES ASSUME \A p \in Positions : \E t \in Slots : f[t] = p PROVE FALSE
  OBVIOUS
<1>4. f \in Surjection(Slots, Positions)
  BY <1>3 DEF Surjection
<1>5. Cardinality(Positions) <= Cardinality(Slots)
  BY <1>1, <1>4, FS_Surjection
<1> QED
  BY <1>1, <1>2, <1>5

\* Where a position outside X is left, there is a first one.
LEMMA FirstOutside ==
    ASSUME NEW c \in Nat, NEW X, NEW p \in Positions, p >= c, p \notin X
    PROVE  \E d \in Positions :
             /\ d >= c /\ d \notin X
             /\ \A e \in Positions : c <= e /\ e < d => e \in X
<1> DEFINE T == {d \in Positions : d >= c /\ d \notin X}
<1>1. Positions \subseteq Nat /\ T \subseteq Nat /\ T # {}
  BY DEF Positions
<1>2. PICK d \in T : \A e \in T : ~ (<<e, d>> \in OpToRel(<, Nat))
  BY <1>1, WFMin, NatLessThanWellFounded
<1>3. \A e \in T : ~(e < d)
  BY <1>1, <1>2 DEF OpToRel
<1> QED
  BY <1>1, <1>3

\* Whenever all below the cursor is settled, a position is left from c on,
\* provided the rows take every other position before c.
LEMMA RoomFrom ==
    ASSUME Inv, NEW rows, \A t \in Slots : rows[t] \in Row /\ rows[t].cursor = res[t].cursor,
           NEW c \in {cursor, cursor + 1}, NEW X,
           c = cursor \/ cursor \in CursorsOf(Slots),
           X \subseteq {rows[t].cursor : t \in Slots}
    PROVE  \E d \in Positions :
             /\ d >= c /\ d \notin X
             /\ \A e \in Positions : c <= e /\ e < d => e \in X
<1> DEFINE f == [t \in Slots |-> res[t].cursor]
<1>1. /\ cursor \in Nat /\ Positions \subseteq Nat
      /\ f \in [Slots -> Positions]
  BY DEF Inv, CoreOK, Positions, Row
<1>2. PICK p \in Positions : \A t \in Slots : f[t] # p
  BY <1>1, SomeUnused
<1>3. p \notin CursorsOf(Slots) /\ p \notin X
  BY <1>2 DEF CursorsOf
<1>4. Delivered \cup SkippedIn(res) \subseteq CursorsOf(Slots)
  BY DEF Delivered, Admitted, SkippedIn, CursorsOf
<1>5. p >= cursor
  BY <1>1, <1>3, <1>4 DEF Inv, Filled
<1>6. p >= c
  BY <1>1, <1>3, <1>5
<1> QED
  BY <1>1, <1>3, <1>6, FirstOutside

\* The positions looked at are enough for every step there is: for the cursor
\* after a commit, after the owner gives up a loss, and for the next slot.
PositionsSuffice ==
    /\ \A s \in OpenIn(res), row \in Row :
          CanCommit(s) /\ row.cursor = cursor =>
              \E d \in Positions : Past(Committing(s, row), cursor + 1, d)
    /\ \A s \in In("lost") : res[s].cursor = cursor =>
          \E d \in Positions : Past([res EXCEPT ![s].state = "skipped"], cursor + 1, d)
    /\ \E c \in Positions : LowestFree(c)

\* The bound on positions keeps no commit, no skip and no fetch from happening.
THEOREM RoomForEveryStep == Spec => []PositionsSuffice
<1>1. Inv => PositionsSuffice
  <2> SUFFICES ASSUME Inv PROVE PositionsSuffice
    OBVIOUS
  <2>1. /\ res \in [Slots -> Row] /\ cursor \in Positions /\ cursor \in Nat
        /\ Positions \subseteq Nat
    BY DEF Inv, CoreOK, Positions
  <2>2. ASSUME NEW s \in OpenIn(res), NEW row \in Row, CanCommit(s), row.cursor = cursor
        PROVE  \E d \in Positions : Past(Committing(s, row), cursor + 1, d)
    <3> DEFINE rows == Committing(s, row)
    <3>1. s \in Slots /\ res[s].cursor = cursor
      BY <2>2 DEF OpenIn, CanCommit
    <3>2. \A t \in Slots : rows[t] \in Row /\ rows[t].cursor = res[t].cursor
      <4>1. \A t \in Slots : /\ [res[t] EXCEPT !.state = "skipped"] \in Row
                             /\ [res[t] EXCEPT !.state = "skipped"].cursor = res[t].cursor
        BY <2>1 DEF Row
      <4> QED
        BY <2>1, <2>2, <3>1, <4>1 DEF Committing
    <3> HIDE DEF rows
    <3>3. SkippedIn(rows) \subseteq {rows[t].cursor : t \in Slots}
      BY DEF SkippedIn
    <3>4. cursor \in CursorsOf(Slots)
      BY <3>1 DEF CursorsOf
    <3>5. \E d \in Positions : Past(rows, cursor + 1, d)
      BY <3>2, <3>3, <3>4, RoomFrom DEF Past
    <3> QED
      BY <3>5 DEF rows
  <2>3. ASSUME NEW s \in In("lost"), res[s].cursor = cursor
        PROVE  \E d \in Positions : Past([res EXCEPT ![s].state = "skipped"], cursor + 1, d)
    <3> DEFINE rows == [res EXCEPT ![s].state = "skipped"]
    <3>1. s \in Slots
      BY DEF In
    <3>2. \A t \in Slots : rows[t] \in Row /\ rows[t].cursor = res[t].cursor
      BY <2>1, <3>1 DEF Row
    <3> HIDE DEF rows
    <3>3. SkippedIn(rows) \subseteq {rows[t].cursor : t \in Slots}
      BY DEF SkippedIn
    <3>4. cursor \in CursorsOf(Slots)
      BY <2>3, <3>1 DEF CursorsOf
    <3>5. \E d \in Positions : Past(rows, cursor + 1, d)
      BY <3>2, <3>3, <3>4, RoomFrom DEF Past
    <3> QED
      BY <3>5 DEF rows
  <2>4. \E c \in Positions : LowestFree(c)
    <3>1. CursorsOf(OpenIn(res)) \subseteq {res[t].cursor : t \in Slots}
      BY DEF CursorsOf, OpenIn
    <3> QED
      BY <2>1, <3>1, RoomFrom DEF LowestFree
  <2> QED
    BY <2>2, <2>3, <2>4 DEF PositionsSuffice
<1> QED
  BY <1>1, Invariance, PTL

=============================================================================
