--------------------------- MODULE D2DOutboxProofs ---------------------------
(***************************************************************************)
(* Proofs about the D2D outbox.                                            *)
(*                                                                         *)
(* What a drain writes down rests on what it read when it claimed: a claim *)
(* takes no row in other hands, nothing but its drain touches a row in     *)
(* hand, and a restart, which resets rows, ends every drain.  Only an      *)
(* unlock takes a row from a drain that has it: of such a row (overrun) a  *)
(* drain may write down what is no longer so.  What holds of it is less,   *)
(* and each statement says where it stops short of such a row.             *)
(***************************************************************************)
EXTENDS D2DOutbox, FiniteSetTheorems, TLAPS

\* A call that has no answer yet has no row; a message without a row was not
\* tried by the drainer.
RowsFollow ==
  \A c \in Calls :
    /\ told[c] \in {"new", "posting", "reached"} => row[c].state = "none"
    /\ row[c].state = "none" => tries[c] = 0
    /\ told[c] = "new" => posts[c] = 0

\* Rows waiting in a batch: as they were read, in no other hands.
BatchHeld ==
  \A d \in Drainers : \A b \in batch[d] :
    /\ running[d] /\ tries[b[1]] >= b[2]
    /\ b[1] \notin overrun =>
         /\ row[b[1]].state = "sending" /\ row[b[1]].attempts = b[2]
         /\ tries[b[1]] <= b[2] + restarts
         /\ \A e \in Drainers : \A x \in batch[e] : x[1] = b[1] => e = d
         /\ \A e \in Drainers : at[e] # None => at[e].call # b[1]

\* The row a drain is trying, likewise; its try is counted.
AtHeld ==
  \A d \in Drainers : at[d] # None =>
    /\ running[d] /\ tries[at[d].call] >= at[d].attempts + 1
    /\ at[d].call \notin overrun =>
         /\ row[at[d].call].state = "sending" /\ row[at[d].call].attempts = at[d].attempts
         /\ \A e \in Drainers : at[e] # None /\ at[e].call = at[d].call => e = d

\* How the tries of a row compare with its attempts.
Counted ==
  \A c \in Calls :
    /\ posts[c] <= 1 + tries[c]
    /\ tries[c] >= row[c].attempts
    /\ c \notin overrun =>
         /\ row[c].state \in {"pending", "failed"} => tries[c] <= row[c].attempts + restarts
         /\ row[c].state = "sending" => tries[c] <= row[c].attempts + 1 + restarts
         /\ tries[c] <= MaxAttempts + restarts

\* A copy that has arrived is one the relay took.
Arrived ==
  /\ \A c \in Calls : told[c] = "reached" => taken[c] > 0
  /\ \A d \in Drainers : at[d] # None /\ at[d].stage = "reached" => taken[at[d].call] > 0

Inv == TypeOK /\ RowsFollow /\ BatchHeld /\ AtHeld /\ Counted /\ Arrived

-----------------------------------------------------------------------------
(* What the actions write *)

\* One row is written.
LEMMA RowSet ==
    ASSUME TypeOK, NEW c \in Calls, NEW x \in Row, row' = [row EXCEPT ![c] = x]
    PROVE  /\ row' \in [Calls -> Row]
           /\ \A e \in Calls : row'[e] = IF e = c THEN x ELSE row[e]
  BY DEF TypeOK

LEMMA Bounds == MaxAttempts \in Nat /\ MaxAttempts > 0 /\ 0 \in 0 .. (MaxAttempts - 1)
  <1>1. MaxAttempts \in Nat /\ MaxAttempts > 0
    BY OutboxConstants
  <1>2. QED BY <1>1

LEMMA RowTypes ==
    ASSUME NEW x \in Row, NEW s \in States, NEW b \in BOOLEAN
    PROVE  /\ [x EXCEPT !.state = s] \in Row
           /\ [x EXCEPT !.due = b] \in Row
           /\ [x EXCEPT !.late = b] \in Row
           /\ [NoRow EXCEPT !.state = s] \in Row
           /\ [NoRow EXCEPT !.state = s, !.due = b] \in Row
           /\ \A n \in 0 .. (MaxAttempts - 1) :
                [x EXCEPT !.state = s, !.attempts = n, !.due = b] \in Row
  <1>1. NoRow \in Row
    BY Bounds DEF NoRow, Row, States
  <1>2. QED BY <1>1 DEF Row

\* A write by id reaches its row, unless that is swept.
LEMMA Written ==
    ASSUME TypeOK, NEW c \in Calls, NEW x \in Row, Updated(c, x)
    PROVE  /\ row' \in [Calls -> Row]
           /\ \A e \in Calls : e # c => row'[e] = row[e]
           /\ \/ row[c].state = "swept" /\ row'[c] = row[c]
              \/ row[c].state # "swept" /\ row'[c] = x
  <1>1. CASE row[c].state = "swept"
    BY <1>1 DEF Updated, TypeOK
  <1>2. CASE row[c].state # "swept"
    BY <1>2, RowSet DEF Updated
  <1>3. QED BY <1>1, <1>2

\* A failure leaves its row dead after the last try, and else counted.
LEMMA Failure ==
    ASSUME TypeOK, NEW c \in Calls, NEW n \in Nat, RecordFailure(c, n)
    PROVE  /\ row' \in [Calls -> Row]
           /\ \A e \in Calls : e # c => row'[e] = row[e]
           /\ \/ row[c].state = "swept" /\ row'[c] = row[c]
              \/ /\ row[c].state # "swept" /\ row'[c].state = "dead"
                 /\ row'[c].attempts = row[c].attempts /\ n + 1 >= MaxAttempts
              \/ /\ row[c].state # "swept" /\ row'[c].state = "failed"
                 /\ row'[c].attempts = n + 1 /\ n + 1 < MaxAttempts
  <1> DEFINE dead == [row[c] EXCEPT !.state = "dead"]
             failed == [row[c] EXCEPT !.state = "failed", !.attempts = n + 1, !.due = FALSE]
  <1>1. row[c] \in Row BY DEF TypeOK
  <1>2. CASE n + 1 >= MaxAttempts
    <2>1. Updated(c, dead) BY <1>2 DEF RecordFailure
    <2>2. dead \in Row BY <1>1, RowTypes DEF States
    <2>3. dead.state = "dead" /\ dead.attempts = row[c].attempts BY <1>1 DEF Row
    <2> HIDE DEF dead
    <2>4. QED BY <1>2, <2>1, <2>2, <2>3, Written
  <1>3. CASE ~(n + 1 >= MaxAttempts)
    <2>1. Updated(c, failed) BY <1>3 DEF RecordFailure
    <2>2. n + 1 \in 0 .. (MaxAttempts - 1) /\ n + 1 < MaxAttempts BY <1>3, Bounds
    <2>3. failed \in Row BY <1>1, <2>2, RowTypes DEF States, Active
    <2>4. failed.state = "failed" /\ failed.attempts = n + 1 BY <1>1 DEF Row
    <2> HIDE DEF failed
    <2>5. QED BY <2>1, <2>2, <2>3, <2>4, Written
  <1>4. QED BY <1>2, <1>3

\* What the failure of a try does: its row is written, or left as it has ended
\* meanwhile, and no row becomes active beside another of its key.
Outcome(c, n) ==
  /\ \A e \in Calls : e # c => row'[e] = row[e]
  /\ \/ row[c].state \in {"sent", "dead", "swept"} /\ row'[c] = row[c]
     \/ /\ row[c].state # "swept" /\ row'[c].state = "dead"
        /\ row'[c].attempts = row[c].attempts /\ n + 1 >= MaxAttempts
     \/ /\ row[c].state # "swept" /\ row'[c].state = "failed"
        /\ row'[c].attempts = n + 1 /\ n + 1 < MaxAttempts
        /\ row[c].state \in {"sent", "dead"} => ActiveWith(Key[c]) = {}

LEMMA FailedIs ==
    ASSUME TypeOK, NEW d \in Drainers, NEW c \in Calls, NEW n \in Nat,
           NEW rest \in SUBSET (Calls \X Nat), Failed(d, c, n, rest)
    PROVE  /\ row' \in [Calls -> Row] /\ Outcome(c, n)
           /\ at' \in [Drainers -> Try \cup {None}] /\ running' \in [Drainers -> BOOLEAN]
           /\ batch' \in [Drainers -> SUBSET (Calls \X Nat)]
           /\ \A e \in Drainers : at'[e] = IF e = d THEN None ELSE at[e]
           /\ \A e \in Drainers : e # d => batch'[e] = batch[e] /\ running'[e] = running[e]
           /\ batch'[d] \subseteq rest /\ (batch'[d] # {} => running'[d] = running[d])
  <1>1. CASE ~Refused(c, n) /\ RecordFailure(c, n) /\ batch' = [batch EXCEPT ![d] = rest]
             /\ running' = running
    <2>1. n + 1 < MaxAttempts /\ row[c].state \in {"sent", "dead"} => ActiveWith(Key[c]) = {}
      BY <1>1 DEF Refused
    <2>2. row' \in [Calls -> Row] /\ Outcome(c, n)
      BY <1>1, <2>1, Failure DEF Outcome
    <2>3. QED BY <1>1, <2>2 DEF Failed, TypeOK
  <1>2. CASE Refused(c, n) /\ batch' = [batch EXCEPT ![d] = {}]
             /\ running' = [running EXCEPT ![d] = FALSE] /\ row' = row
    <2>1. row' \in [Calls -> Row] /\ Outcome(c, n)
      BY <1>2 DEF Refused, Outcome, TypeOK
    <2>2. QED BY <1>2, <2>1 DEF Failed, TypeOK
  <1>3. QED BY <1>1, <1>2 DEF Failed

LEMMA MarkedSent ==
    ASSUME TypeOK, NEW c \in Calls, MarkSent(c)
    PROVE  /\ row' \in [Calls -> Row]
           /\ \A e \in Calls : e # c => row'[e] = row[e]
           /\ \/ row[c].state = "swept" /\ row'[c] = row[c]
              \/ row'[c].state = "sent" /\ row'[c].attempts = row[c].attempts
  <1> DEFINE sent == [row[c] EXCEPT !.state = "sent"]
  <1>1. row[c] \in Row BY DEF TypeOK
  <1>2. Updated(c, sent) BY DEF MarkSent
  <1>3. sent \in Row BY <1>1, RowTypes DEF States
  <1>4. sent.state = "sent" /\ sent.attempts = row[c].attempts BY <1>1 DEF Row
  <1> HIDE DEF sent
  <1>5. QED BY <1>2, <1>3, <1>4, Written

\* What a drain has at hand is a claimed row.
LEMMA AtTyped ==
    ASSUME TypeOK, NEW d \in Drainers, at[d] # None
    PROVE  at[d].call \in Calls /\ at[d].attempts \in Nat /\ at[d].stage \in {"posted", "reached"}
  <1>1. at[d] \in Try BY DEF TypeOK
  <1>2. QED BY <1>1 DEF Try

-----------------------------------------------------------------------------
(* Type correctness *)

\* The rows written several at a time.
LEMMA RowsTyped ==
    ASSUME TypeOK
    PROVE  /\ \A S \in SUBSET Calls : Claimed(S) \in [Calls -> Row]
           /\ \A S \in SUBSET Calls : Reclaimed(S) \in [Calls -> Row]
           /\ \A S \in SUBSET Calls :
                [c \in Calls |-> IF c \in S THEN [NoRow EXCEPT !.state = "swept"] ELSE row[c]]
                  \in [Calls -> Row]
  <1>1. \A c \in Calls : row[c] \in Row
    BY DEF TypeOK
  <1>2. {"sending", "pending", "swept"} \subseteq States
    BY DEF States, Active
  <1>3. \A c \in Calls : [row[c] EXCEPT !.state = "sending"] \in Row
                         /\ [row[c] EXCEPT !.state = "pending"] \in Row
                         /\ [NoRow EXCEPT !.state = "swept"] \in Row
    BY <1>1, <1>2, RowTypes
  <1>4. QED BY <1>1, <1>3 DEF Claimed, Reclaimed

LEMMA Queued ==
    ASSUME TypeOK, NEW c \in Calls
    PROVE  [row EXCEPT ![c] = [NoRow EXCEPT !.state = "pending", !.due = TRUE]] \in [Calls -> Row]
  <1>1. [NoRow EXCEPT !.state = "pending", !.due = TRUE] \in Row
    <2>1. row[c] \in Row BY DEF TypeOK
    <2>2. QED BY <2>1, RowTypes DEF States, Active
  <1>2. QED BY <1>1 DEF TypeOK

LEMMA CallTypes ==
    ASSUME TypeOK, NEW c \in Calls, Send(c) \/ Reach(c) \/ Sent(c) \/ NotSent(c)
    PROVE  TypeOK'
  <1>1. CASE Send(c)
    BY <1>1 DEF TypeOK, Send, drains, faults
  <1>2. CASE Reach(c)
    BY <1>2 DEF TypeOK, Reach, drains, faults
  <1>3. CASE Sent(c)
    BY <1>3 DEF TypeOK, Sent, drains, relay, faults
  <1>4. CASE NotSent(c)
    <2>1. row' \in [Calls -> Row]
      BY <1>4, Queued DEF NotSent, TypeOK
    <2>2. told' \in [Calls -> {"new", "posting", "reached", "sent", "queued", "lost", "cut"}]
      BY <1>4 DEF NotSent, TypeOK
    <2>3. QED BY <1>4, <2>1, <2>2 DEF TypeOK, NotSent, drains, relay, faults
  <1>5. QED BY <1>1, <1>2, <1>3, <1>4

LEMMA TimeTypes ==
    ASSUME TypeOK, NEW c \in Calls, BackoffPasses(c) \/ Expires(c) \/ Straggles(c)
    PROVE  TypeOK'
  <1>1. row[c] \in Row
    BY DEF TypeOK
  <1>2. [row[c] EXCEPT !.due = TRUE] \in Row /\ [row[c] EXCEPT !.late = TRUE] \in Row
    BY <1>1, RowTypes DEF States
  <1>3. CASE BackoffPasses(c)
    BY <1>2, <1>3 DEF TypeOK, BackoffPasses, drains, relay, faults
  <1>4. CASE Expires(c)
    BY <1>2, <1>4 DEF TypeOK, Expires, drains, relay, faults
  <1>5. CASE Straggles(c)
    BY <1>5 DEF TypeOK, Straggles, sender, drains, faults
  <1>6. QED BY <1>3, <1>4, <1>5

LEMMA BatchTyped ==
    ASSUME TypeOK, NEW d \in Drainers, NEW b \in batch[d]
    PROVE  b[1] \in Calls /\ b[2] \in Nat /\ b = <<b[1], b[2]>> /\ batch[d] \ {b} \in SUBSET (Calls \X Nat)
  BY DEF TypeOK

LEMMA DrainTypes ==
    ASSUME TypeOK, NEW d \in Drainers, Drain(d)
    PROVE  TypeOK'
  <1>1. CASE Tick(d)
    <2> PICK S \in Claims :
          row' = Claimed(S) /\ batch' = [batch EXCEPT ![d] = {<<c, row[c].attempts>> : c \in S}]
      BY <1>1 DEF Tick
    <2>1. S \in SUBSET Calls
      BY DEF Claims, Due
    <2>2. row' \in [Calls -> Row]
      BY <2>1, RowsTyped
    <2>3. \A c \in Calls : row[c].attempts \in Nat
      BY Bounds DEF TypeOK, Row
    <2>4. {<<c, row[c].attempts>> : c \in S} \in SUBSET (Calls \X Nat)
      BY <2>1, <2>3
    <2> QED BY <1>1, <2>2, <2>4 DEF TypeOK, Tick, relay, faults
  <1>2. CASE Repost(d)
    <2> PICK b \in batch[d] :
          /\ batch' = [batch EXCEPT ![d] = @ \ {b}]
          /\ at' = [at EXCEPT ![d] = [call |-> b[1], attempts |-> b[2], stage |-> "posted"]]
          /\ tries' = [tries EXCEPT ![b[1]] = @ + 1]
          /\ posts' = [posts EXCEPT ![b[1]] = @ + 1]
      BY <1>2 DEF Repost
    <2>1. b[1] \in Calls /\ b[2] \in Nat /\ batch[d] \ {b} \in SUBSET (Calls \X Nat)
      BY BatchTyped
    <2>2. [call |-> b[1], attempts |-> b[2], stage |-> "posted"] \in Try
      BY <2>1 DEF Try
    <2>3. batch' \in [Drainers -> SUBSET (Calls \X Nat)] /\ at' \in [Drainers -> Try \cup {None}]
      BY <2>1, <2>2 DEF TypeOK
    <2>4. tries' \in [Calls -> Nat] /\ posts' \in [Calls -> Nat]
      BY <2>1 DEF TypeOK
    <2> QED BY <1>2, <2>3, <2>4 DEF TypeOK, Repost, sender, faults
  <1>3. CASE NotPosted(d)
    <2> PICK b \in batch[d] :
          /\ tries' = [tries EXCEPT ![b[1]] = @ + 1]
          /\ Failed(d, b[1], b[2], batch[d] \ {b})
      BY <1>3 DEF NotPosted
    <2>1. b[1] \in Calls /\ b[2] \in Nat /\ batch[d] \ {b} \in SUBSET (Calls \X Nat)
      BY BatchTyped
    <2>2. tries' \in [Calls -> Nat]
      BY <2>1 DEF TypeOK
    <2>3. /\ row' \in [Calls -> Row] /\ at' \in [Drainers -> Try \cup {None}]
          /\ batch' \in [Drainers -> SUBSET (Calls \X Nat)] /\ running' \in [Drainers -> BOOLEAN]
      BY <2>1, FailedIs
    <2> QED BY <1>3, <2>2, <2>3 DEF TypeOK, NotPosted, faults
  <1>4. CASE RepostReaches(d)
    <2>1. at[d].call \in Calls /\ at[d] \in Try
      BY <1>4, AtTyped DEF RepostReaches, Trying, TypeOK
    <2>2. [at[d] EXCEPT !.stage = "reached"] \in Try
      BY <2>1 DEF Try
    <2>3. at' \in [Drainers -> Try \cup {None}] /\ taken' \in [Calls -> Nat]
      BY <1>4, <2>1, <2>2 DEF RepostReaches, TypeOK
    <2> QED BY <1>4, <2>3 DEF TypeOK, RepostReaches, sender, faults
  <1>5. CASE Answer(d)
    <2>1. at[d] # None /\ at[d].call \in Calls /\ at[d].attempts \in Nat
          /\ batch[d] \in SUBSET (Calls \X Nat)
      BY <1>5, AtTyped DEF Answer, Delivered, NotDelivered, Trying, TypeOK
    <2>2. /\ row' \in [Calls -> Row] /\ at' \in [Drainers -> Try \cup {None}]
          /\ batch' \in [Drainers -> SUBSET (Calls \X Nat)] /\ running' \in [Drainers -> BOOLEAN]
      <3>1. CASE Delivered(d)
        BY <2>1, <3>1, MarkedSent DEF Delivered, Tried, TypeOK
      <3>2. CASE NotDelivered(d)
        BY <2>1, <3>2, FailedIs DEF NotDelivered
      <3> QED BY <1>5, <3>1, <3>2 DEF Answer
    <2>5. UNCHANGED <<told, timer, posts, taken, tries, faults>>
      BY <1>5 DEF Answer, Delivered, NotDelivered, Tried, relay
    <2> QED BY <2>2, <2>5 DEF TypeOK, faults
  <1>6. CASE DrainEnds(d)
    <2>1. row' \in [Calls -> Row]
      BY <1>6, RowsTyped DEF DrainEnds
    <2> QED BY <1>6, <2>1 DEF TypeOK, DrainEnds, relay, faults
  <1>7. QED BY <1>1, <1>2, <1>3, <1>4, <1>5, <1>6 DEF Drain, Begin

LEMMA FaultTypes ==
    ASSUME TypeOK, Unlock \/ Restart \/ (\E d \in Drainers : DrainThrows(d) \/ Reboot(d))
    PROVE  TypeOK'
  <1>1. CASE Restart
    <2>1. row' \in [Calls -> Row]
      BY <1>1, RowsTyped DEF Restart
    <2>2. told' \in [Calls -> {"new", "posting", "reached", "sent", "queued", "lost", "cut"}]
      BY <1>1 DEF Restart, TypeOK
    <2> QED BY <1>1, <2>1, <2>2 DEF TypeOK, Restart, Restarts, relay
  <1>2. ASSUME NEW d \in Drainers, DrainThrows(d) PROVE TypeOK'
    BY <1>2 DEF TypeOK, DrainThrows, Upset, sender, relay
  <1>3. ASSUME NEW d \in Drainers, Reboot(d) PROVE TypeOK'
    BY <1>3 DEF TypeOK, Reboot, Upset, sender, relay
  <1>4. CASE Unlock
    <2>1. row' \in [Calls -> Row] /\ overrun' \in SUBSET Calls
      BY <1>4, RowsTyped DEF Unlock, TypeOK
    <2> QED BY <1>4, <2>1 DEF TypeOK, Unlock, Restarts, drains, relay
  <1>5. QED BY <1>1, <1>2, <1>3, <1>4

LEMMA TypesStep == TypeOK /\ [Next]_vars => TypeOK'
  <1> SUFFICES ASSUME TypeOK, [Next]_vars PROVE TypeOK'
    OBVIOUS
  <1>1. CASE UNCHANGED vars
    BY <1>1 DEF TypeOK, vars, sender, drains, relay, faults
  <1>2. CASE Next
    BY <1>2, CallTypes, TimeTypes, DrainTypes, FaultTypes DEF Next
  <1>3. QED BY <1>1, <1>2

LEMMA TypesInit == Init => TypeOK
  <1> SUFFICES ASSUME Init PROVE TypeOK
    OBVIOUS
  <1>1. NoRow \in Row
    BY Bounds DEF NoRow, Row, States
  <1>2. First \in Drainers
    BY OutboxConstants DEF First
  <1>3. QED BY <1>1, <1>2 DEF Init, TypeOK

\* In every reachable state every variable has its type; in particular no row
\* counts as many attempts as a row may have, for no row lives through the last.
THEOREM TypeCorrect == Spec => []TypeOK
  BY TypesInit, TypesStep, PTL DEF Spec

-----------------------------------------------------------------------------
(* What holds of every row *)

\* Only a call that was told so has a row, a drain works on rows only, and what
\* is called sent, by a call or by its row, was taken by the relay.
Ground ==
  /\ \A c \in Calls :
       /\ row[c].state # "none" => told[c] = "queued"
       /\ told[c] = "new" => posts[c] = 0
       /\ posts[c] <= 1 + tries[c]
       /\ told[c] \in {"reached", "sent"} \/ row[c].state = "sent" => taken[c] > 0
  /\ \A d \in Drainers :
       /\ \A b \in batch[d] : row[b[1]].state # "none"
       /\ at[d] # None => row[at[d].call].state # "none"
       /\ Trying(d, "reached") => taken[at[d].call] > 0

LEMMA GroundInit == Init => Ground
  <1>1. Init => \A c \in Calls : told[c] = "new" /\ row[c].state = "none"
    BY DEF Init, NoRow
  <1>2. QED BY <1>1 DEF Init, Ground, Trying

\* A step that only lets rows go on from one state to another keeps it.
LEMMA GroundRows ==
    ASSUME TypeOK, Ground, TypeOK', UNCHANGED <<told, relay>>,
           \A c \in Calls : /\ row[c].state = "none" <=> row'[c].state = "none"
                            /\ row'[c].state = "sent" => taken[c] > 0,
           \A d \in Drainers :
             /\ \A b \in batch'[d] : b[1] \in Calls /\ row[b[1]].state # "none"
             /\ at'[d] # None => at'[d] = at[d]
    PROVE  Ground'
  <1>1. ASSUME NEW d \in Drainers, at'[d] # None
        PROVE  at[d] # None /\ at'[d] = at[d] /\ at[d].call \in Calls
    BY <1>1, AtTyped
  <1>2. UNCHANGED <<told, posts, taken, tries>>
    BY DEF relay
  <1>3. QED BY <1>1, <1>2 DEF Ground, Trying

LEMMA GroundCall ==
    ASSUME TypeOK, Ground, TypeOK', NEW c \in Calls,
           Send(c) \/ Reach(c) \/ Sent(c) \/ NotSent(c)
    PROVE  Ground'
  <1>1. /\ \A d \in Drainers : at[d] # None => at[d].call \in Calls
        /\ \A d \in Drainers : \A b \in batch[d] : b[1] \in Calls
        /\ \A e \in Calls : posts[e] \in Nat /\ taken[e] \in Nat /\ tries[e] \in Nat
    BY AtTyped, BatchTyped DEF TypeOK
  <1>2. CASE Send(c)
    BY <1>1, <1>2 DEF Send, Ground, TypeOK, drains, Trying
  <1>3. CASE Reach(c)
    BY <1>1, <1>3 DEF Reach, Ground, TypeOK, drains, Trying
  <1>4. CASE Sent(c)
    BY <1>1, <1>4 DEF Sent, Ground, TypeOK, drains, relay, Trying
  <1>5. CASE NotSent(c)
    <2>1. UNCHANGED <<batch, at, posts, taken, tries>>
      BY <1>5 DEF NotSent, drains, relay
    <2>2. /\ told[c] \in {"posting", "reached"} /\ row[c].state = "none"
          /\ told' = [told EXCEPT ![c] = "queued"] \/ (told' = [told EXCEPT ![c] = "lost"] /\ row' = row)
      BY <1>5 DEF NotSent, Ground
    <2>3. \A e \in Calls : e # c => row'[e] = row[e] /\ told'[e] = told[e]
      BY <1>5 DEF NotSent, TypeOK
    <2>4. /\ told'[c] \in {"queued", "lost"}
          /\ row'[c].state # "none" => told'[c] = "queued"
      BY <2>2 DEF TypeOK
    <2>5. row'[c].state # "sent"
      <3>1. \/ row' = row
            \/ row' = [row EXCEPT ![c] = [NoRow EXCEPT !.state = "pending", !.due = TRUE]]
        BY <1>5 DEF NotSent
      <3>2. [NoRow EXCEPT !.state = "pending", !.due = TRUE].state = "pending"
        BY DEF NoRow
      <3>3. QED BY <2>2, <3>1, <3>2 DEF TypeOK
    <2>6. QED BY <1>1, <2>1, <2>2, <2>3, <2>4, <2>5 DEF Ground, Trying
  <1>6. QED BY <1>2, <1>3, <1>4, <1>5

LEMMA GroundDrain ==
    ASSUME TypeOK, Ground, TypeOK', NEW d \in Drainers, Drain(d) \/ DrainThrows(d) \/ Reboot(d)
    PROVE  Ground'
  <1>1. /\ \A e \in Drainers : at[e] # None => at[e].call \in Calls
        /\ \A e \in Drainers : \A b \in batch[e] : b[1] \in Calls /\ b[2] \in Nat
        /\ \A e \in Calls : posts[e] \in Nat /\ taken[e] \in Nat /\ tries[e] \in Nat
    BY AtTyped, BatchTyped DEF TypeOK
  <1>2. CASE Tick(d)
    <2>1. PICK S \in Claims : /\ row' = Claimed(S)
                              /\ batch' = [batch EXCEPT ![d] = {<<c, row[c].attempts>> : c \in S}]
      BY <1>2 DEF Tick
    <2>2. S \subseteq Due
      BY DEF Claims
    <2>3. \A c \in S : c \in Calls /\ row[c].state \in {"pending", "failed"}
      BY <2>2 DEF Due
    <2>4. \A c \in Calls : row'[c].state = IF c \in S THEN "sending" ELSE row[c].state
      BY <2>1 DEF Claimed, TypeOK, Row
    <2>5. \A e \in Drainers : \A b \in batch'[e] : b[1] \in Calls /\ row[b[1]].state # "none"
      BY <1>1, <2>1, <2>3 DEF TypeOK, Ground
    <2>6. at' = at /\ UNCHANGED <<told, relay>>
      BY <1>2 DEF Tick
    <2>7. \A c \in Calls : /\ row[c].state = "none" <=> row'[c].state = "none"
                           /\ row'[c].state = "sent" => taken[c] > 0
      BY <2>3, <2>4, <2>5, <2>6 DEF Ground
    <2>8. \A e \in Drainers :
           /\ \A b \in batch'[e] : b[1] \in Calls /\ row[b[1]].state # "none"
           /\ at'[e] # None => at'[e] = at[e]
      BY <2>3, <2>4, <2>5, <2>6 DEF Ground
    <2>9. QED BY <2>3, <2>4, <2>5, <2>6, <2>7, <2>8, GroundRows
  <1>3. CASE Repost(d)
    <2>1. PICK b \in batch[d] :
            /\ batch' = [batch EXCEPT ![d] = @ \ {b}]
            /\ at' = [at EXCEPT ![d] = [call |-> b[1], attempts |-> b[2], stage |-> "posted"]]
            /\ tries' = [tries EXCEPT ![b[1]] = @ + 1]
            /\ posts' = [posts EXCEPT ![b[1]] = @ + 1]
      BY <1>3 DEF Repost
    <2>2. UNCHANGED <<told, row, taken>>
      BY <1>3 DEF Repost, sender
    <2>3. b[1] \in Calls /\ row[b[1]].state # "none" /\ told[b[1]] = "queued"
      BY <1>1 DEF Ground
    <2>4. /\ at'[d].call = b[1] /\ at'[d].stage = "posted"
          /\ \A e \in Drainers : e # d => at'[e] = at[e]
          /\ \A e \in Drainers : batch'[e] \subseteq batch[e]
      BY <2>1 DEF TypeOK
    <2>5. \A c \in Calls : /\ posts'[c] <= 1 + tries'[c]
                           /\ told'[c] = "new" => posts'[c] = 0
      BY <1>1, <2>1, <2>2, <2>3 DEF Ground, TypeOK
    <2>6. QED BY <2>2, <2>3, <2>4, <2>5 DEF Ground, Trying
  <1>4. CASE NotPosted(d)
    <2>1. PICK b \in batch[d] : /\ tries' = [tries EXCEPT ![b[1]] = @ + 1]
                                /\ Failed(d, b[1], b[2], batch[d] \ {b})
      BY <1>4 DEF NotPosted
    <2>2. UNCHANGED <<told, posts, taken>>
      BY <1>4 DEF NotPosted
    <2>3. b[1] \in Calls /\ b[2] \in Nat /\ row[b[1]].state # "none"
          /\ batch[d] \ {b} \in SUBSET (Calls \X Nat)
      BY <1>1, BatchTyped DEF Ground
    <2>4. /\ Outcome(b[1], b[2])
          /\ \A e \in Drainers : at'[e] = IF e = d THEN None ELSE at[e]
          /\ \A e \in Drainers : batch'[e] \subseteq batch[e]
      BY <2>1, <2>3, FailedIs
    <2>5. \A c \in Calls : posts'[c] <= 1 + tries'[c]
      BY <1>1, <2>1, <2>2, <2>3 DEF Ground, TypeOK
    <2>6. \A c \in Calls : /\ row[c].state = "none" <=> row'[c].state = "none"
                           /\ row'[c].state = "sent" => row[c].state = "sent"
      BY <2>3, <2>4 DEF Outcome
    <2>7. QED BY <1>1, <2>2, <2>4, <2>5, <2>6 DEF Ground, Trying
  <1>5. CASE RepostReaches(d)
    <2>1. /\ at[d] # None /\ at[d].call \in Calls /\ at[d] \in Try
          /\ at' = [at EXCEPT ![d] = [@ EXCEPT !.stage = "reached"]]
          /\ taken' = [taken EXCEPT ![at[d].call] = @ + 1]
          /\ UNCHANGED <<told, row, batch, posts, tries>>
      BY <1>1, <1>5 DEF RepostReaches, Trying, sender, TypeOK
    <2>2. /\ at'[d].call = at[d].call
          /\ \A e \in Drainers : e # d => at'[e] = at[e]
      BY <2>1 DEF TypeOK, Try
    <2>3. /\ taken'[at[d].call] > 0
          /\ \A c \in Calls : taken'[c] >= taken[c]
      BY <1>1, <2>1 DEF TypeOK
    <2>4. \A c \in Calls : taken[c] > 0 => taken'[c] > 0
      BY <1>1, <2>1 DEF TypeOK
    <2>5. QED BY <1>1, <2>1, <2>2, <2>3, <2>4 DEF Ground, Trying
  <1>6. CASE Answer(d)
    <2>1. at[d] # None /\ at[d].call \in Calls /\ at[d].attempts \in Nat
          /\ batch[d] \in SUBSET (Calls \X Nat)
      BY <1>6, AtTyped DEF Answer, Delivered, NotDelivered, Trying, TypeOK
    <2>2. row[at[d].call].state # "none"
      BY <2>1 DEF Ground
    <2>3. UNCHANGED <<told, relay>>
      BY <1>6 DEF Answer, Delivered, NotDelivered
    <2>4. CASE Delivered(d)
      <3>1. taken[at[d].call] > 0 /\ MarkSent(at[d].call)
        BY <2>4 DEF Delivered, Ground
      <3>2. /\ \A e \in Calls : e # at[d].call => row'[e] = row[e]
            /\ row'[at[d].call].state \in {"sent", "swept"}
        BY <2>1, <3>1, MarkedSent
      <3>3. \A c \in Calls : /\ row[c].state = "none" <=> row'[c].state = "none"
                             /\ row'[c].state = "sent" => taken[c] > 0
        BY <1>1, <2>1, <2>2, <2>3, <3>1, <3>2 DEF Ground
      <3>4. \A e \in Drainers :
             /\ \A b \in batch'[e] : b[1] \in Calls /\ row[b[1]].state # "none"
             /\ at'[e] # None => at'[e] = at[e]
        BY <1>1, <2>4 DEF Ground, Delivered, Tried, TypeOK
      <3>5. QED BY <2>3, <3>3, <3>4, GroundRows
    <2>5. CASE NotDelivered(d)
      <3>1. Failed(d, at[d].call, at[d].attempts, batch[d])
        BY <2>5 DEF NotDelivered
      <3>2. /\ Outcome(at[d].call, at[d].attempts)
            /\ \A e \in Drainers : at'[e] = IF e = d THEN None ELSE at[e]
            /\ \A e \in Drainers : batch'[e] \subseteq batch[e]
        BY <2>1, <3>1, FailedIs
      <3>3. \A c \in Calls : /\ row[c].state = "none" <=> row'[c].state = "none"
                             /\ row'[c].state = "sent" => taken[c] > 0
        BY <1>1, <2>1, <2>2, <3>2 DEF Ground, Outcome
      <3>4. \A e \in Drainers :
             /\ \A b \in batch'[e] : b[1] \in Calls /\ row[b[1]].state # "none"
             /\ at'[e] # None => at'[e] = at[e]
        BY <1>1, <3>2 DEF Ground
      <3>5. QED BY <2>3, <3>3, <3>4, GroundRows
    <2>6. QED BY <1>6, <2>4, <2>5 DEF Answer
  <1>7. CASE DrainEnds(d)
    <2>1. PICK old \in SUBSET {c \in Calls : Ended(c)} :
            row' = [c \in Calls |-> IF c \in old THEN [NoRow EXCEPT !.state = "swept"] ELSE row[c]]
      BY <1>7 DEF DrainEnds
    <2>2. \A c \in Calls : row'[c].state = IF c \in old THEN "swept" ELSE row[c].state
      BY <2>1 DEF NoRow
    <2>3. \A c \in old : c \in Calls /\ row[c].state \in {"sent", "dead"}
      BY DEF Ended
    <2>4. UNCHANGED <<told, relay, batch, at>>
      BY <1>7 DEF DrainEnds
    <2>5. \A c \in Calls : /\ row[c].state = "none" <=> row'[c].state = "none"
                           /\ row'[c].state = "sent" => taken[c] > 0
      BY <1>1, <2>2, <2>3, <2>4 DEF Ground
    <2>6. \A e \in Drainers :
           /\ \A b \in batch'[e] : b[1] \in Calls /\ row[b[1]].state # "none"
           /\ at'[e] # None => at'[e] = at[e]
      BY <1>1, <2>2, <2>3, <2>4 DEF Ground
    <2>7. QED BY <1>1, <2>2, <2>3, <2>4, <2>5, <2>6, GroundRows
  <1>8. CASE DrainThrows(d) \/ Reboot(d)
    <2>1. /\ UNCHANGED <<told, row, relay>>
          /\ \A e \in Drainers : batch'[e] \subseteq batch[e] /\ (at'[e] # None => at'[e] = at[e])
      BY <1>8 DEF DrainThrows, Reboot, sender, TypeOK
    <2>2. \A c \in Calls : /\ row[c].state = "none" <=> row'[c].state = "none"
                           /\ row'[c].state = "sent" => taken[c] > 0
      BY <1>1, <2>1 DEF Ground
    <2>3. \A e \in Drainers :
           /\ \A b \in batch'[e] : b[1] \in Calls /\ row[b[1]].state # "none"
           /\ at'[e] # None => at'[e] = at[e]
      BY <1>1, <2>1 DEF Ground
    <2>4. QED BY <1>1, <2>1, <2>2, <2>3, GroundRows
  <1>9. QED BY <1>2, <1>3, <1>4, <1>5, <1>6, <1>7, <1>8 DEF Drain, Begin

LEMMA GroundRest ==
    ASSUME TypeOK, Ground, TypeOK',
           \/ \E c \in Calls : BackoffPasses(c) \/ Expires(c) \/ Straggles(c)
           \/ Unlock \/ Restart
    PROVE  Ground'
  <1>1. /\ \A e \in Drainers : at[e] # None => at[e].call \in Calls
        /\ \A e \in Drainers : \A b \in batch[e] : b[1] \in Calls
        /\ \A e \in Calls : posts[e] \in Nat /\ taken[e] \in Nat /\ tries[e] \in Nat
    BY AtTyped, BatchTyped DEF TypeOK
  <1>2. ASSUME NEW c \in Calls, BackoffPasses(c) \/ Expires(c) PROVE Ground'
    <2>1. row[c] \in Row
      BY DEF TypeOK
    <2>2. /\ [row[c] EXCEPT !.due = TRUE].state = row[c].state
          /\ [row[c] EXCEPT !.late = TRUE].state = row[c].state
      BY <2>1 DEF Row
    <2>3. \A e \in Calls : row'[e].state = row[e].state
      BY <1>2, <2>2 DEF BackoffPasses, Expires, TypeOK
    <2>4. UNCHANGED <<told, relay, batch, at>>
      BY <1>2 DEF BackoffPasses, Expires, drains
    <2>5. \A e \in Calls : /\ row[e].state = "none" <=> row'[e].state = "none"
                           /\ row'[e].state = "sent" => taken[e] > 0
      BY <1>1, <2>3, <2>4 DEF Ground
    <2>6. \A e \in Drainers :
           /\ \A b \in batch'[e] : b[1] \in Calls /\ row[b[1]].state # "none"
           /\ at'[e] # None => at'[e] = at[e]
      BY <1>1, <2>3, <2>4 DEF Ground
    <2>7. QED BY <1>1, <2>3, <2>4, <2>5, <2>6, GroundRows
  <1>3. ASSUME NEW c \in Calls, Straggles(c) PROVE Ground'
    <2>1. /\ taken' = [taken EXCEPT ![c] = @ + 1]
          /\ UNCHANGED <<told, row, batch, at, posts, tries>>
      BY <1>3 DEF Straggles, sender, drains
    <2>2. \A e \in Calls : taken[e] > 0 => taken'[e] > 0
      BY <1>1, <2>1 DEF TypeOK
    <2>3. QED BY <1>1, <2>1, <2>2 DEF Ground, Trying
  <1>4. CASE Unlock
    <2>1. PICK S \in SUBSET {c \in Calls : row[c].state = "sending"} : row' = Reclaimed(S)
      BY <1>4 DEF Unlock
    <2>2. \A c \in Calls : row'[c].state = IF c \in S THEN "pending" ELSE row[c].state
      BY <2>1 DEF Reclaimed, TypeOK, Row
    <2>3. UNCHANGED <<told, relay, batch, at>>
      BY <1>4 DEF Unlock, drains
    <2>4. \A c \in Calls : /\ row[c].state = "none" <=> row'[c].state = "none"
                           /\ row'[c].state = "sent" => taken[c] > 0
      BY <1>1, <2>2, <2>3 DEF Ground
    <2>5. \A e \in Drainers :
           /\ \A b \in batch'[e] : b[1] \in Calls /\ row[b[1]].state # "none"
           /\ at'[e] # None => at'[e] = at[e]
      BY <1>1, <2>2, <2>3 DEF Ground
    <2>6. QED BY <1>1, <2>2, <2>3, <2>4, <2>5, GroundRows
  <1>5. CASE Restart
    <2>1. PICK S \in SUBSET {c \in Calls : row[c].state = "sending"} : row' = Reclaimed(S)
      BY <1>5 DEF Restart
    <2>2. \A c \in Calls : row'[c].state = IF c \in S THEN "pending" ELSE row[c].state
      BY <2>1 DEF Reclaimed, TypeOK, Row
    <2>3. \A c \in Calls :
            told'[c] = IF told[c] \in {"posting", "reached"} THEN "cut" ELSE told[c]
      BY <1>5 DEF Restart
    <2>4. /\ \A d \in Drainers : batch'[d] = {} /\ at'[d] = None
          /\ UNCHANGED relay
      BY <1>5 DEF Restart
    <2>5. QED BY <1>1, <2>2, <2>3, <2>4 DEF Ground, relay, Trying
  <1>6. QED BY <1>2, <1>3, <1>4, <1>5

LEMMA GroundStep == TypeOK /\ Ground /\ [Next]_vars => Ground'
  <1> SUFFICES ASSUME TypeOK, Ground, [Next]_vars PROVE Ground'
    OBVIOUS
  <1>1. TypeOK'
    BY TypesStep
  <1>2. CASE UNCHANGED vars
    BY <1>2 DEF vars, sender, drains, relay, Ground, Trying
  <1>3. CASE Next
    BY <1>1, <1>3, GroundCall, GroundDrain, GroundRest DEF Next
  <1>4. QED BY <1>2, <1>3

LEMMA Grounded == Spec => []Ground
  BY GroundInit, GroundStep, TypeCorrect, PTL DEF Spec

\* Whoever says that a message was sent, the call to its caller or the row to a
\* later start, says so of a message the relay took; and each copy posted
\* belongs to the call or to a counted try: two drains that ship one row tell no
\* lie about it.
SentTruly ==
  \A c \in Calls :
    /\ told[c] = "sent" \/ row[c].state = "sent" => taken[c] > 0
    /\ posts[c] <= 1 + tries[c]

\* Nothing is said to be sent that the relay did not take, on any schedule.
THEOREM SentIsTaken == Spec => []SentTruly
  <1>1. Ground => SentTruly
    BY DEF Ground, SentTruly
  <1>2. QED BY <1>1, Grounded, PTL

-----------------------------------------------------------------------------
(* The invariant *)

\* The counters of the faults only grow, and stay numbers.
LEMMA Numbers ==
    ASSUME TypeOK
    PROVE  /\ restarts \in Nat /\ MaxAttempts \in Nat
           /\ \A c \in Calls : /\ row[c].attempts \in Nat /\ row[c].attempts < MaxAttempts
                               /\ tries[c] \in Nat /\ posts[c] \in Nat /\ taken[c] \in Nat
  BY Bounds DEF TypeOK, Row

\* A step that takes rows out of hands, and writes none of those that stay and
\* were not taken from a drain.
LEMMA HandsShrink ==
    ASSUME Inv, restarts' \in Nat, restarts' >= restarts, overrun \subseteq overrun',
           \A d \in Drainers : batch'[d] \subseteq batch[d],
           \A d \in Drainers : at'[d] # None =>
             at[d] # None /\ at'[d].call = at[d].call /\ at'[d].attempts = at[d].attempts,
           \A d \in Drainers : running[d] /\ (batch'[d] # {} \/ at'[d] # None) => running'[d],
           \A c \in Calls : tries'[c] \in Nat /\ tries'[c] >= tries[c],
           \A d \in Drainers : \A b \in batch'[d] : b[1] \notin overrun' =>
             /\ row'[b[1]].state = "sending" /\ row'[b[1]].attempts = row[b[1]].attempts
             /\ tries'[b[1]] = tries[b[1]],
           \A d \in Drainers : at'[d] # None /\ at[d].call \notin overrun' =>
             /\ row'[at[d].call].state = "sending"
             /\ row'[at[d].call].attempts = row[at[d].call].attempts
    PROVE  BatchHeld' /\ AtHeld'
  <1>0. restarts \in Nat /\ \A c \in Calls : tries[c] \in Nat
    BY Numbers DEF Inv
  <1>1. BatchHeld'
    <2> SUFFICES ASSUME NEW d \in Drainers, NEW b \in batch'[d]
                 PROVE  /\ running'[d] /\ tries'[b[1]] >= b[2]
                        /\ b[1] \notin overrun' =>
                           /\ row'[b[1]].state = "sending" /\ row'[b[1]].attempts = b[2]
                           /\ tries'[b[1]] <= b[2] + restarts'
                           /\ \A e \in Drainers : \A x \in batch'[e] : x[1] = b[1] => e = d
                           /\ \A e \in Drainers : at'[e] # None => at'[e].call # b[1]
      BY DEF BatchHeld
    <2>1. b \in batch[d] /\ b[1] \in Calls /\ b[2] \in Nat
      BY BatchTyped DEF Inv
    <2>2. running'[d]
      BY <2>1 DEF Inv, BatchHeld
    <2>3. tries'[b[1]] >= b[2]
      <3>1. tries[b[1]] >= b[2]
        BY <2>1 DEF Inv, BatchHeld
      <3>2. tries'[b[1]] >= tries[b[1]] /\ tries'[b[1]] \in Nat
        BY <2>1
      <3>3. QED BY <1>0, <2>1, <3>1, <3>2
    <2>4. ASSUME b[1] \notin overrun'
          PROVE  /\ row'[b[1]].state = "sending" /\ row'[b[1]].attempts = b[2]
                 /\ tries'[b[1]] <= b[2] + restarts'
                 /\ \A e \in Drainers : \A x \in batch'[e] : x[1] = b[1] => e = d
                 /\ \A e \in Drainers : at'[e] # None => at'[e].call # b[1]
      <3>1. b[1] \notin overrun
        BY <2>4
      <3>2. /\ row[b[1]].state = "sending" /\ row[b[1]].attempts = b[2]
            /\ tries[b[1]] <= b[2] + restarts
            /\ \A e \in Drainers : \A x \in batch[e] : x[1] = b[1] => e = d
            /\ \A e \in Drainers : at[e] # None => at[e].call # b[1]
        BY <2>1, <3>1 DEF Inv, BatchHeld
      <3>3. /\ row'[b[1]].state = "sending" /\ row'[b[1]].attempts = b[2]
            /\ tries'[b[1]] = tries[b[1]]
        BY <2>4, <3>2
      <3>4. tries'[b[1]] <= b[2] + restarts'
        BY <1>0, <2>1, <3>2, <3>3
      <3>5. \A e \in Drainers : \A x \in batch'[e] : x[1] = b[1] => e = d
        BY <3>2
      <3>6. \A e \in Drainers : at'[e] # None => at'[e].call # b[1]
        BY <3>2
      <3>7. QED BY <3>3, <3>4, <3>5, <3>6
    <2> QED BY <2>2, <2>3, <2>4
  <1>2. AtHeld'
    <2> SUFFICES ASSUME NEW d \in Drainers, at'[d] # None
                 PROVE  /\ running'[d] /\ tries'[at'[d].call] >= at'[d].attempts + 1
                        /\ at'[d].call \notin overrun' =>
                           /\ row'[at'[d].call].state = "sending"
                           /\ row'[at'[d].call].attempts = at'[d].attempts
                           /\ \A e \in Drainers : at'[e] # None /\ at'[e].call = at'[d].call => e = d
      BY DEF AtHeld
    <2>1. /\ at[d] # None /\ at'[d].call = at[d].call /\ at'[d].attempts = at[d].attempts
          /\ at[d].call \in Calls /\ at[d].attempts \in Nat
      BY AtTyped DEF Inv
    <2>2. running'[d]
      BY <2>1 DEF Inv, AtHeld
    <2>3. tries'[at'[d].call] >= at'[d].attempts + 1
      <3>1. tries[at[d].call] >= at[d].attempts + 1
        BY <2>1 DEF Inv, AtHeld
      <3>2. tries'[at[d].call] >= tries[at[d].call] /\ tries'[at[d].call] \in Nat
        BY <2>1
      <3>3. QED BY <1>0, <2>1, <3>1, <3>2
    <2>4. ASSUME at'[d].call \notin overrun'
          PROVE  /\ row'[at'[d].call].state = "sending"
                 /\ row'[at'[d].call].attempts = at'[d].attempts
                 /\ \A e \in Drainers : at'[e] # None /\ at'[e].call = at'[d].call => e = d
      <3>1. at[d].call \notin overrun
        BY <2>1, <2>4
      <3>2. /\ row[at[d].call].attempts = at[d].attempts
            /\ \A e \in Drainers : at[e] # None /\ at[e].call = at[d].call => e = d
        BY <2>1, <3>1 DEF Inv, AtHeld
      <3>3. QED BY <2>1, <2>4, <3>2
    <2> QED BY <2>2, <2>3, <2>4
  <1>3. QED BY <1>1, <1>2

\* A step that leaves the hands, the tries and the rows being sent alone.
LEMMA HandsFrame ==
    ASSUME Inv, UNCHANGED <<batch, at, tries, restarts, overrun>>,
           \A d \in Drainers : running[d] /\ (batch[d] # {} \/ at[d] # None) => running'[d],
           \A c \in Calls : row[c].state = "sending" =>
             row'[c].state = "sending" /\ row'[c].attempts = row[c].attempts
    PROVE  BatchHeld' /\ AtHeld'
  <1>1. restarts' \in Nat /\ restarts' >= restarts /\ \A c \in Calls : tries'[c] \in Nat /\ tries'[c] >= tries[c]
    BY Numbers DEF Inv
  <1>2. \A d \in Drainers : \A b \in batch'[d] : b[1] \notin overrun' =>
           /\ row'[b[1]].state = "sending" /\ row'[b[1]].attempts = row[b[1]].attempts
           /\ tries'[b[1]] = tries[b[1]]
    BY BatchTyped DEF Inv, BatchHeld
  <1>3. \A d \in Drainers : at'[d] # None /\ at[d].call \notin overrun' =>
           /\ row'[at[d].call].state = "sending"
           /\ row'[at[d].call].attempts = row[at[d].call].attempts
    BY AtTyped DEF Inv, AtHeld
  <1>4. QED BY <1>1, <1>2, <1>3, HandsShrink

\* The call: its row is written only while it has none.
LEMMA CallInv ==
    ASSUME Inv, NEW c \in Calls, Send(c) \/ Reach(c) \/ Sent(c) \/ NotSent(c)
    PROVE  Inv'
  <1>1. TypeOK'
    BY CallTypes DEF Inv
  <1>2. UNCHANGED <<batch, at, running, tries, restarts, overrun>>
    BY DEF Send, Reach, Sent, NotSent, drains, relay, faults
  <1> DEFINE queued == [NoRow EXCEPT !.state = "pending", !.due = TRUE]
  <1>3. queued.state = "pending" /\ queued.attempts = 0
    BY DEF NoRow
  <1>4. row' = row \/ (told[c] \in {"posting", "reached"} /\ told'[c] = "queued"
                       /\ row' = [row EXCEPT ![c] = queued])
    <2>1. told \in [Calls -> {"new", "posting", "reached", "sent", "queued", "lost", "cut"}]
      BY DEF Inv, TypeOK
    <2>2. QED BY <2>1 DEF Send, Reach, Sent, NotSent, sender
  <1> HIDE DEF queued
  <1>5. \A e \in Calls : row'[e] = row[e] \/ (e = c /\ row[c].state = "none" /\ tries[c] = 0
                                              /\ row'[c].state = "pending" /\ row'[c].attempts = 0
                                              /\ told'[c] = "queued")
    BY <1>3, <1>4 DEF Inv, TypeOK, RowsFollow
  <1>6. BatchHeld' /\ AtHeld'
    <2>1. \A e \in Calls : row[e].state = "sending" => row'[e] = row[e]
      BY <1>5
    <2>2. QED BY <1>2, <2>1, HandsFrame
  <1>7. \A e \in Calls : e # c => told'[e] = told[e] /\ posts'[e] = posts[e] /\ taken'[e] = taken[e]
    BY DEF Send, Reach, Sent, NotSent, relay, Inv, TypeOK
  <1>8. \/ told[c] = "new" /\ told'[c] = "posting" /\ posts'[c] = 1 /\ taken'[c] = taken[c]
        \/ told[c] = "posting" /\ told'[c] = "reached" /\ posts'[c] = posts[c] /\ taken'[c] > 0
        \/ told'[c] \in {"sent", "queued", "lost"} /\ posts'[c] = posts[c] /\ taken'[c] = taken[c]
    <2>1. posts[c] \in Nat /\ taken[c] \in Nat
      BY Numbers DEF Inv
    <2>2. CASE Send(c)
      BY <2>1, <2>2 DEF Send, Inv, TypeOK, RowsFollow
    <2>3. CASE Reach(c)
      BY <2>1, <2>3 DEF Reach, Inv, TypeOK
    <2>4. CASE Sent(c) \/ NotSent(c)
      BY <2>4 DEF Sent, NotSent, relay, Inv, TypeOK
    <2>5. QED BY <2>2, <2>3, <2>4
  <1>9. RowsFollow'
    <2>1. \A e \in Calls : tries'[e] = tries[e]
      BY <1>2
    <2>2. \A e \in Calls : e # c => row'[e] = row[e]
      BY <1>5
    <2>3. told[c] = "new" \/ told[c] = "posting" => row[c].state = "none"
      BY DEF Inv, RowsFollow
    <2>4. row'[c] = row[c] \/ (told'[c] = "queued" /\ row'[c].state = "pending")
      BY <1>5
    <2>5. QED BY <1>7, <1>8, <2>1, <2>2, <2>3, <2>4 DEF Inv, RowsFollow
  <1>10. Counted'
    <2>1. \A e \in Calls : row[e].attempts \in Nat /\ tries[e] \in Nat /\ posts[e] \in Nat
                           /\ restarts \in Nat /\ MaxAttempts \in Nat
      BY Numbers DEF Inv
    <2>2. \A e \in Calls : posts'[e] <= 1 + tries[e]
      BY <1>7, <1>8, <2>1 DEF Inv, Counted
    <2>3. \A e \in Calls :
            /\ tries[e] >= row'[e].attempts
            /\ e \notin overrun =>
               /\ row'[e].state \in {"pending", "failed"} => tries[e] <= row'[e].attempts + restarts
               /\ row'[e].state = "sending" => tries[e] <= row'[e].attempts + 1 + restarts
               /\ tries[e] <= MaxAttempts + restarts
      BY <1>5, <2>1 DEF Inv, Counted
    <2>4. QED BY <1>2, <2>2, <2>3 DEF Counted
  <1>11. Arrived'
    BY <1>2, <1>7, <1>8, AtTyped DEF Inv, Arrived
  <1>12. QED BY <1>1, <1>6, <1>9, <1>10, <1>11 DEF Inv

\* Time and the network: no state of a row changes but a backoff's end.
LEMMA TimeInv ==
    ASSUME Inv, NEW c \in Calls, BackoffPasses(c) \/ Expires(c) \/ Straggles(c)
    PROVE  Inv'
  <1>1. TypeOK'
    BY TimeTypes DEF Inv
  <1>2. UNCHANGED <<told, batch, at, running, tries, posts, restarts, overrun>>
    BY DEF BackoffPasses, Expires, Straggles, sender, drains, relay, faults
  <1>3. \A e \in Calls : row'[e].state = row[e].state /\ row'[e].attempts = row[e].attempts
    <2>1. row \in [Calls -> Row]
      BY DEF Inv, TypeOK
    <2>2. [row[c] EXCEPT !.due = TRUE].state = row[c].state
          /\ [row[c] EXCEPT !.due = TRUE].attempts = row[c].attempts
          /\ [row[c] EXCEPT !.late = TRUE].state = row[c].state
          /\ [row[c] EXCEPT !.late = TRUE].attempts = row[c].attempts
      BY <2>1 DEF Row
    <2>3. CASE BackoffPasses(c)
      BY <2>1, <2>2, <2>3 DEF BackoffPasses
    <2>4. CASE Expires(c)
      BY <2>1, <2>2, <2>4 DEF Expires
    <2>5. CASE Straggles(c)
      BY <2>5 DEF Straggles, sender
    <2>6. QED BY <2>3, <2>4, <2>5
  <1>4. \A e \in Calls : taken'[e] >= taken[e] /\ taken'[e] \in Nat /\ taken[e] \in Nat
    <2>1. \A e \in Calls : taken[e] \in Nat
      BY Numbers DEF Inv
    <2>2. taken' = taken \/ taken' = [taken EXCEPT ![c] = @ + 1]
      BY DEF BackoffPasses, Expires, Straggles, relay
    <2>3. QED BY <2>1, <2>2 DEF Inv, TypeOK
  <1>5. BatchHeld' /\ AtHeld'
    BY <1>2, <1>3, HandsFrame
  <1>6. RowsFollow' /\ Counted'
    BY <1>2, <1>3 DEF Inv, RowsFollow, Counted
  <1>7. Arrived'
    <2>1. \A e \in Calls : taken[e] > 0 => taken'[e] > 0
      BY <1>4
    <2>2. QED BY <1>2, <2>1, AtTyped DEF Inv, Arrived
  <1>8. QED BY <1>1, <1>5, <1>6, <1>7 DEF Inv

\* Two rows of one batch, and a row of a batch and the row being tried, differ.
LEMMA HandsDiffer ==
    ASSUME Inv, NEW d \in Drainers, NEW b \in batch[d], b[1] \notin overrun
    PROVE  /\ \A e \in Drainers : \A x \in batch[e] : x # b => x[1] # b[1]
           /\ \A e \in Drainers : at[e] # None => at[e].call # b[1]
  <1>2. ASSUME NEW e \in Drainers, NEW x \in batch[e], x # b, x[1] = b[1] PROVE FALSE
    <2>1. e = d
      BY <1>2 DEF Inv, BatchHeld
    <2>2. x[2] = row[x[1]].attempts /\ b[2] = row[b[1]].attempts
      BY <1>2 DEF Inv, BatchHeld
    <2>3. x = <<x[1], x[2]>> /\ b = <<b[1], b[2]>>
      BY BatchTyped DEF Inv
    <2>4. QED BY <1>2, <2>2, <2>3
  <1>3. QED BY <1>2 DEF Inv, BatchHeld

\* The arithmetic of a row, apart from the rest of the state.
CountsOK(s, n, t, p, r, lost) ==
  /\ p <= 1 + t /\ t >= n
  /\ ~lost =>
       /\ s \in {"pending", "failed"} => t <= n + r
       /\ s = "sending" => t <= n + 1 + r
       /\ t <= MaxAttempts + r

LEMMA CountedIs ==
  Counted <=> \A c \in Calls :
                CountsOK(row[c].state, row[c].attempts, tries[c], posts[c], restarts, c \in overrun)
  BY DEF Counted, CountsOK

LEMMA TickInv ==
    ASSUME Inv, NEW d \in Drainers, Tick(d)
    PROVE  Inv'
  <1> PICK S \in Claims :
        row' = Claimed(S) /\ batch' = [batch EXCEPT ![d] = {<<c, row[c].attempts>> : c \in S}]
    BY DEF Tick
  <1> DEFINE claimed == {<<c, row[c].attempts>> : c \in S}
  <1>1. TypeOK'
    BY DrainTypes DEF Drain, Inv
  <1>2. UNCHANGED <<told, at, posts, taken, tries, restarts, overrun>>
    BY DEF Tick, relay, faults
  <1>3. S \subseteq Calls /\ \A c \in S : row[c].state \in {"pending", "failed"}
    BY DEF Claims, Due
  <1>4. batch' = [batch EXCEPT ![d] = claimed]
    OBVIOUS
  <1>5. \A c \in Calls : row'[c].attempts = row[c].attempts
                         /\ row'[c].state = IF c \in S THEN "sending" ELSE row[c].state
    BY DEF Claimed, Inv, TypeOK, Row
  <1>6. \A b \in claimed : b[1] \in S /\ b[2] = row[b[1]].attempts
    OBVIOUS
  <1>7. \A e \in Drainers : batch'[e] = IF e = d THEN claimed ELSE batch[e]
    BY <1>4 DEF Inv, TypeOK
  <1>8. \A e \in Drainers : running'[e] = (e = d \/ running[e])
    BY DEF Tick, Inv, TypeOK
  <1> HIDE DEF claimed
  <1>9. \A e \in Drainers : \A b \in batch[e] : b[1] \in Calls /\ (b[1] \notin overrun => b[1] \notin S)
    BY <1>3, BatchTyped DEF Inv, BatchHeld
  <1>10. \A e \in Drainers : at[e] # None =>
            at[e].call \in Calls /\ (at[e].call \notin overrun => at[e].call \notin S)
    BY <1>3, AtTyped DEF Inv, AtHeld
  <1>11. BatchHeld'
    <2> SUFFICES ASSUME NEW e \in Drainers, NEW b \in batch'[e]
                 PROVE  /\ running'[e] /\ tries[b[1]] >= b[2]
                        /\ b[1] \notin overrun =>
                           /\ row'[b[1]].state = "sending" /\ row'[b[1]].attempts = b[2]
                           /\ tries[b[1]] <= b[2] + restarts
                           /\ \A f \in Drainers : \A x \in batch'[f] : x[1] = b[1] => f = e
                           /\ \A f \in Drainers : at[f] # None => at[f].call # b[1]
      BY <1>2 DEF BatchHeld
    <2>1. CASE e = d
      <3>1. b \in claimed /\ b[1] \in S /\ b[2] = row[b[1]].attempts
        BY <2>1, <1>6, <1>7
      <3>2. running'[e] /\ row'[b[1]].state = "sending" /\ row'[b[1]].attempts = b[2]
        BY <3>1, <2>1, <1>3, <1>5, <1>8
      <3>3. tries[b[1]] >= b[2] /\ (b[1] \notin overrun => tries[b[1]] <= b[2] + restarts)
        BY <3>1, <1>3 DEF Inv, Counted
      <3>4. ASSUME b[1] \notin overrun, NEW f \in Drainers, NEW x \in batch'[f], x[1] = b[1] PROVE f = e
        BY <3>1, <3>4, <2>1, <1>7, <1>9
      <3>5. b[1] \notin overrun => \A f \in Drainers : at[f] # None => at[f].call # b[1]
        BY <3>1, <1>10
      <3> QED BY <3>2, <3>3, <3>4, <3>5
    <2>2. CASE e # d
      <3>1. b \in batch[e] /\ b[1] \in Calls /\ (b[1] \notin overrun => b[1] \notin S)
        BY <2>2, <1>7, <1>9
      <3>2. running'[e] /\ tries[b[1]] >= b[2]
        BY <3>1, <1>8 DEF Inv, BatchHeld
      <3> SUFFICES ASSUME b[1] \notin overrun
                   PROVE  /\ row'[b[1]].state = "sending" /\ row'[b[1]].attempts = b[2]
                          /\ tries[b[1]] <= b[2] + restarts
                          /\ \A f \in Drainers : \A x \in batch'[f] : x[1] = b[1] => f = e
                          /\ \A f \in Drainers : at[f] # None => at[f].call # b[1]
        BY <3>2
      <3>3. row'[b[1]].state = "sending" /\ row'[b[1]].attempts = b[2]
        <4>1. row[b[1]].state = "sending" /\ row[b[1]].attempts = b[2]
          BY <3>1 DEF Inv, BatchHeld
        <4>2. b[1] \notin S
          BY <3>1
        <4>3. row'[b[1]].state = "sending" /\ row'[b[1]].attempts = b[2]
          BY ONLY <4>1, <4>2, <3>1, <1>5
        <4> QED BY <4>3
      <3>4. tries[b[1]] <= b[2] + restarts
        BY <3>1 DEF Inv, BatchHeld
      <3>5. \A f \in Drainers : \A x \in batch'[f] : x[1] = b[1] => f = e
        <4> SUFFICES ASSUME NEW f \in Drainers, NEW x \in batch'[f], x[1] = b[1] PROVE f = e
          OBVIOUS
        <4>1. f # d
          BY <3>1, <1>6, <1>7
        <4> QED BY <4>1, <3>1, <1>7 DEF Inv, BatchHeld
      <3>6. \A f \in Drainers : at[f] # None => at[f].call # b[1]
        BY <3>1 DEF Inv, BatchHeld
      <3> QED BY <3>3, <3>4, <3>5, <3>6
    <2> QED BY <2>1, <2>2
  <1>12. AtHeld'
    <2> SUFFICES ASSUME NEW e \in Drainers, at[e] # None
                 PROVE  /\ running'[e] /\ tries[at[e].call] >= at[e].attempts + 1
                        /\ at[e].call \notin overrun =>
                           /\ row'[at[e].call].state = "sending"
                           /\ row'[at[e].call].attempts = at[e].attempts
                           /\ \A f \in Drainers : at[f] # None /\ at[f].call = at[e].call => f = e
      BY <1>2 DEF AtHeld
    <2>1. /\ running[e] /\ tries[at[e].call] >= at[e].attempts + 1
          /\ at[e].call \notin overrun =>
             /\ row[at[e].call].state = "sending"
             /\ row[at[e].call].attempts = at[e].attempts
             /\ \A f \in Drainers : at[f] # None /\ at[f].call = at[e].call => f = e
      BY DEF Inv, AtHeld
    <2>2. at[e].call \in Calls /\ (at[e].call \notin overrun => at[e].call \notin S)
      BY <1>10
    <2>3. at[e].call \notin overrun =>
             /\ row'[at[e].call].state = "sending"
             /\ row'[at[e].call].attempts = at[e].attempts
      BY ONLY <1>5, <2>1, <2>2
    <2>4. running'[e]
      BY <1>8, <2>1
    <2> QED BY <2>1, <2>3, <2>4
  <1>13. RowsFollow'
    BY <1>2, <1>3, <1>5 DEF Inv, RowsFollow
  <1>14. Counted'
    <2> SUFFICES ASSUME NEW c \in Calls
                 PROVE  CountsOK(row'[c].state, row'[c].attempts, tries[c], posts[c], restarts, c \in overrun)
      BY <1>2 DEF Counted, CountsOK
    <2>0. CountsOK(row[c].state, row[c].attempts, tries[c], posts[c], restarts, c \in overrun)
      BY CountedIs DEF Inv
    <2>1. row[c].attempts \in Nat /\ tries[c] \in Nat /\ restarts \in Nat
      BY Numbers DEF Inv
    <2>3. row'[c].attempts = row[c].attempts
          /\ row'[c].state = IF c \in S THEN "sending" ELSE row[c].state
      BY <1>5
    <2> QED BY <1>3, <2>0, <2>1, <2>3 DEF CountsOK
  <1>15. Arrived'
    BY <1>2 DEF Inv, Arrived
  <1>16. QED BY <1>1, <1>11, <1>12, <1>13, <1>14, <1>15 DEF Inv

LEMMA RepostInv ==
    ASSUME Inv, Ground, NEW d \in Drainers, Repost(d)
    PROVE  Inv'
  <1> PICK b \in batch[d] :
        /\ batch' = [batch EXCEPT ![d] = @ \ {b}]
        /\ at' = [at EXCEPT ![d] = [call |-> b[1], attempts |-> b[2], stage |-> "posted"]]
        /\ tries' = [tries EXCEPT ![b[1]] = @ + 1]
        /\ posts' = [posts EXCEPT ![b[1]] = @ + 1]
    BY DEF Repost
  <1>1. TypeOK'
    BY DrainTypes DEF Drain, Begin, Inv
  <1>2. at[d] = None /\ UNCHANGED <<told, row, running, taken, restarts, overrun>>
    BY DEF Repost, sender, faults
  <1>3. /\ b[1] \in Calls /\ b[2] \in Nat
        /\ b[1] \notin overrun =>
           /\ \A e \in Drainers : \A x \in batch[e] : x # b => x[1] # b[1]
           /\ \A e \in Drainers : at[e] # None => at[e].call # b[1]
    BY HandsDiffer, BatchTyped DEF Inv
  <1>4. /\ running[d] /\ tries[b[1]] >= b[2]
        /\ b[1] \notin overrun =>
           /\ row[b[1]].state = "sending" /\ row[b[1]].attempts = b[2]
           /\ tries[b[1]] <= b[2] + restarts
    BY DEF Inv, BatchHeld
  <1> DEFINE taking == [call |-> b[1], attempts |-> b[2], stage |-> "posted"]
  <1>5. taking # None /\ taking.call = b[1] /\ taking.attempts = b[2] /\ taking.stage = "posted"
    BY <1>3, OutboxConstants DEF Try
  <1>6. \A e \in Drainers : at'[e] = IF e = d THEN taking ELSE at[e]
    BY DEF Inv, TypeOK
  <1> HIDE DEF taking
  <1>7. \A e \in Drainers : batch'[e] = IF e = d THEN batch[d] \ {b} ELSE batch[e]
    BY DEF Inv, TypeOK
  <1>8. \A c \in Calls : tries[c] \in Nat /\ posts[c] \in Nat /\ row[c].attempts \in Nat
                         /\ row[c].attempts < MaxAttempts /\ restarts \in Nat /\ MaxAttempts \in Nat
    BY Numbers DEF Inv
  <1>9. \A c \in Calls : /\ tries'[c] = IF c = b[1] THEN tries[c] + 1 ELSE tries[c]
                         /\ posts'[c] = IF c = b[1] THEN posts[c] + 1 ELSE posts[c]
    BY DEF Inv, TypeOK
  <1>10. \A e \in Drainers : \A x \in batch'[e] :
            x \in batch[e] /\ x[1] \in Calls /\ x[2] \in Nat /\ (x[1] \notin overrun => x[1] # b[1])
    <2> SUFFICES ASSUME NEW e \in Drainers, NEW x \in batch'[e]
                 PROVE  x \in batch[e] /\ x[1] \in Calls /\ x[2] \in Nat /\ (x[1] \notin overrun => x[1] # b[1])
      OBVIOUS
    <2>1. x \in batch[e] /\ x[1] \in Calls /\ x[2] \in Nat
      BY <1>7, BatchTyped DEF Inv
    <2>2. ASSUME x[1] \notin overrun, x[1] = b[1] PROVE FALSE
      <3>1. x = b
        BY <2>1, <2>2, <1>3
      <3>2. CASE e = d
        BY <3>1, <3>2, <1>7
      <3>3. CASE e # d
        BY <3>1, <3>3, <2>1, <2>2 DEF Inv, BatchHeld
      <3> QED BY <3>2, <3>3
    <2> QED BY <2>1, <2>2
  <1>11. BatchHeld'
    <2> SUFFICES ASSUME NEW e \in Drainers, NEW x \in batch'[e]
                 PROVE  /\ running[e] /\ tries'[x[1]] >= x[2]
                        /\ x[1] \notin overrun =>
                           /\ row[x[1]].state = "sending" /\ row[x[1]].attempts = x[2]
                           /\ tries'[x[1]] <= x[2] + restarts
                           /\ \A f \in Drainers : \A y \in batch'[f] : y[1] = x[1] => f = e
                           /\ \A f \in Drainers : at'[f] # None => at'[f].call # x[1]
      BY <1>2 DEF BatchHeld
    <2>1. x \in batch[e] /\ x[1] \in Calls /\ x[2] \in Nat
      BY <1>10
    <2>2. running[e] /\ tries[x[1]] >= x[2]
      BY <2>1 DEF Inv, BatchHeld
    <2>3. tries'[x[1]] >= x[2]
      BY <2>1, <2>2, <1>8, <1>9
    <2>4. ASSUME x[1] \notin overrun
          PROVE  /\ row[x[1]].state = "sending" /\ row[x[1]].attempts = x[2]
                 /\ tries'[x[1]] <= x[2] + restarts
                 /\ \A f \in Drainers : \A y \in batch'[f] : y[1] = x[1] => f = e
                 /\ \A f \in Drainers : at'[f] # None => at'[f].call # x[1]
      <3>1. x[1] # b[1] /\ tries'[x[1]] = tries[x[1]]
        BY <2>1, <2>4, <1>9, <1>10
      <3>2. \A f \in Drainers : \A y \in batch'[f] : y[1] = x[1] => f = e
        BY <2>1, <2>4, <1>10 DEF Inv, BatchHeld
      <3>3. \A f \in Drainers : at'[f] # None => at'[f].call # x[1]
        BY <2>1, <2>4, <3>1, <1>5, <1>6 DEF Inv, BatchHeld
      <3> QED BY <2>1, <2>4, <3>1, <3>2, <3>3 DEF Inv, BatchHeld
    <2> QED BY <2>2, <2>3, <2>4
  <1>12. AtHeld'
    <2> SUFFICES ASSUME NEW e \in Drainers, at'[e] # None
                 PROVE  /\ running[e] /\ tries'[at'[e].call] >= at'[e].attempts + 1
                        /\ at'[e].call \notin overrun =>
                           /\ row[at'[e].call].state = "sending" /\ row[at'[e].call].attempts = at'[e].attempts
                           /\ \A f \in Drainers : at'[f] # None /\ at'[f].call = at'[e].call => f = e
      BY <1>2 DEF AtHeld
    <2>1. CASE e = d
      <3>1. tries'[b[1]] = tries[b[1]] + 1 /\ tries[b[1]] >= b[2]
        BY <1>3, <1>4, <1>9
      <3>2. tries'[b[1]] >= b[2] + 1
        BY <3>1, <1>3, <1>8
      <3> QED BY <2>1, <3>2, <1>3, <1>4, <1>5, <1>6
    <2>2. CASE e # d
      <3>1. at[e] # None /\ at'[e] = at[e] /\ at[e].call \in Calls /\ at[e].attempts \in Nat
        BY <2>2, <1>6, AtTyped DEF Inv
      <3>2. running[e] /\ tries[at[e].call] >= at[e].attempts + 1
        BY <3>1 DEF Inv, AtHeld
      <3>3. tries'[at[e].call] >= at[e].attempts + 1
        BY <3>1, <3>2, <1>8, <1>9
      <3>4. ASSUME at[e].call \notin overrun
            PROVE  /\ row[at[e].call].state = "sending" /\ row[at[e].call].attempts = at[e].attempts
                   /\ \A f \in Drainers : at'[f] # None /\ at'[f].call = at[e].call => f = e
        <4>1. /\ row[at[e].call].state = "sending" /\ row[at[e].call].attempts = at[e].attempts
              /\ \A f \in Drainers : at[f] # None /\ at[f].call = at[e].call => f = e
          BY <3>1, <3>4 DEF Inv, AtHeld
        <4>2. at[e].call # b[1]
          BY <3>1, <3>4, <1>3
        <4> QED BY <4>1, <4>2, <1>5, <1>6
      <3> QED BY <3>1, <3>2, <3>3, <3>4
    <2> QED BY <2>1, <2>2
  <1>13. RowsFollow'
    BY <1>2, <1>3, <1>9 DEF Inv, RowsFollow, Ground
  <1>14. Counted'
    <2> SUFFICES ASSUME NEW c \in Calls
                 PROVE  CountsOK(row[c].state, row[c].attempts, tries'[c], posts'[c], restarts, c \in overrun)
      BY <1>2 DEF Counted, CountsOK
    <2>1. CountsOK(row[c].state, row[c].attempts, tries[c], posts[c], restarts, c \in overrun)
      BY CountedIs DEF Inv
    <2>2. CASE c # b[1]
      BY <2>1, <2>2, <1>9
    <2>3. CASE c = b[1]
      BY <2>1, <2>3, <1>3, <1>4, <1>8, <1>9 DEF CountsOK
    <2> QED BY <2>2, <2>3
  <1>15. Arrived'
    BY <1>2, <1>5, <1>6 DEF Inv, Arrived
  <1>16. QED BY <1>1, <1>11, <1>12, <1>13, <1>14, <1>15 DEF Inv

LEMMA NotPostedInv ==
    ASSUME Inv, Ground, NEW d \in Drainers, NotPosted(d)
    PROVE  Inv'
  <1> PICK b \in batch[d] :
        /\ tries' = [tries EXCEPT ![b[1]] = @ + 1]
        /\ Failed(d, b[1], b[2], batch[d] \ {b})
    BY DEF NotPosted
  <1>1. TypeOK'
    BY DrainTypes DEF Drain, Begin, Inv
  <1>2. UNCHANGED <<told, posts, taken, restarts, overrun>> /\ at[d] = None
    BY DEF NotPosted, faults
  <1>3. /\ b[1] \in Calls /\ b[2] \in Nat /\ batch[d] \ {b} \in SUBSET (Calls \X Nat)
        /\ b[1] \notin overrun =>
           /\ \A e \in Drainers : \A x \in batch[e] : x # b => x[1] # b[1]
           /\ \A e \in Drainers : at[e] # None => at[e].call # b[1]
    BY HandsDiffer, BatchTyped DEF Inv
  <1>4. /\ tries[b[1]] >= b[2] /\ row[b[1]].state # "none"
        /\ b[1] \notin overrun =>
           /\ row[b[1]].state = "sending" /\ row[b[1]].attempts = b[2]
           /\ tries[b[1]] <= b[2] + restarts
    BY DEF Inv, BatchHeld, Ground
  <1>5. /\ Outcome(b[1], b[2])
        /\ \A e \in Drainers : at'[e] = IF e = d THEN None ELSE at[e]
        /\ \A e \in Drainers : e # d => batch'[e] = batch[e] /\ running'[e] = running[e]
        /\ batch'[d] \subseteq batch[d] \ {b} /\ (batch'[d] # {} => running'[d] = running[d])
    BY <1>3, FailedIs DEF Inv
  <1>7. \A c \in Calls : tries[c] \in Nat /\ posts[c] \in Nat /\ row[c].attempts \in Nat
                         /\ row[c].attempts < MaxAttempts /\ restarts \in Nat /\ MaxAttempts \in Nat
    BY Numbers DEF Inv
  <1>8. \A c \in Calls : tries'[c] = IF c = b[1] THEN tries[c] + 1 ELSE tries[c]
    BY DEF Inv, TypeOK
  <1>9. \A e \in Drainers : \A x \in batch'[e] :
           x \in batch[e] /\ x[1] \in Calls /\ (x[1] \notin overrun => x[1] # b[1])
    <2> SUFFICES ASSUME NEW e \in Drainers, NEW x \in batch'[e]
                 PROVE  x \in batch[e] /\ x[1] \in Calls /\ (x[1] \notin overrun => x[1] # b[1])
      OBVIOUS
    <2>1. x \in batch[e] /\ x[1] \in Calls
      BY <1>5, BatchTyped DEF Inv
    <2>2. ASSUME x[1] \notin overrun, x[1] = b[1] PROVE FALSE
      <3>1. x = b
        BY <2>1, <2>2, <1>3
      <3>2. CASE e = d
        BY <3>1, <3>2, <1>5
      <3>3. CASE e # d
        BY <3>1, <3>3, <2>1, <2>2 DEF Inv, BatchHeld
      <3> QED BY <3>2, <3>3
    <2> QED BY <2>1, <2>2
  <1>10. BatchHeld' /\ AtHeld'
    <2>1. \A e \in Drainers : \A x \in batch'[e] : x[1] \notin overrun' =>
            /\ row'[x[1]].state = "sending" /\ row'[x[1]].attempts = row[x[1]].attempts
            /\ tries'[x[1]] = tries[x[1]]
      BY <1>2, <1>5, <1>8, <1>9 DEF Inv, BatchHeld, Outcome
    <2>2. \A e \in Drainers : at'[e] # None /\ at[e].call \notin overrun' =>
            /\ row'[at[e].call].state = "sending"
            /\ row'[at[e].call].attempts = row[at[e].call].attempts
      BY <1>2, <1>3, <1>5, AtTyped DEF Inv, AtHeld, Outcome
    <2>3. \A e \in Drainers : batch'[e] \subseteq batch[e]
      BY <1>9
    <2>4. \A c \in Calls : tries'[c] \in Nat /\ tries'[c] >= tries[c]
      BY <1>7, <1>8
    <2>5. restarts' \in Nat /\ restarts' >= restarts /\ overrun \subseteq overrun'
      BY <1>2, <1>3, <1>7
    <2>6. \A e \in Drainers : /\ at'[e] # None => at[e] # None /\ at'[e] = at[e]
                              /\ running[e] /\ (batch'[e] # {} \/ at'[e] # None) => running'[e]
      BY <1>5
    <2>7. QED BY <2>1, <2>2, <2>3, <2>4, <2>5, <2>6, HandsShrink
  <1>11. RowsFollow'
    BY <1>2, <1>3, <1>4, <1>5, <1>8 DEF Inv, RowsFollow, Outcome
  <1>12. Counted'
    <2> SUFFICES ASSUME NEW c \in Calls
                 PROVE  CountsOK(row'[c].state, row'[c].attempts, tries'[c], posts[c], restarts, c \in overrun)
      BY <1>2 DEF Counted, CountsOK
    <2>1. CountsOK(row[c].state, row[c].attempts, tries[c], posts[c], restarts, c \in overrun)
      BY CountedIs DEF Inv
    <2>2. CASE c # b[1]
      BY <2>1, <2>2, <1>5, <1>8 DEF Outcome
    <2>3. CASE c = b[1]
      BY <2>1, <2>3, <1>3, <1>4, <1>5, <1>7, <1>8 DEF CountsOK, Outcome
    <2> QED BY <2>2, <2>3
  <1>13. Arrived'
    BY <1>2, <1>5 DEF Inv, Arrived
  <1>14. QED BY <1>1, <1>10, <1>11, <1>12, <1>13 DEF Inv

LEMMA RepostReachesInv ==
    ASSUME Inv, NEW d \in Drainers, RepostReaches(d)
    PROVE  Inv'
  <1>1. TypeOK'
    BY DrainTypes DEF Drain, Inv
  <1>2. UNCHANGED <<told, row, running, batch, posts, tries, restarts, overrun>> /\ at[d] # None
    BY DEF RepostReaches, Trying, sender, faults
  <1>3. at[d] \in Try /\ at[d].call \in Calls
    BY <1>2, AtTyped DEF Inv, TypeOK
  <1> DEFINE reached == [at[d] EXCEPT !.stage = "reached"]
  <1>4. reached.call = at[d].call /\ reached.attempts = at[d].attempts /\ reached.stage = "reached"
    BY <1>3 DEF Try
  <1>5. \A e \in Drainers : at'[e] = IF e = d THEN reached ELSE at[e]
    BY DEF RepostReaches, Inv, TypeOK
  <1> HIDE DEF reached
  <1>6. \A c \in Calls : taken'[c] = IF c = at[d].call THEN taken[c] + 1 ELSE taken[c]
    BY <1>3 DEF RepostReaches, Inv, TypeOK
  <1>7. BatchHeld' /\ AtHeld'
    <2>1. \A e \in Drainers : at'[e] # None =>
            at[e] # None /\ at'[e].call = at[e].call /\ at'[e].attempts = at[e].attempts
      BY <1>2, <1>4, <1>5
    <2>2. \A e \in Drainers : \A b \in batch'[e] : b[1] \notin overrun' => row'[b[1]].state = "sending"
      BY <1>2 DEF Inv, BatchHeld
    <2>3. \A e \in Drainers : at'[e] # None /\ at[e].call \notin overrun' => row'[at[e].call].state = "sending"
      BY <1>2, <2>1 DEF Inv, AtHeld
    <2>4. restarts' \in Nat /\ restarts' >= restarts /\ \A c \in Calls : tries'[c] \in Nat /\ tries'[c] >= tries[c]
      BY <1>2, Numbers DEF Inv
    <2>5. QED BY <1>2, <2>1, <2>2, <2>3, <2>4, HandsShrink
  <1>8. RowsFollow' /\ Counted'
    BY <1>2 DEF Inv, RowsFollow, Counted
  <1>9. Arrived'
    <2>1. \A c \in Calls : taken[c] \in Nat
      BY Numbers DEF Inv
    <2>2. \A c \in Calls : taken[c] > 0 => taken'[c] > 0
      BY <1>6, <2>1
    <2>3. taken'[at[d].call] > 0
      BY <1>3, <1>6, <2>1
    <2>4. ASSUME NEW e \in Drainers, at'[e] # None, at'[e].stage = "reached"
          PROVE  taken'[at'[e].call] > 0
      <3>1. CASE e = d
        BY <3>1, <1>4, <1>5, <2>3
      <3>2. CASE e # d
        BY <3>2, <2>4, <1>5, <2>2, AtTyped DEF Inv, Arrived
      <3> QED BY <3>1, <3>2
    <2>5. QED BY <1>2, <2>2, <2>4 DEF Inv, Arrived
  <1>10. QED BY <1>1, <1>7, <1>8, <1>9 DEF Inv

\* How a try ends: its row leaves the drain's hands, with the try counted.
LEMMA AnswerInv ==
    ASSUME Inv, Ground, NEW d \in Drainers, Answer(d)
    PROVE  Inv'
  <1>1. TypeOK'
    BY DrainTypes DEF Drain, Inv
  <1>2. UNCHANGED <<told, posts, taken, tries, restarts, overrun>>
    BY DEF Answer, Delivered, NotDelivered, relay, faults
  <1>3. /\ at[d] # None /\ at[d].call \in Calls /\ at[d].attempts \in Nat
        /\ batch[d] \in SUBSET (Calls \X Nat)
    BY AtTyped DEF Answer, Delivered, NotDelivered, Trying, Inv, TypeOK
  <1>4. /\ \A c \in Calls : c # at[d].call => row'[c] = row[c]
        /\ \/ row'[at[d].call] = row[at[d].call] /\ row[at[d].call].state \in {"sent", "dead", "swept"}
           \/ row'[at[d].call].state \in {"sent", "dead"}
              /\ row'[at[d].call].attempts = row[at[d].call].attempts
           \/ row'[at[d].call].state = "failed" /\ row'[at[d].call].attempts = at[d].attempts + 1
        /\ \A e \in Drainers : at'[e] = IF e = d THEN None ELSE at[e]
        /\ \A e \in Drainers : e # d => batch'[e] = batch[e] /\ running'[e] = running[e]
        /\ batch'[d] \subseteq batch[d] /\ (batch'[d] # {} => running'[d] = running[d])
    <2>1. CASE Delivered(d)
      BY <1>3, <2>1, MarkedSent DEF Delivered, Tried, Inv, TypeOK
    <2>2. CASE NotDelivered(d)
      BY <1>3, <2>2, FailedIs DEF NotDelivered, Outcome, Inv
    <2>3. QED BY <2>1, <2>2 DEF Answer
  <1>5. /\ tries[at[d].call] >= at[d].attempts + 1 /\ row[at[d].call].state # "none"
        /\ at[d].call \notin overrun =>
           /\ row[at[d].call].state = "sending" /\ row[at[d].call].attempts = at[d].attempts
           /\ \A e \in Drainers : at[e] # None /\ at[e].call = at[d].call => e = d
    BY <1>3 DEF Inv, AtHeld, Ground
  <1>6. BatchHeld' /\ AtHeld'
    <2>1. \A e \in Drainers : \A b \in batch'[e] : b[1] \notin overrun' =>
            /\ row'[b[1]].state = "sending" /\ row'[b[1]].attempts = row[b[1]].attempts
      BY <1>2, <1>3, <1>4, BatchTyped DEF Inv, BatchHeld
    <2>2. \A e \in Drainers : at'[e] # None => at[e] # None /\ at'[e] = at[e]
      BY <1>4
    <2>3. \A e \in Drainers : at'[e] # None /\ at[e].call \notin overrun' =>
            /\ row'[at[e].call].state = "sending"
            /\ row'[at[e].call].attempts = row[at[e].call].attempts
      BY <1>2, <1>3, <1>4, <1>5, AtTyped DEF Inv, AtHeld
    <2>4. restarts' \in Nat /\ restarts' >= restarts /\ \A c \in Calls : tries'[c] \in Nat /\ tries'[c] >= tries[c]
      BY <1>2, Numbers DEF Inv
    <2>5. \A e \in Drainers : batch'[e] \subseteq batch[e]
                              /\ (running[e] /\ (batch'[e] # {} \/ at'[e] # None) => running'[e])
      BY <1>4
    <2>6. QED BY <1>2, <2>1, <2>2, <2>3, <2>4, <2>5, HandsShrink
  <1>7. RowsFollow'
    BY <1>2, <1>3, <1>4, <1>5 DEF Inv, RowsFollow
  <1>8. Counted'
    <2> SUFFICES ASSUME NEW c \in Calls
                 PROVE  CountsOK(row'[c].state, row'[c].attempts, tries[c], posts[c], restarts, c \in overrun)
      BY <1>2 DEF Counted, CountsOK
    <2>1. CountsOK(row[c].state, row[c].attempts, tries[c], posts[c], restarts, c \in overrun)
      BY CountedIs DEF Inv
    <2>2. CASE c # at[d].call
      BY <2>1, <2>2, <1>4
    <2>3. CASE c = at[d].call
      <3>1. tries[c] \in Nat /\ restarts \in Nat
        BY <1>3, <2>3, Numbers DEF Inv
      <3>2. QED BY <2>1, <2>3, <3>1, <1>3, <1>4, <1>5 DEF CountsOK
    <2> QED BY <2>2, <2>3
  <1>9. Arrived'
    BY <1>2, <1>4 DEF Inv, Arrived
  <1>10. QED BY <1>1, <1>6, <1>7, <1>8, <1>9 DEF Inv

LEMMA DrainEndsInv ==
    ASSUME Inv, NEW d \in Drainers, DrainEnds(d)
    PROVE  Inv'
  <1>1. TypeOK'
    BY DrainTypes DEF Drain, Inv
  <1>2. UNCHANGED <<told, batch, at, posts, taken, tries, restarts, overrun>>
    BY DEF DrainEnds, relay, faults
  <1> PICK old \in SUBSET {c \in Calls : Ended(c)} :
        row' = [c \in Calls |-> IF c \in old THEN [NoRow EXCEPT !.state = "swept"] ELSE row[c]]
    BY DEF DrainEnds
  <1>3. \A c \in Calls : \/ row'[c] = row[c]
                         \/ /\ row[c].state \in {"sent", "dead"}
                            /\ row'[c].state = "swept" /\ row'[c].attempts = 0
    BY DEF Ended, NoRow
  <1>4. BatchHeld' /\ AtHeld'
    <2>1. \A e \in Drainers : running[e] /\ (batch[e] # {} \/ at[e] # None) => running'[e]
      BY DEF DrainEnds, Inv, TypeOK
    <2>2. \A c \in Calls : row[c].state = "sending" => row'[c] = row[c]
      BY <1>3
    <2>3. QED BY <1>2, <2>1, <2>2, HandsFrame
  <1>5. RowsFollow'
    BY <1>2, <1>3 DEF Inv, RowsFollow
  <1>6. Counted'
    <2> SUFFICES ASSUME NEW c \in Calls
                 PROVE  CountsOK(row'[c].state, row'[c].attempts, tries[c], posts[c], restarts, c \in overrun)
      BY <1>2 DEF Counted, CountsOK
    <2>1. CountsOK(row[c].state, row[c].attempts, tries[c], posts[c], restarts, c \in overrun)
      BY CountedIs DEF Inv
    <2>2. tries[c] \in Nat
      BY Numbers DEF Inv
    <2>3. CASE row'[c] = row[c]
      BY <2>1, <2>3
    <2>4. CASE row'[c].state = "swept" /\ row'[c].attempts = 0
      BY <2>1, <2>2, <2>4 DEF CountsOK
    <2> QED BY <1>3, <2>3, <2>4
  <1>7. Arrived'
    BY <1>2 DEF Inv, Arrived
  <1>8. QED BY <1>1, <1>4, <1>5, <1>6, <1>7 DEF Inv

LEMMA FaultInv ==
    ASSUME Inv, NEW d \in Drainers, DrainThrows(d) \/ Reboot(d)
    PROVE  Inv'
  <1>1. TypeOK'
    BY FaultTypes DEF Inv
  <1>2. UNCHANGED <<told, row, posts, taken, tries, restarts, overrun>>
    BY DEF DrainThrows, Reboot, sender, relay
  <1>3. \A e \in Drainers : /\ batch'[e] \subseteq batch[e]
                            /\ at'[e] # None => at'[e] = at[e]
                            /\ running[e] /\ (batch'[e] # {} \/ at'[e] # None) => running'[e]
    BY DEF DrainThrows, Reboot, Inv, TypeOK
  <1>4. BatchHeld' /\ AtHeld'
    <2>1. \A e \in Drainers : \A b \in batch'[e] : b[1] \notin overrun' => row'[b[1]].state = "sending"
      BY <1>2, <1>3 DEF Inv, BatchHeld
    <2>2. \A e \in Drainers : at'[e] # None /\ at[e].call \notin overrun' => row'[at[e].call].state = "sending"
      BY <1>2, <1>3 DEF Inv, AtHeld
    <2>3. restarts' \in Nat /\ restarts' >= restarts /\ \A c \in Calls : tries'[c] \in Nat /\ tries'[c] >= tries[c]
      BY <1>2, Numbers DEF Inv
    <2>4. QED BY <1>2, <1>3, <2>1, <2>2, <2>3, HandsShrink
  <1>5. RowsFollow' /\ Counted'
    BY <1>2 DEF Inv, RowsFollow, Counted
  <1>6. Arrived'
    BY <1>2, <1>3 DEF Inv, Arrived
  <1>7. QED BY <1>1, <1>4, <1>5, <1>6 DEF Inv

\* What a restart or an unlock does to a row it reclaims.
BackInLine(c) ==
  /\ row[c].state = "sending" /\ row'[c].state = "pending"
  /\ row'[c].attempts = row[c].attempts

LEMMA ReclaimedIs ==
    ASSUME TypeOK, NEW S \in SUBSET {c \in Calls : row[c].state = "sending"},
           row' = Reclaimed(S)
    PROVE  /\ \A c \in S : BackInLine(c)
           /\ \A c \in Calls \ S : row'[c] = row[c]
           /\ \A c \in Calls : row'[c] = row[c] \/ BackInLine(c)
  <1>1. \A c \in Calls : row[c] \in Row
    BY DEF TypeOK
  <1>2. \A c \in Calls : LET x == [row[c] EXCEPT !.state = "pending"]
                         IN  x.state = "pending" /\ x.attempts = row[c].attempts
    BY <1>1 DEF Row
  <1>3. QED BY <1>2 DEF Reclaimed, BackInLine

LEMMA CountedBackInLine ==
    ASSUME Inv, UNCHANGED <<posts, tries>>, restarts' = restarts + 1, overrun \subseteq overrun',
           \A c \in Calls : row'[c] = row[c] \/ BackInLine(c)
    PROVE  Counted'
  <1> SUFFICES ASSUME NEW c \in Calls
               PROVE  CountsOK(row'[c].state, row'[c].attempts, tries[c], posts[c], restarts', c \in overrun')
    BY DEF Counted, CountsOK
  <1>1. CountsOK(row[c].state, row[c].attempts, tries[c], posts[c], restarts, c \in overrun)
    BY CountedIs DEF Inv
  <1>2. tries[c] \in Nat /\ posts[c] \in Nat /\ row[c].attempts \in Nat
        /\ restarts \in Nat /\ MaxAttempts \in Nat
    BY Numbers DEF Inv
  <1>3. c \notin overrun' => c \notin overrun
    OBVIOUS
  <1> QED BY <1>1, <1>2, <1>3 DEF CountsOK, BackInLine

\* An unlock that takes a row from a drain says so.
LEMMA UnlockInv ==
    ASSUME Inv, Unlock
    PROVE  Inv'
  <1>1. TypeOK'
    BY FaultTypes DEF Inv
  <1>2. /\ UNCHANGED <<told, running, batch, at, posts, taken, tries>>
        /\ restarts' = restarts + 1
    BY DEF Unlock, Restarts, drains, relay
  <1> PICK S \in SUBSET {c \in Calls : row[c].state = "sending"} :
        row' = Reclaimed(S) /\ overrun' = overrun \cup {c \in S : Held(c)}
    BY DEF Unlock
  <1>3. /\ \A c \in Calls \ S : row'[c] = row[c]
        /\ \A c \in Calls : row'[c] = row[c] \/ BackInLine(c)
    BY ReclaimedIs DEF Inv
  <1>4. restarts \in Nat /\ \A c \in Calls : tries[c] \in Nat
    BY Numbers DEF Inv
  <1>5. BatchHeld' /\ AtHeld'
    <2>1. \A d \in Drainers : \A b \in batch[d] : Held(b[1])
      BY DEF Held, Hands
    <2>2. ASSUME NEW d \in Drainers, at[d] # None PROVE Held(at[d].call)
      <3>1. <<at[d].call, at[d].attempts>> \in Hands(d)
        BY <2>2 DEF Hands
      <3>2. <<at[d].call, at[d].attempts>>[1] = at[d].call
        OBVIOUS
      <3>3. QED BY <3>1, <3>2 DEF Held
    <2>3. ASSUME NEW c \in Calls, Held(c), c \notin overrun' PROVE row'[c] = row[c] /\ c \notin overrun
      BY <2>3, <1>3
    <2>4. ASSUME NEW d \in Drainers, NEW b \in batch[d], b[1] \notin overrun'
          PROVE  row'[b[1]].state = "sending" /\ row'[b[1]].attempts = row[b[1]].attempts
      <3>1. b[1] \in Calls
        BY BatchTyped DEF Inv
      <3>2. row'[b[1]] = row[b[1]] /\ b[1] \notin overrun
        BY <2>1, <2>3, <2>4, <3>1
      <3>3. row[b[1]].state = "sending"
        BY <3>2 DEF Inv, BatchHeld
      <3>4. QED BY <3>2, <3>3
    <2>5. ASSUME NEW d \in Drainers, at[d] # None, at[d].call \notin overrun'
          PROVE  row'[at[d].call].state = "sending" /\ row'[at[d].call].attempts = row[at[d].call].attempts
      <3>1. at[d].call \in Calls
        BY <2>5, AtTyped DEF Inv
      <3>2. row'[at[d].call] = row[at[d].call] /\ at[d].call \notin overrun
        BY <2>2, <2>3, <2>5, <3>1
      <3>3. row[at[d].call].state = "sending"
        BY <2>5, <3>2 DEF Inv, AtHeld
      <3>4. QED BY <3>2, <3>3
    <2>6. restarts' \in Nat /\ restarts' >= restarts /\ \A c \in Calls : tries'[c] \in Nat /\ tries'[c] >= tries[c]
      BY <1>2, <1>4
    <2>7. QED BY <1>2, <2>4, <2>5, <2>6, HandsShrink
  <1>7. RowsFollow'
    BY <1>2, <1>3 DEF Inv, RowsFollow, BackInLine
  <1>8. Counted'
    BY <1>2, <1>3, CountedBackInLine
  <1>9. Arrived'
    BY <1>2 DEF Inv, Arrived
  <1>10. QED BY <1>1, <1>5, <1>7, <1>8, <1>9 DEF Inv

\* A restart ends every drain, and costs a row being sent one more try at most.
LEMMA RestartInv ==
    ASSUME Inv, Restart
    PROVE  Inv'
  <1>1. TypeOK'
    BY FaultTypes DEF Inv
  <1>2. /\ UNCHANGED <<posts, taken, tries, overrun>> /\ restarts' = restarts + 1
        /\ batch' = [e \in Drainers |-> {}] /\ at' = [e \in Drainers |-> None]
    BY DEF Restart, Restarts, relay
  <1>3. BatchHeld' /\ AtHeld'
    BY <1>2 DEF BatchHeld, AtHeld
  <1> PICK S \in SUBSET {c \in Calls : row[c].state = "sending"} : row' = Reclaimed(S)
    BY DEF Restart
  <1>4. \A c \in Calls : row'[c] = row[c] \/ BackInLine(c)
    BY ReclaimedIs DEF Inv
  <1>5. \A c \in Calls : \/ told'[c] = told[c] /\ told[c] \notin {"posting", "reached"}
                         \/ told'[c] = "cut"
    BY DEF Restart
  <1>6. RowsFollow'
    BY <1>2, <1>4, <1>5 DEF Inv, RowsFollow, BackInLine
  <1>7. Counted'
    BY <1>2, <1>4, CountedBackInLine
  <1>8. Arrived'
    BY <1>2, <1>5 DEF Inv, Arrived
  <1>9. QED BY <1>1, <1>3, <1>6, <1>7, <1>8 DEF Inv

LEMMA InvInit == Init => Inv
  <1> SUFFICES ASSUME Init PROVE Inv
    OBVIOUS
  <1>1. TypeOK
    BY TypesInit
  <1>2. RowsFollow /\ BatchHeld /\ AtHeld /\ Arrived
    BY DEF Init, NoRow, RowsFollow, BatchHeld, AtHeld, Arrived
  <1>3. Counted
    BY OutboxConstants DEF Init, NoRow, Counted
  <1>4. QED BY <1>1, <1>2, <1>3 DEF Inv

LEMMA InvStep == Inv /\ Ground /\ [Next]_vars => Inv'
  <1> SUFFICES ASSUME Inv, Ground, [Next]_vars PROVE Inv'
    OBVIOUS
  <1>1. CASE UNCHANGED vars
    <2>1. TypeOK'
      BY TypesStep DEF Inv
    <2>2. UNCHANGED <<told, row, running, batch, at, posts, taken, tries, restarts, overrun>>
      BY <1>1 DEF vars, sender, drains, relay, faults
    <2>3. QED BY <2>1, <2>2 DEF Inv, RowsFollow, BatchHeld, AtHeld, Counted, Arrived
  <1>2. ASSUME NEW c \in Calls,
               \/ Send(c) \/ Reach(c) \/ Sent(c) \/ NotSent(c)
               \/ BackoffPasses(c) \/ Expires(c) \/ Straggles(c)
        PROVE  Inv'
    BY <1>2, CallInv, TimeInv
  <1>3. ASSUME NEW d \in Drainers, Drain(d) PROVE Inv'
    BY <1>3, TickInv, RepostInv, NotPostedInv, RepostReachesInv, AnswerInv, DrainEndsInv
    DEF Drain, Begin
  <1>4. ASSUME NEW d \in Drainers, DrainThrows(d) \/ Reboot(d) PROVE Inv'
    BY <1>4, FaultInv
  <1>5. CASE Restart
    BY <1>5, RestartInv
  <1>6. CASE Unlock
    BY <1>6, UnlockInv
  <1>7. QED BY <1>1, <1>2, <1>3, <1>4, <1>5, <1>6 DEF Next

\* The invariant holds in every reachable state.
THEOREM Invariance == Spec => []Inv
  BY InvInit, InvStep, Grounded, PTL DEF Spec

\* Whatever drains a re-boot has left running, a row no unlock took from a drain
\* is in one drain's hands, which knows its latest count of attempts.
THEOREM OneHand == Spec => []OneHolder
  <1>1. Inv => OneHolder
    <2> SUFFICES ASSUME Inv, NEW d \in Drainers, NEW b \in Hands(d), b[1] \notin overrun
                 PROVE  /\ row[b[1]].state = "sending" /\ row[b[1]].attempts = b[2]
                        /\ \A e \in Drainers : \A x \in Hands(e) : x[1] = b[1] => e = d
      BY DEF OneHolder
    <2>1. \A e \in Drainers : \A x \in Hands(e) :
            x \in batch[e] \/ (at[e] # None /\ x = <<at[e].call, at[e].attempts>>)
      BY DEF Hands
    <2>2. CASE b \in batch[d]
      BY <2>1, <2>2 DEF Inv, BatchHeld
    <2>3. CASE at[d] # None /\ b = <<at[d].call, at[d].attempts>>
      BY <2>1, <2>3 DEF Inv, BatchHeld, AtHeld
    <2> QED BY <2>1, <2>2, <2>3
  <1>2. QED BY <1>1, Invariance, PTL

-----------------------------------------------------------------------------
(* How often a message is tried at most *)

\* A drain has a row in hand once, with a count below the last.
OwnHand ==
  \A d \in Drainers :
    /\ ~running[d] => batch[d] = {} /\ at[d] = None
    /\ at[d] # None => at[d].attempts < MaxAttempts
    /\ \A b \in batch[d] :
         /\ b[2] < MaxAttempts
         /\ \A x \in batch[d] : x[1] = b[1] => x = b
         /\ at[d] # None => at[d].call # b[1]

\* What an open count allows: one try from each count on.
Span(who, x, n) == {<<who, x, k>> : k \in n .. (MaxAttempts - 1)}

\* The tries that may still come: of a drain that has the row before it or is at
\* it, from the count it has read on, and of the row that waits, from its own.
RightsBefore(c) ==
  UNION {Span("drain", z[1], z[2][2]) :
           z \in {y \in Drainers \X (Calls \X Nat) : y[2] \in batch[y[1]] /\ y[2][1] = c}}
RightsTrying(c) ==
  UNION {Span("drain", d, at[d].attempts + 1) : d \in {e \in Drainers : at[e] # None /\ at[e].call = c}}
RightsWaiting(c) ==
  IF row[c].state \in {"pending", "failed"} THEN Span("row", c, row[c].attempts) ELSE {}
Rights(c) == (RightsBefore(c) \cup RightsTrying(c)) \cup RightsWaiting(c)

\* Each restart or unlock gives a message its tries once more, at most.
AllowedOf(c) ==
  /\ IsFiniteSet(Rights(c))
  /\ tries[c] + Cardinality(Rights(c)) <= MaxAttempts * (1 + restarts)
Allowed == \A c \in Calls : AllowedOf(c)

LEMMA SpanSize ==
    ASSUME NEW who, NEW x, NEW n \in 0 .. MaxAttempts
    PROVE  IsFiniteSet(Span(who, x, n)) /\ Cardinality(Span(who, x, n)) = MaxAttempts - n
  <1> DEFINE open == n .. (MaxAttempts - 1)
             f == [k \in open |-> <<who, x, k>>]
  <1>1. MaxAttempts \in Nat /\ n \in Nat /\ n <= MaxAttempts
    BY Bounds
  <1>2. IsFiniteSet(open) /\ Cardinality(open) = MaxAttempts - n
    <2>1. n \in Int /\ MaxAttempts - 1 \in Int
      BY <1>1
    <2>2. IsFiniteSet(open) /\ Cardinality(open) = IF n > MaxAttempts - 1 THEN 0 ELSE MaxAttempts - 1 - n + 1
      BY <2>1, FS_Interval
    <2>3. QED BY <1>1, <2>2
  <1>3. f \in Bijection(open, Span(who, x, n))
    BY DEF Bijection, Injection, Surjection, IsInjective, Span
  <1>4. QED BY <1>2, <1>3, FS_Bijection DEF ExistsBijection

\* Rights are given up for others: what is counted does not grow by more than gain.
LEMMA Exchange ==
    ASSUME NEW R, NEW Q, IsFiniteSet(R), NEW D \in SUBSET R, NEW P, IsFiniteSet(P),
           Q \subseteq (R \ D) \cup P,
           NEW t \in Nat, NEW u \in Nat, NEW most \in Nat, NEW gain \in Nat,
           t + Cardinality(R) <= most,
           u + Cardinality(P) <= t + Cardinality(D) + gain
    PROVE  IsFiniteSet(Q) /\ u + Cardinality(Q) <= most + gain
  <1>1. IsFiniteSet(D) /\ R \cap D = D
    BY FS_Subset
  <1>2. IsFiniteSet(R \ D) /\ Cardinality(R \ D) = Cardinality(R) - Cardinality(D)
    BY <1>1, FS_Difference
  <1>3. /\ IsFiniteSet((R \ D) \cup P)
        /\ Cardinality((R \ D) \cup P) = Cardinality(R \ D) + Cardinality(P) - Cardinality((R \ D) \cap P)
    BY <1>2, FS_Union
  <1>4. IsFiniteSet((R \ D) \cap P)
    BY <1>2, FS_Intersection
  <1>5. IsFiniteSet(Q) /\ Cardinality(Q) <= Cardinality((R \ D) \cup P)
    BY <1>3, FS_Subset
  <1>6. /\ Cardinality(R) \in Nat /\ Cardinality(D) \in Nat /\ Cardinality(P) \in Nat /\ Cardinality(Q) \in Nat
        /\ Cardinality((R \ D) \cap P) \in Nat /\ Cardinality(R \ D) \in Nat /\ Cardinality((R \ D) \cup P) \in Nat
    BY <1>1, <1>2, <1>3, <1>4, <1>5, FS_CardinalityType
  <1>7. QED BY <1>2, <1>3, <1>5, <1>6

\* Membership, one kind of right at a time.
RightsByKind ==
  \A c \in Calls : \A r :
    r \in Rights(c) <=>
      \/ \E d \in Drainers, b \in Calls \X Nat : b \in batch[d] /\ b[1] = c /\ r \in Span("drain", d, b[2])
      \/ \E d \in Drainers : at[d] # None /\ at[d].call = c /\ r \in Span("drain", d, at[d].attempts + 1)
      \/ row[c].state \in {"pending", "failed"} /\ r \in Span("row", c, row[c].attempts)

LEMMA RightsAre == RightsByKind
  <1> SUFFICES ASSUME NEW c \in Calls, NEW r
      PROVE  r \in Rights(c) <=>
                \/ \E d \in Drainers, b \in Calls \X Nat : b \in batch[d] /\ b[1] = c /\ r \in Span("drain", d, b[2])
                \/ \E d \in Drainers : at[d] # None /\ at[d].call = c /\ r \in Span("drain", d, at[d].attempts + 1)
                \/ row[c].state \in {"pending", "failed"} /\ r \in Span("row", c, row[c].attempts)
    BY DEF RightsByKind
  <1> DEFINE holds == {y \in Drainers \X (Calls \X Nat) : y[2] \in batch[y[1]] /\ y[2][1] = c}
  <1>1. r \in RightsBefore(c)
        <=> \E d \in Drainers, b \in Calls \X Nat : b \in batch[d] /\ b[1] = c /\ r \in Span("drain", d, b[2])
    <2>1. ASSUME NEW z \in holds, r \in Span("drain", z[1], z[2][2])
          PROVE  \E d \in Drainers, b \in Calls \X Nat : b \in batch[d] /\ b[1] = c /\ r \in Span("drain", d, b[2])
      BY <2>1
    <2>2. ASSUME NEW d \in Drainers, NEW b \in Calls \X Nat, b \in batch[d], b[1] = c, r \in Span("drain", d, b[2])
          PROVE  \E z \in holds : r \in Span("drain", z[1], z[2][2])
      <3>1. <<d, b>> \in holds /\ <<d, b>>[1] = d /\ <<d, b>>[2] = b
        BY <2>2
      <3>2. QED BY <2>2, <3>1
    <2>3. QED BY <2>1, <2>2 DEF RightsBefore
  <1>2. r \in RightsTrying(c)
        <=> \E d \in Drainers : at[d] # None /\ at[d].call = c /\ r \in Span("drain", d, at[d].attempts + 1)
    BY DEF RightsTrying
  <1>3. r \in RightsWaiting(c) <=> row[c].state \in {"pending", "failed"} /\ r \in Span("row", c, row[c].attempts)
    BY DEF RightsWaiting
  <1>4. r \in Rights(c) <=> r \in RightsBefore(c) \/ r \in RightsTrying(c) \/ r \in RightsWaiting(c)
    BY DEF Rights
  <1>5. QED BY <1>1, <1>2, <1>3, <1>4

LEMMA RightsAreNext == RightsByKind'
  BY RightsAre, PTL

\* One message's account, when rights D are given up for rights P.
LEMMA Account ==
    ASSUME TypeOK, TypeOK', Allowed, NEW c \in Calls, NEW D \in SUBSET Rights(c), NEW P, IsFiniteSet(P),
           Rights(c)' \subseteq (Rights(c) \ D) \cup P,
           NEW gain \in Nat, MaxAttempts * (1 + restarts') = MaxAttempts * (1 + restarts) + gain,
           tries'[c] + Cardinality(P) <= tries[c] + Cardinality(D) + gain
    PROVE  AllowedOf(c)'
  <1>1. tries[c] \in Nat /\ tries'[c] \in Nat /\ restarts \in Nat /\ MaxAttempts \in Nat
    BY Bounds DEF TypeOK
  <1>2. MaxAttempts * (1 + restarts) \in Nat
    BY <1>1
  <1>3. IsFiniteSet(Rights(c)) /\ tries[c] + Cardinality(Rights(c)) <= MaxAttempts * (1 + restarts)
    BY DEF Allowed, AllowedOf
  <1> DEFINE most == MaxAttempts * (1 + restarts)
             t == tries[c]
             u == tries'[c]
             R == Rights(c)
             Q == Rights(c)'
  <1>4. most \in Nat /\ t \in Nat /\ u \in Nat /\ IsFiniteSet(R) /\ t + Cardinality(R) <= most
        /\ u + Cardinality(P) <= t + Cardinality(D) + gain
        /\ D \in SUBSET R /\ Q \subseteq (R \ D) \cup P
    BY <1>1, <1>2, <1>3
  <1>5. most + gain = MaxAttempts * (1 + restarts')
    OBVIOUS
  <1> HIDE DEF most, t, u, R, Q
  <1>6. IsFiniteSet(Q) /\ u + Cardinality(Q) <= most + gain
    BY <1>4, Exchange
  <1>7. QED BY <1>5, <1>6 DEF u, Q, AllowedOf

\* What a step may give of rights, and to whom.
LEMMA NewRights ==
    ASSUME NEW c \in Calls, NEW D, NEW P,
           \A d \in Drainers : \A b \in Calls \X Nat : b \in batch'[d] /\ b[1] = c =>
             Span("drain", d, b[2]) \subseteq (Rights(c) \ D) \cup P,
           \A d \in Drainers : at'[d] # None /\ at'[d].call = c =>
             Span("drain", d, at'[d].attempts + 1) \subseteq (Rights(c) \ D) \cup P,
           row'[c].state \in {"pending", "failed"} =>
             Span("row", c, row'[c].attempts) \subseteq (Rights(c) \ D) \cup P
    PROVE  Rights(c)' \subseteq (Rights(c) \ D) \cup P
  <1> SUFFICES ASSUME NEW r \in Rights(c)' PROVE r \in (Rights(c) \ D) \cup P
    OBVIOUS
  <1>1. \/ \E d \in Drainers, b \in Calls \X Nat : b \in batch'[d] /\ b[1] = c /\ r \in Span("drain", d, b[2])
        \/ \E d \in Drainers : at'[d] # None /\ at'[d].call = c /\ r \in Span("drain", d, at'[d].attempts + 1)
        \/ row'[c].state \in {"pending", "failed"} /\ r \in Span("row", c, row'[c].attempts)
    BY RightsAreNext DEF RightsByKind
  <1>2. QED BY <1>1

\* The rights somebody has are rights.
LEMMA OldRights ==
    ASSUME NEW c \in Calls
    PROVE  /\ \A d \in Drainers : \A b \in Calls \X Nat : b \in batch[d] /\ b[1] = c =>
                Span("drain", d, b[2]) \subseteq Rights(c)
           /\ \A d \in Drainers : at[d] # None /\ at[d].call = c =>
                Span("drain", d, at[d].attempts + 1) \subseteq Rights(c)
           /\ row[c].state \in {"pending", "failed"} => Span("row", c, row[c].attempts) \subseteq Rights(c)
  BY RightsAre DEF RightsByKind

\* Spans of different holders have nothing in common.
LEMMA SpansApart ==
    ASSUME NEW v, NEW w, NEW x, NEW y, NEW m, NEW n, v # w \/ x # y
    PROVE  Span(v, x, m) \cap Span(w, y, n) = {}
  BY DEF Span

\* A step that gives nobody a right to the message.
LEMMA NoNewRights ==
    ASSUME NEW c \in Calls,
           \A d \in Drainers : \A b \in batch'[d] : b[1] = c => b \in batch[d],
           \A d \in Drainers : at'[d] # None /\ at'[d].call = c =>
             at[d] # None /\ at[d].call = c /\ at'[d].attempts = at[d].attempts,
           row'[c].state \in {"pending", "failed"} =>
             row[c].state \in {"pending", "failed"} /\ row'[c].attempts = row[c].attempts
    PROVE  Rights(c)' \subseteq Rights(c)
  <1>1. Rights(c)' \subseteq (Rights(c) \ {}) \cup {}
    BY OldRights, NewRights
  <1>2. QED BY <1>1

\* The account of a message that is not tried and to which nobody gets a right.
LEMMA KeptAccount ==
    ASSUME TypeOK, TypeOK', Allowed, NEW c \in Calls, Rights(c)' \subseteq Rights(c),
           tries'[c] = tries[c], restarts' = restarts
    PROVE  AllowedOf(c)'
  <1>1. {} \in SUBSET Rights(c) /\ IsFiniteSet({}) /\ Cardinality({}) = 0 /\ 0 \in Nat
    BY FS_EmptySet
  <1>2. MaxAttempts * (1 + restarts') = MaxAttempts * (1 + restarts) + 0
    BY Bounds DEF TypeOK
  <1>3. tries'[c] + Cardinality({}) <= tries[c] + Cardinality({}) + 0
    BY <1>1 DEF TypeOK
  <1>4. Rights(c)' \subseteq (Rights(c) \ {}) \cup {}
    OBVIOUS
  <1>5. QED BY <1>1, <1>2, <1>3, <1>4, Account

LEMMA OwnHandStep == TypeOK /\ OwnHand /\ [Next]_vars => OwnHand'
  <1> SUFFICES ASSUME TypeOK, OwnHand, [Next]_vars PROVE OwnHand'
    OBVIOUS
  <1>1. CASE UNCHANGED <<running, batch, at>>
    BY <1>1 DEF OwnHand
  <1>2. ASSUME NEW d \in Drainers, Tick(d) PROVE OwnHand'
    <2> PICK S \in Claims : batch' = [batch EXCEPT ![d] = {<<c, row[c].attempts>> : c \in S}]
      BY <1>2 DEF Tick
    <2>1. \A c \in S : c \in Calls /\ row[c].attempts < MaxAttempts
      BY Numbers DEF Claims, Due
    <2>2. at' = at /\ at[d] = None /\ running'[d] = TRUE
          /\ \A e \in Drainers : e # d => running'[e] = running[e]
      BY <1>2 DEF Tick, OwnHand, TypeOK
    <2>3. /\ batch'[d] = {<<c, row[c].attempts>> : c \in S}
          /\ \A e \in Drainers : e # d => batch'[e] = batch[e]
      BY DEF TypeOK
    <2>4. \A b \in batch'[d] : b[2] < MaxAttempts /\ \A x \in batch'[d] : x[1] = b[1] => x = b
      BY <2>1, <2>3
    <2>5. QED BY <2>2, <2>3, <2>4 DEF OwnHand
  <1>3. ASSUME NEW d \in Drainers, Repost(d) PROVE OwnHand'
    <2> PICK b \in batch[d] :
          /\ batch' = [batch EXCEPT ![d] = @ \ {b}]
          /\ at' = [at EXCEPT ![d] = [call |-> b[1], attempts |-> b[2], stage |-> "posted"]]
      BY <1>3 DEF Repost
    <2>1. /\ batch'[d] = batch[d] \ {b}
          /\ \A e \in Drainers : e # d => batch'[e] = batch[e] /\ at'[e] = at[e]
          /\ at'[d].call = b[1] /\ at'[d].attempts = b[2]
      BY DEF TypeOK
    <2>2. running' = running /\ running[d] /\ b[2] < MaxAttempts /\ \A x \in batch[d] : x[1] = b[1] => x = b
      BY <1>3 DEF Repost, OwnHand
    <2>3. QED BY <2>1, <2>2 DEF OwnHand
  <1>4. ASSUME NEW d \in Drainers, NotPosted(d) \/ NotDelivered(d) \/ Delivered(d) PROVE OwnHand'
    <2>1. /\ \A e \in Drainers : e # d => batch'[e] = batch[e] /\ at'[e] = at[e] /\ running'[e] = running[e]
          /\ at'[d] = None
          /\ \/ running'[d] = running[d] /\ batch'[d] \subseteq batch[d]
             \/ running'[d] = FALSE /\ batch'[d] = {}
      BY <1>4 DEF NotPosted, NotDelivered, Delivered, Tried, Failed, TypeOK
    <2>2. QED BY <2>1 DEF OwnHand
  <1>5. ASSUME NEW d \in Drainers, RepostReaches(d) PROVE OwnHand'
    <2>1. /\ at[d] # None /\ batch' = batch /\ running' = running
          /\ at'[d].call = at[d].call /\ at'[d].attempts = at[d].attempts
          /\ \A e \in Drainers : e # d => at'[e] = at[e]
      BY <1>5 DEF RepostReaches, Trying, TypeOK, Try
    <2>2. QED BY <2>1 DEF OwnHand
  <1>6. ASSUME NEW d \in Drainers, DrainEnds(d) \/ DrainThrows(d) PROVE OwnHand'
    <2>1. /\ \A e \in Drainers : e # d => batch'[e] = batch[e] /\ at'[e] = at[e] /\ running'[e] = running[e]
          /\ at'[d] = None /\ batch'[d] = {}
      BY <1>6 DEF DrainEnds, DrainThrows, TypeOK
    <2>2. QED BY <2>1 DEF OwnHand
  <1>7. CASE Restart
    BY <1>7 DEF Restart, OwnHand
  <1>8. CASE \/ UNCHANGED vars \/ Unlock \/ \E d \in Drainers : Reboot(d)
             \/ \E c \in Calls : \/ Send(c) \/ Reach(c) \/ Sent(c) \/ NotSent(c)
                                 \/ BackoffPasses(c) \/ Expires(c) \/ Straggles(c)
    <2>1. UNCHANGED <<running, batch, at>>
      BY <1>8 DEF vars, drains, Unlock, Reboot, Send, Reach, Sent, NotSent, BackoffPasses, Expires, Straggles
    <2>2. QED BY <1>1, <2>1
  <1>9. QED BY <1>2, <1>3, <1>4, <1>5, <1>6, <1>7, <1>8 DEF Next, Drain, Begin, Answer

\* The call's own steps: a message becomes a row with all its tries before it.
LEMMA CallAllowed ==
    ASSUME Inv, TypeOK', Ground, OwnHand, Allowed, NEW c \in Calls,
           Send(c) \/ Reach(c) \/ Sent(c) \/ NotSent(c)
    PROVE  Allowed'
  <1>1. UNCHANGED <<batch, at, tries, restarts>>
    BY DEF Send, Reach, Sent, NotSent, drains, relay, faults
  <1>2. CASE row' = row
    <2>1. \A e \in Calls : Rights(e)' \subseteq Rights(e)
      BY <1>1, <1>2, NoNewRights
    <2>2. QED BY <1>1, <2>1, KeptAccount DEF Inv, Allowed
  <1>3. CASE NotSent(c) /\ row' = [row EXCEPT ![c] = [NoRow EXCEPT !.state = "pending", !.due = TRUE]]
    <2>1. \A e \in Calls : e # c => row'[e] = row[e]
      BY <1>3 DEF Inv, TypeOK
    <2>2. \A e \in Calls : e # c => AllowedOf(e)'
      <3>1. \A e \in Calls : e # c => Rights(e)' \subseteq Rights(e)
        BY <1>1, <2>1, NoNewRights
      <3>2. QED BY <1>1, <3>1, KeptAccount DEF Inv
    <2>3. row[c].state = "none" /\ tries[c] = 0
      BY <1>3 DEF NotSent, Inv, RowsFollow
    <2>4. row'[c].attempts = 0
      BY <1>3 DEF NoRow, Inv, TypeOK
    <2>5. Rights(c)' \subseteq (Rights(c) \ Rights(c)) \cup Span("row", c, 0)
      <3>1. \A d \in Drainers : \A b \in batch'[d] : b[1] # c
        BY <1>1, <2>3 DEF Ground
      <3>2. \A d \in Drainers : at'[d] # None => at'[d].call # c
        BY <1>1, <2>3 DEF Ground
      <3>3. row'[c].state \in {"pending", "failed"} =>
              Span("row", c, row'[c].attempts) \subseteq (Rights(c) \ Rights(c)) \cup Span("row", c, 0)
        BY <2>4
      <3>4. QED BY <3>1, <3>2, <3>3, NewRights
    <2>6. 0 \in 0 .. MaxAttempts /\ MaxAttempts \in Nat /\ restarts \in Nat /\ MaxAttempts - 0 = MaxAttempts
      BY Bounds DEF Inv, TypeOK
    <2>7. IsFiniteSet(Span("row", c, 0)) /\ Cardinality(Span("row", c, 0)) = MaxAttempts
      BY <2>6, SpanSize
    <2>8. IsFiniteSet(Rights(c)') /\ Cardinality(Rights(c)') <= MaxAttempts /\ Cardinality(Rights(c)') \in Nat
      <3>1. Rights(c)' \subseteq Span("row", c, 0)
        BY <2>5
      <3>2. IsFiniteSet(Rights(c)') /\ Cardinality(Rights(c)') <= MaxAttempts
        BY <2>7, <3>1, FS_Subset
      <3>3. QED BY <3>2, FS_CardinalityType
    <2>9. MaxAttempts <= MaxAttempts * (1 + restarts)
      <3>1. MaxAttempts * restarts \in Nat
        BY <2>6
      <3>2. MaxAttempts * (1 + restarts) = MaxAttempts + MaxAttempts * restarts
        BY <2>6
      <3>3. QED BY <2>6, <3>1, <3>2
    <2>10. tries'[c] = 0 /\ restarts' = restarts
      BY <1>1, <2>3
    <2>11. MaxAttempts * (1 + restarts) \in Nat
      BY <2>6
    <2>12. AllowedOf(c)'
      BY <2>6, <2>8, <2>9, <2>10, <2>11 DEF AllowedOf
    <2>13. QED BY <2>2, <2>12 DEF Allowed
  <1>4. QED BY <1>2, <1>3 DEF Send, Reach, Sent, NotSent, drains

\* The claim gives a drain the rights of the rows it takes.
LEMMA TickAllowed ==
    ASSUME Inv, TypeOK', OwnHand, Allowed, NEW d \in Drainers, Tick(d)
    PROVE  Allowed'
  <1> PICK S \in Claims : row' = Claimed(S) /\ batch' = [batch EXCEPT ![d] = {<<c, row[c].attempts>> : c \in S}]
    BY DEF Tick
  <1> SUFFICES ASSUME NEW c \in Calls PROVE AllowedOf(c)'
    BY DEF Allowed
  <1>1. UNCHANGED <<at, tries, restarts>>
    BY DEF Tick, relay, faults
  <1>2. /\ \A b \in batch'[d] : b[1] \in S /\ b[2] = row[b[1]].attempts
        /\ \A e \in Drainers : e # d => batch'[e] = batch[e]
    BY DEF Inv, TypeOK
  <1>3. row'[c] = IF c \in S THEN [row[c] EXCEPT !.state = "sending"] ELSE row[c]
    BY DEF Claimed
  <1>4. CASE c \notin S
    <2>1. Rights(c)' \subseteq Rights(c)
      BY <1>1, <1>2, <1>3, <1>4, NoNewRights
    <2>2. QED BY <1>1, <2>1, KeptAccount DEF Inv
  <1>5. CASE c \in S
    <2>1. row[c].state \in {"pending", "failed"} /\ row'[c].state = "sending"
      <3>1. row[c] \in Row
        BY DEF Inv, TypeOK
      <3>2. [row[c] EXCEPT !.state = "sending"].state = "sending"
        BY <3>1 DEF Row
      <3>3. QED BY <1>3, <1>5, <3>2 DEF Claims, Due
    <2> DEFINE n == row[c].attempts
               D == Span("row", c, n)
               P == Span("drain", d, n)
    <2>2. n \in 0 .. MaxAttempts /\ MaxAttempts \in Nat
      BY Numbers DEF Inv
    <2>3. /\ IsFiniteSet(D) /\ Cardinality(D) = MaxAttempts - n
          /\ IsFiniteSet(P) /\ Cardinality(P) = MaxAttempts - n
      BY <2>2, SpanSize
    <2>4. D \in SUBSET Rights(c)
      BY <2>1, OldRights
    <2>5. Rights(c)' \subseteq (Rights(c) \ D) \cup P
      <3>1. \A e \in Drainers : \A b \in Calls \X Nat : b \in batch'[e] /\ b[1] = c =>
              Span("drain", e, b[2]) \subseteq (Rights(c) \ D) \cup P
        <4> SUFFICES ASSUME NEW e \in Drainers, NEW b \in Calls \X Nat, b \in batch'[e], b[1] = c
                     PROVE  Span("drain", e, b[2]) \subseteq (Rights(c) \ D) \cup P
          OBVIOUS
        <4>1. CASE e = d
          BY <1>2, <4>1
        <4>2. CASE e # d
          <5>1. Span("drain", e, b[2]) \subseteq Rights(c)
            BY <1>2, <4>2, OldRights
          <5>2. Span("drain", e, b[2]) \cap D = {}
            BY SpansApart
          <5>3. QED BY <5>1, <5>2
        <4>3. QED BY <4>1, <4>2
      <3>2. \A e \in Drainers : at'[e] # None /\ at'[e].call = c =>
              Span("drain", e, at'[e].attempts + 1) \subseteq (Rights(c) \ D) \cup P
        <4> SUFFICES ASSUME NEW e \in Drainers, at'[e] # None, at'[e].call = c
                     PROVE  Span("drain", e, at'[e].attempts + 1) \subseteq (Rights(c) \ D) \cup P
          OBVIOUS
        <4>1. Span("drain", e, at'[e].attempts + 1) \subseteq Rights(c)
          BY <1>1, OldRights
        <4>2. Span("drain", e, at'[e].attempts + 1) \cap D = {}
          BY SpansApart
        <4>3. QED BY <4>1, <4>2
      <3>3. row'[c].state \notin {"pending", "failed"}
        BY <2>1
      <3> HIDE DEF D, P
      <3>4. QED BY <3>1, <3>2, <3>3, NewRights
    <2>6. tries'[c] = tries[c] /\ tries[c] \in Nat
      BY <1>1 DEF Inv, TypeOK
    <2>7. tries'[c] + Cardinality(P) <= tries[c] + Cardinality(D) + 0
      BY <2>2, <2>3, <2>6
    <2>8. MaxAttempts * (1 + restarts') = MaxAttempts * (1 + restarts) + 0
      BY <1>1, Bounds DEF Inv, TypeOK
    <2> HIDE DEF D, P
    <2>9. QED BY <2>3, <2>4, <2>5, <2>7, <2>8, Account DEF Inv
  <1>6. QED BY <1>4, <1>5

\* A try begins: one right is used.
LEMMA RepostAllowed ==
    ASSUME Inv, TypeOK', OwnHand, Allowed, NEW d \in Drainers, Repost(d)
    PROVE  Allowed'
  <1> PICK b \in batch[d] :
        /\ batch' = [batch EXCEPT ![d] = @ \ {b}]
        /\ at' = [at EXCEPT ![d] = [call |-> b[1], attempts |-> b[2], stage |-> "posted"]]
        /\ tries' = [tries EXCEPT ![b[1]] = @ + 1]
    BY DEF Repost
  <1> SUFFICES ASSUME NEW c \in Calls PROVE AllowedOf(c)'
    BY DEF Allowed
  <1>1. row' = row /\ restarts' = restarts /\ at[d] = None
    BY DEF Repost, sender, faults
  <1>2. /\ batch'[d] = batch[d] \ {b}
        /\ \A e \in Drainers : e # d => batch'[e] = batch[e] /\ at'[e] = at[e]
        /\ at'[d].call = b[1] /\ at'[d].attempts = b[2]
        /\ tries'[c] = IF c = b[1] THEN tries[c] + 1 ELSE tries[c]
    BY DEF Inv, TypeOK
  <1>3. b[1] \in Calls /\ b[2] \in Nat /\ b \in Calls \X Nat
    BY DEF Inv, TypeOK
  <1>4. b[2] < MaxAttempts /\ \A x \in batch[d] : x[1] = b[1] => x = b
    BY DEF OwnHand
  <1>5. CASE c # b[1]
    <2>1. \A e \in Drainers : \A x \in batch'[e] : x \in batch[e]
      BY <1>2
    <2>2. \A e \in Drainers : at'[e] # None /\ at'[e].call = c => at'[e] = at[e]
      BY <1>2, <1>5
    <2>3. Rights(c)' \subseteq Rights(c)
      BY <1>1, <2>1, <2>2, NoNewRights
    <2>4. QED BY <1>1, <1>2, <1>5, <2>3, KeptAccount DEF Inv
  <1>6. CASE c = b[1]
    <2> DEFINE n == b[2]
               D == {<<"drain", d, n>>}
    <2>1. MaxAttempts \in Nat /\ n \in n .. (MaxAttempts - 1) /\ n \notin (n + 1) .. (MaxAttempts - 1)
      BY <1>3, <1>4, Bounds
    <2>2. Span("drain", d, n) \subseteq Rights(c)
      BY <1>3, <1>6, OldRights
    <2>3. D \in SUBSET Rights(c)
      BY <2>1, <2>2 DEF Span
    <2>4. Span("drain", d, n + 1) \subseteq Rights(c) \ D
      <3>1. Span("drain", d, n + 1) \subseteq Span("drain", d, n) /\ <<"drain", d, n>> \notin Span("drain", d, n + 1)
        BY <1>3, <2>1 DEF Span
      <3>2. QED BY <2>2, <3>1
    <2>5. Rights(c)' \subseteq (Rights(c) \ D) \cup {}
      <3>1. \A e \in Drainers : \A x \in Calls \X Nat : x \in batch'[e] /\ x[1] = c =>
              Span("drain", e, x[2]) \subseteq (Rights(c) \ D) \cup {}
        <4> SUFFICES ASSUME NEW e \in Drainers, NEW x \in Calls \X Nat, x \in batch'[e], x[1] = c
                     PROVE  Span("drain", e, x[2]) \subseteq Rights(c) \ D
          OBVIOUS
        <4>1. e # d
          BY <1>2, <1>4, <1>6
        <4>2. Span("drain", e, x[2]) \subseteq Rights(c)
          BY <1>2, <4>1, OldRights
        <4>3. <<"drain", d, n>> \notin Span("drain", e, x[2])
          BY <4>1 DEF Span
        <4>4. QED BY <4>2, <4>3
      <3>2. \A e \in Drainers : at'[e] # None /\ at'[e].call = c =>
              Span("drain", e, at'[e].attempts + 1) \subseteq (Rights(c) \ D) \cup {}
        <4> SUFFICES ASSUME NEW e \in Drainers, at'[e] # None, at'[e].call = c
                     PROVE  Span("drain", e, at'[e].attempts + 1) \subseteq Rights(c) \ D
          OBVIOUS
        <4>1. CASE e = d
          BY <1>2, <2>4, <4>1
        <4>2. CASE e # d
          <5>1. Span("drain", e, at'[e].attempts + 1) \subseteq Rights(c)
            BY <1>2, <4>2, OldRights
          <5>2. <<"drain", d, n>> \notin Span("drain", e, at'[e].attempts + 1)
            BY <4>2 DEF Span
          <5>3. QED BY <5>1, <5>2
        <4>3. QED BY <4>1, <4>2
      <3>3. row'[c].state \in {"pending", "failed"} => Span("row", c, row'[c].attempts) \subseteq (Rights(c) \ D) \cup {}
        <4>1. row'[c].state \in {"pending", "failed"} => Span("row", c, row'[c].attempts) \subseteq Rights(c)
          BY <1>1, OldRights
        <4>2. <<"drain", d, n>> \notin Span("row", c, row'[c].attempts)
          BY DEF Span
        <4>3. QED BY <4>1, <4>2
      <3> HIDE DEF D
      <3>4. QED BY <3>1, <3>2, <3>3, NewRights
    <2>6. IsFiniteSet({}) /\ Cardinality({}) = 0 /\ Cardinality(D) = 1
      BY FS_EmptySet, FS_Singleton
    <2>7. tries'[c] + Cardinality({}) <= tries[c] + Cardinality(D) + 0
      BY <1>2, <1>6, <2>6 DEF Inv, TypeOK
    <2>8. MaxAttempts * (1 + restarts') = MaxAttempts * (1 + restarts) + 0
      BY <1>1, Bounds DEF Inv, TypeOK
    <2> HIDE DEF D
    <2>9. QED BY <2>3, <2>5, <2>6, <2>7, <2>8, Account DEF Inv
  <1>7. QED BY <1>5, <1>6

\* A try has failed: the rights of its drain, from the count m on, become those
\* of the row, from the count of the failure on.
LEMMA FailureAllowed ==
    ASSUME Inv, TypeOK', Allowed, NEW d \in Drainers, NEW c \in Calls, NEW n \in Nat, NEW m \in Nat,
           m <= n + 1, n + 1 <= MaxAttempts, Span("drain", d, m) \subseteq Rights(c), Outcome(c, n),
           tries'[c] = tries[c] + (n + 1 - m), restarts' = restarts,
           at'[d] = None, batch'[d] \subseteq batch[d], \A x \in batch'[d] : x[1] # c,
           \A e \in Drainers : e # d => batch'[e] = batch[e] /\ at'[e] = at[e],
           \A e \in Calls : e # c => tries'[e] = tries[e]
    PROVE  Allowed'
  <1>1. \A e \in Calls : e # c => AllowedOf(e)'
    <2>1. \A e \in Calls : e # c => row'[e] = row[e]
      BY DEF Outcome
    <2>2. \A e \in Drainers : at'[e] # None => at'[e] = at[e]
      OBVIOUS
    <2>3. \A e \in Calls : e # c => Rights(e)' \subseteq Rights(e)
      BY <2>1, <2>2, NoNewRights
    <2>4. QED BY <2>3, KeptAccount DEF Inv
  <1> DEFINE waits == row'[c].state = "failed" /\ row'[c].attempts = n + 1
             D == Span("drain", d, m)
             P == IF waits THEN Span("row", c, n + 1) ELSE {}
  <1>2. m \in 0 .. MaxAttempts /\ n + 1 \in 0 .. MaxAttempts /\ MaxAttempts \in Nat
    BY Bounds
  <1>3. IsFiniteSet(D) /\ Cardinality(D) = MaxAttempts - m
    BY <1>2, SpanSize
  <1>4. IsFiniteSet(P) /\ Cardinality(P) \in Nat /\ Cardinality(P) <= MaxAttempts - (n + 1)
    <2>1. IsFiniteSet(Span("row", c, n + 1)) /\ Cardinality(Span("row", c, n + 1)) = MaxAttempts - (n + 1)
      BY <1>2, SpanSize
    <2>2. IsFiniteSet({}) /\ Cardinality({}) = 0
      BY FS_EmptySet
    <2>3. QED BY <1>2, <2>1, <2>2
  <1>5. Rights(c)' \subseteq (Rights(c) \ D) \cup P
    <2>1. \A e \in Drainers : \A b \in Calls \X Nat : b \in batch'[e] /\ b[1] = c =>
            Span("drain", e, b[2]) \subseteq (Rights(c) \ D) \cup P
      <3> SUFFICES ASSUME NEW e \in Drainers, NEW b \in Calls \X Nat, b \in batch'[e], b[1] = c
                   PROVE  Span("drain", e, b[2]) \subseteq Rights(c) \ D
        OBVIOUS
      <3>1. e # d
        OBVIOUS
      <3>2. Span("drain", e, b[2]) \subseteq Rights(c)
        BY <3>1, OldRights
      <3>3. Span("drain", e, b[2]) \cap D = {}
        BY <3>1, SpansApart
      <3>4. QED BY <3>2, <3>3
    <2>2. \A e \in Drainers : at'[e] # None /\ at'[e].call = c =>
            Span("drain", e, at'[e].attempts + 1) \subseteq (Rights(c) \ D) \cup P
      <3> SUFFICES ASSUME NEW e \in Drainers, at'[e] # None, at'[e].call = c
                   PROVE  Span("drain", e, at'[e].attempts + 1) \subseteq Rights(c) \ D
        OBVIOUS
      <3>1. e # d
        OBVIOUS
      <3>2. Span("drain", e, at'[e].attempts + 1) \subseteq Rights(c)
        BY <3>1, OldRights
      <3>3. Span("drain", e, at'[e].attempts + 1) \cap D = {}
        BY <3>1, SpansApart
      <3>4. QED BY <3>2, <3>3
    <2>3. row'[c].state \in {"pending", "failed"} =>
            Span("row", c, row'[c].attempts) \subseteq (Rights(c) \ D) \cup P
      BY DEF Outcome
    <2> HIDE DEF D, P
    <2>4. QED BY <2>1, <2>2, <2>3, NewRights
  <1>6. D \in SUBSET Rights(c)
    OBVIOUS
  <1>7. tries[c] \in Nat
    BY DEF Inv, TypeOK
  <1>8. tries'[c] + Cardinality(P) <= tries[c] + Cardinality(D) + 0
    BY <1>2, <1>3, <1>4, <1>7
  <1>9. MaxAttempts * (1 + restarts') = MaxAttempts * (1 + restarts) + 0
    BY Bounds DEF Inv, TypeOK
  <1> HIDE DEF D, P
  <1>10. AllowedOf(c)'
    BY <1>4, <1>5, <1>6, <1>8, <1>9, Account DEF Inv
  <1>11. QED BY <1>1, <1>10 DEF Allowed

LEMMA NotPostedAllowed ==
    ASSUME Inv, TypeOK', OwnHand, Allowed, NEW d \in Drainers, NotPosted(d)
    PROVE  Allowed'
  <1> PICK b \in batch[d] :
        tries' = [tries EXCEPT ![b[1]] = @ + 1] /\ Failed(d, b[1], b[2], batch[d] \ {b})
    BY DEF NotPosted
  <1>1. b[1] \in Calls /\ b[2] \in Nat /\ b \in Calls \X Nat /\ batch[d] \ {b} \in SUBSET (Calls \X Nat)
    BY DEF Inv, TypeOK
  <1>2. b[2] < MaxAttempts /\ \A x \in batch[d] : x[1] = b[1] => x = b
    BY DEF OwnHand
  <1>3. Outcome(b[1], b[2])
    BY <1>1, FailedIs DEF Inv
  <1>4. /\ at'[d] = None /\ batch'[d] \subseteq batch[d] \ {b}
        /\ \A e \in Drainers : e # d => batch'[e] = batch[e] /\ at'[e] = at[e]
        /\ tries'[b[1]] = tries[b[1]] + 1 /\ \A e \in Calls : e # b[1] => tries'[e] = tries[e]
        /\ restarts' = restarts
    BY <1>1 DEF NotPosted, Failed, Inv, TypeOK, faults
  <1>5. Span("drain", d, b[2]) \subseteq Rights(b[1])
    BY <1>1, OldRights
  <1>6. /\ b[2] <= b[2] + 1 /\ b[2] + 1 <= MaxAttempts
        /\ tries'[b[1]] = tries[b[1]] + (b[2] + 1 - b[2])
    BY <1>1, <1>2, <1>4, Bounds DEF Inv, TypeOK
  <1>7. \A x \in batch'[d] : x[1] # b[1]
    BY <1>2, <1>4
  <1>8. QED BY <1>1, <1>3, <1>4, <1>5, <1>6, <1>7, FailureAllowed

LEMMA NotDeliveredAllowed ==
    ASSUME Inv, TypeOK', OwnHand, Allowed, NEW d \in Drainers, NotDelivered(d)
    PROVE  Allowed'
  <1> DEFINE c == at[d].call
             n == at[d].attempts
  <1>1. at[d] # None /\ c \in Calls /\ n \in Nat
    BY AtTyped DEF NotDelivered, Inv
  <1>2. n < MaxAttempts /\ \A x \in batch[d] : x[1] # c
    BY <1>1 DEF OwnHand
  <1>3. Failed(d, c, n, batch[d]) /\ tries' = tries /\ restarts' = restarts
    BY DEF NotDelivered, relay, faults
  <1>4. Outcome(c, n)
    <2>1. batch[d] \in SUBSET (Calls \X Nat)
      BY DEF Inv, TypeOK
    <2> HIDE DEF c, n
    <2>2. QED BY <1>1, <1>3, <2>1, FailedIs DEF Inv
  <1>5. /\ at'[d] = None /\ batch'[d] \subseteq batch[d]
        /\ \A e \in Drainers : e # d => batch'[e] = batch[e] /\ at'[e] = at[e]
    BY <1>3 DEF Failed, Inv, TypeOK
  <1>6. Span("drain", d, n + 1) \subseteq Rights(c)
    BY <1>1, OldRights
  <1>7. n + 1 \in Nat /\ n + 1 <= n + 1 /\ n + 1 <= MaxAttempts /\ tries'[c] = tries[c] + (n + 1 - (n + 1))
    BY <1>1, <1>2, <1>3, Bounds DEF Inv, TypeOK
  <1>8. \A x \in batch'[d] : x[1] # c
    BY <1>2, <1>5
  <1> HIDE DEF c, n
  <1>9. QED BY <1>1, <1>3, <1>4, <1>5, <1>6, <1>7, <1>8, FailureAllowed

\* A restart or an unlock gives the rows it reclaims their tries again.
LEMMA AgainAllowed ==
    ASSUME Inv, TypeOK', Allowed, NEW S \in SUBSET {c \in Calls : row[c].state = "sending"},
           row' = Reclaimed(S), restarts' = restarts + 1, tries' = tries,
           \A d \in Drainers : batch'[d] \subseteq batch[d] /\ (at'[d] # None => at'[d] = at[d])
    PROVE  Allowed'
  <1> SUFFICES ASSUME NEW c \in Calls PROVE AllowedOf(c)'
    BY DEF Allowed
  <1> DEFINE n == row[c].attempts
             P == Span("row", c, n)
  <1>1. row[c] \in Row /\ n \in 0 .. MaxAttempts /\ n \in Nat /\ MaxAttempts \in Nat /\ restarts \in Nat /\ tries[c] \in Nat
    BY Numbers DEF Inv, TypeOK
  <1>2. row'[c] = IF c \in S THEN [row[c] EXCEPT !.state = "pending"] ELSE row[c]
    BY DEF Reclaimed
  <1>3. row'[c].attempts = n /\ (c \notin S => row'[c] = row[c])
    BY <1>1, <1>2 DEF Row
  <1>4. IsFiniteSet(P) /\ Cardinality(P) = MaxAttempts - n
    BY <1>1, SpanSize
  <1>5. Rights(c)' \subseteq (Rights(c) \ {}) \cup P
    <2>1. \A e \in Drainers : \A b \in Calls \X Nat : b \in batch'[e] /\ b[1] = c =>
            Span("drain", e, b[2]) \subseteq (Rights(c) \ {}) \cup P
      BY OldRights
    <2>2. \A e \in Drainers : at'[e] # None /\ at'[e].call = c =>
            Span("drain", e, at'[e].attempts + 1) \subseteq (Rights(c) \ {}) \cup P
      BY OldRights
    <2>3. row'[c].state \in {"pending", "failed"} =>
            Span("row", c, row'[c].attempts) \subseteq (Rights(c) \ {}) \cup P
      BY <1>3
    <2> HIDE DEF P
    <2>4. QED BY <2>1, <2>2, <2>3, NewRights
  <1>6. {} \in SUBSET Rights(c) /\ Cardinality({}) = 0
    BY FS_EmptySet
  <1>7. tries'[c] + Cardinality(P) <= tries[c] + Cardinality({}) + MaxAttempts
    BY <1>1, <1>4, <1>6
  <1>8. MaxAttempts * (1 + restarts') = MaxAttempts * (1 + restarts) + MaxAttempts
    BY <1>1
  <1> HIDE DEF P
  <1>9. QED BY <1>1, <1>4, <1>5, <1>6, <1>7, <1>8, Account DEF Inv

LEMMA AllowedStep == Inv /\ TypeOK' /\ Ground /\ OwnHand /\ Allowed /\ [Next]_vars => Allowed'
  <1> SUFFICES ASSUME Inv, TypeOK', Ground, OwnHand, Allowed, [Next]_vars PROVE Allowed'
    OBVIOUS
  \* Steps in which nobody gets a right, and nothing is tried.
  <1>1. ASSUME \A d \in Drainers : batch'[d] \subseteq batch[d] /\ (at'[d] # None =>
                 at[d] # None /\ at'[d].call = at[d].call /\ at'[d].attempts = at[d].attempts),
               \A c \in Calls : row'[c].state \in {"pending", "failed"} =>
                 row[c].state \in {"pending", "failed"} /\ row'[c].attempts = row[c].attempts,
               tries' = tries, restarts' = restarts
        PROVE  Allowed'
    <2>1. \A c \in Calls : Rights(c)' \subseteq Rights(c)
      BY <1>1, NoNewRights
    <2>2. QED BY <1>1, <2>1, KeptAccount DEF Inv, Allowed
  <1>2. CASE UNCHANGED vars
    BY <1>1, <1>2 DEF vars, sender, drains, relay, faults
  <1>3. ASSUME NEW c \in Calls, Send(c) \/ Reach(c) \/ Sent(c) \/ NotSent(c) PROVE Allowed'
    BY <1>3, CallAllowed
  <1>4. ASSUME NEW c \in Calls, BackoffPasses(c) \/ Expires(c) \/ Straggles(c) PROVE Allowed'
    <2>1. UNCHANGED <<batch, at, tries, restarts>>
      BY <1>4 DEF BackoffPasses, Expires, Straggles, drains, relay, faults
    <2>2. \A e \in Calls : row'[e].state = row[e].state /\ row'[e].attempts = row[e].attempts
      <3>1. row[c] \in Row
        BY DEF Inv, TypeOK
      <3>2. /\ [row[c] EXCEPT !.due = TRUE].state = row[c].state
            /\ [row[c] EXCEPT !.due = TRUE].attempts = row[c].attempts
            /\ [row[c] EXCEPT !.late = TRUE].state = row[c].state
            /\ [row[c] EXCEPT !.late = TRUE].attempts = row[c].attempts
        BY <3>1 DEF Row
      <3>3. \/ row' = row \/ row' = [row EXCEPT ![c] = [row[c] EXCEPT !.due = TRUE]]
            \/ row' = [row EXCEPT ![c] = [row[c] EXCEPT !.late = TRUE]]
        BY <1>4 DEF BackoffPasses, Expires, Straggles, sender
      <3>4. QED BY <3>2, <3>3 DEF Inv, TypeOK
    <2>3. QED BY <1>1, <2>1, <2>2
  <1>5. ASSUME NEW d \in Drainers, Tick(d) PROVE Allowed'
    BY <1>5, TickAllowed
  <1>6. ASSUME NEW d \in Drainers, Repost(d) PROVE Allowed'
    BY <1>6, RepostAllowed
  <1>7. ASSUME NEW d \in Drainers, NotPosted(d) \/ NotDelivered(d) PROVE Allowed'
    BY <1>7, NotPostedAllowed, NotDeliveredAllowed
  <1>8. ASSUME NEW d \in Drainers, RepostReaches(d) PROVE Allowed'
    <2>1. row' = row /\ batch' = batch /\ tries' = tries /\ restarts' = restarts
      BY <1>8 DEF RepostReaches, sender, faults
    <2>2. \A e \in Drainers : at'[e] # None =>
            at[e] # None /\ at'[e].call = at[e].call /\ at'[e].attempts = at[e].attempts
      BY <1>8 DEF RepostReaches, Trying, Inv, TypeOK, Try
    <2>3. QED BY <1>1, <2>1, <2>2
  <1>9. ASSUME NEW d \in Drainers, Delivered(d) PROVE Allowed'
    <2>1. at[d] # None /\ at[d].call \in Calls
      BY <1>9, AtTyped DEF Delivered, Trying, Inv
    <2>2. /\ batch' = batch /\ tries' = tries /\ restarts' = restarts
          /\ \A e \in Drainers : at'[e] # None => at'[e] = at[e]
      BY <1>9 DEF Delivered, Tried, relay, faults, Inv, TypeOK
    <2>3. \A c \in Calls : row'[c].state \in {"pending", "failed"} => row'[c] = row[c]
      <3>1. row[at[d].call] \in Row
        BY <2>1 DEF Inv, TypeOK
      <3>2. [row[at[d].call] EXCEPT !.state = "sent"].state = "sent"
        BY <3>1 DEF Row
      <3>3. QED BY <1>9, <2>1, <3>2 DEF Delivered, MarkSent, Updated, Inv, TypeOK
    <2>4. QED BY <1>1, <2>2, <2>3
  <1>10. ASSUME NEW d \in Drainers, DrainEnds(d) PROVE Allowed'
    <2>1. UNCHANGED <<batch, at, tries, restarts>>
      BY <1>10 DEF DrainEnds, relay, faults
    <2>2. \A c \in Calls : row'[c].state \in {"pending", "failed"} => row'[c] = row[c]
      BY <1>10 DEF DrainEnds, NoRow
    <2>3. QED BY <1>1, <2>1, <2>2
  <1>11. ASSUME NEW d \in Drainers, DrainThrows(d) \/ Reboot(d) PROVE Allowed'
    <2>1. UNCHANGED <<row, tries, restarts>>
      BY <1>11 DEF DrainThrows, Reboot, sender, relay
    <2>2. \A e \in Drainers : batch'[e] \subseteq batch[e] /\ (at'[e] # None => at'[e] = at[e])
      BY <1>11 DEF DrainThrows, Reboot, Inv, TypeOK
    <2>3. QED BY <1>1, <2>1, <2>2
  <1>12. CASE Unlock
    BY <1>12, AgainAllowed DEF Unlock, Restarts, drains, relay
  <1>13. CASE Restart
    BY <1>13, AgainAllowed DEF Restart, Restarts, relay
  <1>14. QED BY <1>2, <1>3, <1>4, <1>5, <1>6, <1>7, <1>8, <1>9, <1>10, <1>11, <1>12, <1>13
             DEF Next, Drain, Begin, Answer

LEMMA AllowedInit == Init => OwnHand /\ Allowed
  <1> SUFFICES ASSUME Init PROVE OwnHand /\ Allowed
    OBVIOUS
  <1>1. OwnHand
    BY DEF Init, OwnHand
  <1>2. ASSUME NEW c \in Calls PROVE AllowedOf(c)
    <2>1. Rights(c) = {}
      BY <1>2, RightsAre DEF RightsByKind, Init, NoRow
    <2>2. IsFiniteSet({}) /\ Cardinality({}) = 0 /\ MaxAttempts * (1 + 0) = MaxAttempts
      BY FS_EmptySet, Bounds
    <2>3. QED BY <2>1, <2>2, Bounds DEF AllowedOf, Init
  <1>3. QED BY <1>1, <1>2 DEF Allowed

\* A message is posted once by its call and once per try; a row no unlock took
\* from a drain costs a restart one try more than MAX_ATTEMPTS, and any other
\* costs each restart and unlock MAX_ATTEMPTS tries more at most.
THEOREM FewPosts == Spec => []ResendsBounded
  <1>1. Inv /\ Allowed => ResendsBounded
    <2> SUFFICES ASSUME Inv, Allowed, NEW c \in Calls
        PROVE  /\ posts[c] <= 1 + tries[c]
               /\ c \notin overrun => tries[c] <= MaxAttempts + restarts
               /\ tries[c] <= MaxAttempts * (1 + restarts)
      BY DEF ResendsBounded
    <2>1. posts[c] <= 1 + tries[c] /\ (c \notin overrun => tries[c] <= MaxAttempts + restarts)
      BY DEF Inv, Counted
    <2>2. Cardinality(Rights(c)) \in Nat
      BY FS_CardinalityType DEF Allowed, AllowedOf
    <2>3. tries[c] \in Nat /\ MaxAttempts * (1 + restarts) \in Nat
      BY Bounds DEF Inv, TypeOK
    <2>4. tries[c] + Cardinality(Rights(c)) <= MaxAttempts * (1 + restarts)
      BY DEF Allowed, AllowedOf
    <2>5. QED BY <2>1, <2>2, <2>3, <2>4
  <1>2. Inv => TypeOK
    BY DEF Inv
  <1>3. QED BY <1>1, <1>2, Invariance, Grounded, AllowedInit, OwnHandStep, AllowedStep, PTL DEF Spec

-----------------------------------------------------------------------------
(* What callers are promised *)

Heard == [c \in Calls |-> Told(c)]
Owed  == {c \in Calls : row[c].state \in Active}
Got   == {c \in Calls : taken[c] > 0}

\* Steps in which the caller, the outbox and the relay's copies do not move.
LEMMA Quiet ==
    ASSUME UNCHANGED <<Heard, Owed, tries, Got, overrun>>
    PROVE  UNCHANGED Promise!vars
  BY DEF Heard, Owed, Got, Promise!vars

LEMMA CallPromise ==
    ASSUME Inv, NEW c \in Calls, Send(c) \/ Reach(c) \/ Sent(c) \/ NotSent(c)
    PROVE  [Promise!Next]_(Promise!vars)
  <1>1. \A e \in Calls : taken[e] \in Nat
    BY Numbers DEF Inv
  <1>2. CASE Send(c)
    <2>1. Heard' = Heard
      BY <1>2 DEF Send, Heard, Told, Inv, TypeOK
    <2>2. UNCHANGED <<Owed, tries, Got, overrun>>
      BY <1>2 DEF Send, Owed, Got, faults
    <2>3. QED BY <2>1, <2>2, Quiet
  <1>3. CASE Reach(c)
    <2>1. Heard' = Heard
      BY <1>3 DEF Reach, Heard, Told, Inv, TypeOK
    <2>2. Owed' = Owed /\ tries' = tries /\ overrun' = overrun
      BY <1>3 DEF Reach, Owed, faults
    <2>3. Got' = Got \cup {c}
      BY <1>1, <1>3 DEF Reach, Got, Inv, TypeOK
    <2>4. Promise!Take(c)
      BY <2>1, <2>2, <2>3 DEF Promise!Take, Heard, Owed, Got
    <2>5. QED BY <2>4 DEF Promise!Next
  <1>4. CASE Sent(c)
    <2>1. Heard[c] = "nothing" /\ Heard' = [Heard EXCEPT ![c] = "sent"]
      BY <1>4 DEF Sent, Heard, Told, Inv, TypeOK
    <2>2. c \in Got
      BY <1>4 DEF Sent, Got, Inv, Arrived
    <2>3. UNCHANGED <<Owed, tries, Got, overrun>>
      BY <1>4 DEF Sent, Owed, Got, relay, faults
    <2>4. Promise!Sent(c)
      BY <2>1, <2>2, <2>3 DEF Promise!Sent, Promise!Tell, Heard, Owed, Got
    <2>5. QED BY <2>4 DEF Promise!Next
  <1>5. CASE NotSent(c)
    <2>1. Heard[c] = "nothing"
      BY <1>5 DEF NotSent, Heard, Told
    <2>2. UNCHANGED <<tries, Got, overrun>>
      BY <1>5 DEF NotSent, Got, relay, faults
    <2>3. CASE told' = [told EXCEPT ![c] = "lost"] /\ row' = row
      <3>1. Heard' = [Heard EXCEPT ![c] = "lost"] /\ Owed' = Owed
        BY <2>3 DEF Heard, Told, Owed, Inv, TypeOK
      <3>2. Promise!Lost(c)
        BY <2>1, <2>2, <3>1 DEF Promise!Lost, Promise!Tell, Heard, Owed, Got
      <3>3. QED BY <3>2 DEF Promise!Next
    <2>4. CASE told' = [told EXCEPT ![c] = "queued"]
               /\ row' = IF ActiveWith(Key[c]) # {} THEN row
                         ELSE [row EXCEPT ![c] = [NoRow EXCEPT !.state = "pending", !.due = TRUE]]
      <3>1. Heard' = [Heard EXCEPT ![c] = "queued"]
        BY <2>4 DEF Heard, Told, Inv, TypeOK
      <3>2. {o \in Owed : Key[o] = Key[c]} = ActiveWith(Key[c])
        BY DEF Owed, ActiveWith
      <3>3. Owed' = IF ActiveWith(Key[c]) = {} THEN Owed \cup {c} ELSE Owed
        <4>1. CASE ActiveWith(Key[c]) # {}
          BY <2>4, <4>1 DEF Owed
        <4>2. CASE ActiveWith(Key[c]) = {}
          <5> DEFINE queued == [NoRow EXCEPT !.state = "pending", !.due = TRUE]
          <5>1. queued.state \in Active
            BY DEF NoRow, Active
          <5>2. row' = [row EXCEPT ![c] = queued]
            BY <2>4, <4>2
          <5> HIDE DEF queued
          <5>3. \A e \in Calls : row'[e] = IF e = c THEN queued ELSE row[e]
            BY <5>2 DEF Inv, TypeOK
          <5> QED BY <4>2, <5>1, <5>3 DEF Owed
        <4>3. QED BY <4>1, <4>2
      <3>4. Promise!Queued(c)
        BY <2>1, <2>2, <3>1, <3>2, <3>3 DEF Promise!Queued, Promise!Tell, Promise!SameKey, Heard, Owed, Got
      <3>5. QED BY <3>4 DEF Promise!Next
    <2>5. QED BY <1>5, <2>3, <2>4 DEF NotSent
  <1>6. QED BY <1>2, <1>3, <1>4, <1>5

\* Who has something in hand may try it, though it may be owed no more.
LEMMA MayBeTried ==
    ASSUME Inv, NEW c \in Calls, c \notin overrun => row[c].state = "sending"
    PROVE  c \in Owed \cup overrun
  BY DEF Owed, Active

\* The failure of the n-th try leaves its message owed, or its tries are used up,
\* or it is owed again, which happens to a doubtful one only.
LEMMA FailureOwed ==
    ASSUME Inv, NEW c \in Calls, NEW n \in Nat, Outcome(c, n),
           c \notin overrun => row[c].state = "sending", row[c].state # "none",
           n + 1 >= MaxAttempts => tries'[c] >= MaxAttempts
    PROVE  \/ Owed' = Owed
           \/ c \in Owed /\ Owed' = Owed \ {c} /\ tries'[c] >= MaxAttempts
           \/ /\ c \in overrun /\ {o \in Owed : Key[o] = Key[c]} = {}
              /\ Owed' = Owed \cup {c}
  <1>1. row[c].state \in States
    BY DEF Inv, TypeOK, Row
  <1>2. \A e \in Calls : e # c => row'[e] = row[e]
    BY DEF Outcome
  <1>3. CASE row'[c] = row[c]
    BY <1>2, <1>3 DEF Owed
  <1>4. CASE row'[c].state = "dead" /\ n + 1 >= MaxAttempts
    BY <1>2, <1>4 DEF Owed, Active
  <1>5. CASE row[c].state \in Active /\ row'[c].state = "failed"
    BY <1>2, <1>5 DEF Owed, Active
  <1>6. CASE row[c].state \notin Active /\ row'[c].state = "failed" /\ row'[c] # row[c]
    <2>1. row[c].state \in {"sent", "dead"} /\ ActiveWith(Key[c]) = {}
      BY <1>1, <1>6 DEF Outcome, States, Active
    <2>2. {o \in Owed : Key[o] = Key[c]} = {}
      BY <2>1 DEF ActiveWith, Owed
    <2>3. Owed' = Owed \cup {c}
      BY <1>2, <1>6 DEF Owed, Active
    <2>4. QED BY <2>1, <2>2, <2>3
  <1>7. QED BY <1>1, <1>3, <1>4, <1>5, <1>6 DEF Outcome

LEMMA DrainPromise ==
    ASSUME Inv, Ground, NEW d \in Drainers, Drain(d)
    PROVE  [Promise!Next]_(Promise!vars)
  <1>1. \A c \in Calls : taken[c] \in Nat /\ tries[c] \in Nat /\ row[c].attempts \in Nat
    BY Numbers DEF Inv
  <1>2. Heard' = Heard /\ overrun' = overrun
    BY DEF Drain, Tick, Begin, Repost, NotPosted, RepostReaches, Answer, Delivered,
           NotDelivered, DrainEnds, sender, faults, Heard, Told
  <1>3. CASE Tick(d)
    <2> PICK S \in Claims : row' = Claimed(S)
      BY <1>3 DEF Tick
    <2>1. \A c \in Calls : row'[c].state \in Active <=> row[c].state \in Active
      <3>1. \A c \in S : c \in Calls /\ row[c].state \in Active
        BY DEF Claims, Due, Active
      <3>2. \A c \in Calls : row[c] \in Row
        BY DEF Inv, TypeOK
      <3>3. \A c \in Calls : [row[c] EXCEPT !.state = "sending"].state = "sending"
        BY <3>2 DEF Row
      <3>4. \A c \in Calls : row'[c].state = IF c \in S THEN "sending" ELSE row[c].state
        BY <3>3 DEF Claimed
      <3>5. QED BY <3>1, <3>4 DEF Active
    <2>2. Owed' = Owed
      BY <2>1 DEF Owed
    <2>3. QED BY <1>2, <1>3, <2>2, Quiet DEF Tick, relay, Got
  <1>4. CASE Repost(d)
    <2> PICK b \in batch[d] : tries' = [tries EXCEPT ![b[1]] = @ + 1]
      BY <1>4 DEF Repost
    <2>1. b[1] \in Calls /\ b[1] \in Owed \cup overrun
      BY BatchTyped, MayBeTried DEF Inv, BatchHeld
    <2>2. Owed' = Owed /\ Got' = Got
      BY <1>4 DEF Repost, sender, Owed, Got
    <2>3. Promise!Try(b[1])
      BY <1>2, <2>1, <2>2 DEF Promise!Try, Heard, Owed, Got
    <2>4. QED BY <2>1, <2>3 DEF Promise!Next
  <1>5. CASE NotPosted(d)
    <2> PICK b \in batch[d] :
          tries' = [tries EXCEPT ![b[1]] = @ + 1] /\ Failed(d, b[1], b[2], batch[d] \ {b})
      BY <1>5 DEF NotPosted
    <2>1. /\ b[1] \in Calls /\ b[2] \in Nat /\ batch[d] \ {b} \in SUBSET (Calls \X Nat)
          /\ b[1] \notin overrun => row[b[1]].state = "sending"
          /\ row[b[1]].state # "none" /\ tries[b[1]] >= b[2]
      BY BatchTyped DEF Inv, BatchHeld, Ground
    <2> PICK c \in Calls : c = b[1]
      BY <2>1
    <2>2. Got' = Got
      BY <1>5 DEF NotPosted, Got
    <2>3. tries' = [tries EXCEPT ![c] = @ + 1] /\ tries'[c] = tries[c] + 1
      BY <2>1 DEF Inv, TypeOK
    <2>4. b[2] + 1 >= MaxAttempts => tries'[c] >= MaxAttempts
      BY <1>1, <2>1, <2>3, Bounds
    <2>5. Outcome(c, b[2])
      BY <2>1, FailedIs DEF Inv
    <2>6. \/ Owed' = Owed
          \/ c \in Owed /\ Owed' = Owed \ {c} /\ tries'[c] >= MaxAttempts
          \/ c \in overrun /\ {o \in Owed : Key[o] = Key[c]} = {} /\ Owed' = Owed \cup {c}
      BY <2>1, <2>4, <2>5, FailureOwed
    <2>7. c \in Owed \cup overrun
      BY <2>1, MayBeTried
    <2>8. Promise!Try(c)
      BY <1>2, <2>2, <2>3, <2>6, <2>7
      DEF Promise!Try, Promise!Settled, Promise!Over, Promise!Revived, Promise!SameKey, Heard, Owed, Got
    <2>9. QED BY <2>8 DEF Promise!Next
  <1>6. CASE RepostReaches(d)
    <2>1. at[d].call \in Calls
      BY <1>6, AtTyped DEF RepostReaches, Trying, Inv
    <2> PICK c \in Calls : c = at[d].call
      BY <2>1
    <2>2. Owed' = Owed /\ tries' = tries
      BY <1>6 DEF RepostReaches, sender, Owed
    <2>3. Got' = Got \cup {c}
      BY <1>1, <1>6 DEF RepostReaches, Got, Inv, TypeOK
    <2>4. Promise!Take(c)
      BY <1>2, <2>2, <2>3 DEF Promise!Take, Heard, Owed, Got
    <2>5. QED BY <2>4 DEF Promise!Next
  <1>7. CASE Answer(d)
    <2>1. /\ at[d] # None /\ at[d].call \in Calls /\ at[d].attempts \in Nat
          /\ batch[d] \in SUBSET (Calls \X Nat)
      BY <1>7, AtTyped DEF Answer, Delivered, NotDelivered, Trying, Inv, TypeOK
    <2> PICK c \in Calls : c = at[d].call
      BY <2>1
    <2>2. /\ c \notin overrun => row[c].state = "sending"
          /\ tries[c] >= at[d].attempts + 1 /\ row[c].state # "none"
      BY <2>1 DEF Inv, AtHeld, Ground
    <2>3. Got' = Got /\ tries' = tries
      BY <1>7 DEF Answer, Delivered, NotDelivered, relay, Got
    <2>4. CASE Delivered(d)
      <3>1. /\ \A e \in Calls : e # c => row'[e] = row[e]
            /\ row'[c] = row[c] \/ row'[c].state = "sent"
        BY <2>1, <2>4, MarkedSent DEF Delivered, Inv
      <3>2. c \in Got
        BY <2>1, <2>4 DEF Delivered, Trying, Got, Inv, Arrived
      <3>3. Owed' = Owed \/ (c \in Owed /\ Owed' = Owed \ {c})
        BY <3>1 DEF Owed, Active
      <3>4. CASE c \in Owed /\ Owed' = Owed \ {c}
        <4>1. Promise!Settle(c)
          BY <1>2, <2>3, <3>2, <3>4 DEF Promise!Settle, Promise!Settled, Promise!Over, Heard, Owed, Got
        <4>2. QED BY <4>1 DEF Promise!Next
      <3>5. QED BY <1>2, <2>3, <3>3, <3>4, Quiet
    <2>5. CASE NotDelivered(d)
      <3>1. Outcome(c, at[d].attempts)
        BY <2>1, <2>5, FailedIs DEF NotDelivered, Inv
      <3>2. at[d].attempts + 1 >= MaxAttempts => tries'[c] >= MaxAttempts
        BY <1>1, <2>1, <2>2, <2>3, Bounds
      <3>3. \/ Owed' = Owed
            \/ c \in Owed /\ Owed' = Owed \ {c} /\ tries'[c] >= MaxAttempts
            \/ c \in overrun /\ {o \in Owed : Key[o] = Key[c]} = {} /\ Owed' = Owed \cup {c}
        BY <2>1, <2>2, <3>1, <3>2, FailureOwed
      <3>4. CASE Owed' = Owed
        BY <1>2, <2>3, <3>4, Quiet
      <3>5. CASE c \in Owed /\ Owed' = Owed \ {c} /\ tries'[c] >= MaxAttempts
        <4>1. Promise!Settle(c)
          BY <1>2, <2>3, <3>5 DEF Promise!Settle, Promise!Settled, Promise!Over, Heard, Owed, Got
        <4>2. QED BY <4>1 DEF Promise!Next
      <3>6. CASE c \in overrun /\ {o \in Owed : Key[o] = Key[c]} = {} /\ Owed' = Owed \cup {c}
        <4>1. tries[c] > 0
          BY <1>1, <2>1, <2>2
        <4>2. Promise!Revive(c)
          BY <1>2, <2>3, <3>6, <4>1 DEF Promise!Revive, Promise!Revived, Promise!SameKey, Heard, Owed, Got
        <4>3. QED BY <4>2 DEF Promise!Next
      <3>7. QED BY <3>3, <3>4, <3>5, <3>6
    <2> QED BY <1>7, <2>4, <2>5 DEF Answer
  <1>8. CASE DrainEnds(d)
    <2> PICK old \in SUBSET {c \in Calls : Ended(c)} :
          row' = [c \in Calls |-> IF c \in old THEN [NoRow EXCEPT !.state = "swept"] ELSE row[c]]
      BY <1>8 DEF DrainEnds
    <2>1. \A c \in Calls : row'[c].state \in Active <=> row[c].state \in Active
      BY DEF Ended, NoRow, Active
    <2>2. Owed' = Owed
      BY <2>1 DEF Owed
    <2>3. QED BY <1>2, <1>8, <2>2, Quiet DEF DrainEnds, relay, Got
  <1>9. QED BY <1>3, <1>4, <1>5, <1>6, <1>7, <1>8 DEF Drain, Begin

LEMMA TimePromise ==
    ASSUME Inv, NEW c \in Calls, BackoffPasses(c) \/ Expires(c) \/ Straggles(c)
    PROVE  [Promise!Next]_(Promise!vars)
  <1>1. Heard' = Heard /\ tries' = tries /\ overrun' = overrun
    BY DEF BackoffPasses, Expires, Straggles, sender, relay, faults, Heard, Told
  <1>2. row[c] \in Row /\ \A e \in Calls : taken[e] \in Nat
    BY Numbers DEF Inv, TypeOK
  <1>3. CASE BackoffPasses(c) \/ Expires(c)
    <2>1. \A e \in Calls : row'[e].state = row[e].state
      <3>1. /\ [row[c] EXCEPT !.due = TRUE].state = row[c].state
            /\ [row[c] EXCEPT !.late = TRUE].state = row[c].state
        BY <1>2 DEF Row
      <3>2. QED BY <1>3, <3>1 DEF BackoffPasses, Expires, Inv, TypeOK
    <2>2. Owed' = Owed /\ Got' = Got
      BY <1>3, <2>1 DEF BackoffPasses, Expires, relay, Owed, Got
    <2>3. QED BY <1>1, <2>2, Quiet
  <1>4. CASE Straggles(c)
    <2>1. Owed' = Owed
      BY <1>4 DEF Straggles, sender, Owed
    <2>2. Got' = Got \cup {c}
      BY <1>2, <1>4 DEF Straggles, Got, Inv, TypeOK
    <2>3. Promise!Take(c)
      BY <1>1, <2>1, <2>2 DEF Promise!Take, Heard, Owed, Got
    <2>4. QED BY <2>3 DEF Promise!Next
  <1>5. QED BY <1>3, <1>4

LEMMA FaultPromise ==
    ASSUME Inv, Unlock \/ Restart \/ (\E d \in Drainers : DrainThrows(d) \/ Reboot(d))
    PROVE  [Promise!Next]_(Promise!vars)
  <1>1. CASE Restart
    <2> PICK S \in SUBSET {c \in Calls : row[c].state = "sending"} : row' = Reclaimed(S)
      BY <1>1 DEF Restart
    <2>1. \A c \in Calls : row'[c].state \in Active <=> row[c].state \in Active
      BY ReclaimedIs DEF Inv, BackInLine, Active
    <2>2. Heard' = Heard
      BY <1>1 DEF Restart, Heard, Told
    <2>3. QED BY <1>1, <2>1, <2>2, Quiet DEF Restart, relay, Owed, Got
  <1>2. CASE \E d \in Drainers : DrainThrows(d) \/ Reboot(d)
    <2>1. UNCHANGED <<told, row, tries, taken, overrun>>
      BY <1>2 DEF DrainThrows, Reboot, sender, relay
    <2>2. QED BY <2>1, Quiet DEF Heard, Told, Owed, Got
  <1>3. CASE Unlock
    <2> PICK S \in SUBSET {c \in Calls : row[c].state = "sending"} :
               row' = Reclaimed(S) /\ overrun' = overrun \cup {c \in S : Held(c)}
      BY <1>3 DEF Unlock
    <2>1. \A c \in Calls : row'[c].state \in Active <=> row[c].state \in Active
      BY ReclaimedIs DEF Inv, BackInLine, Active
    <2>2. UNCHANGED <<Heard, Owed, tries, Got>>
      BY <1>3, <2>1 DEF Unlock, relay, Heard, Told, Owed, Got
    <2>3. {c \in S : Held(c)} \in SUBSET Owed
      BY DEF Owed, Active
    <2>4. Promise!Doubt
      BY <2>2, <2>3 DEF Promise!Doubt, Heard, Owed, Got
    <2>5. QED BY <2>4 DEF Promise!Next
  <1>4. QED BY <1>1, <1>2, <1>3

\* The outbox keeps what it promises its callers: a message is called sent or
\* queued truly, one message per key is owed, and a message is owed until the
\* relay has a copy or its tries are used up, and then no more, unless an unlock
\* took its row from a drain.
THEOREM KeepsPromise == Spec => ImplementsPost
  <1>1. Init => Promise!Init
    <2> SUFFICES ASSUME Init PROVE Promise!Init
      OBVIOUS
    <2>1. Heard = [c \in Calls |-> "nothing"] /\ Owed = {} /\ Got = {} /\ overrun = {}
      BY DEF Init, Heard, Told, Owed, Got, NoRow, Active
    <2>2. QED BY <2>1 DEF Init, Promise!Init, Heard, Owed, Got
  <1>2. Inv /\ Ground /\ [Next]_vars => [Promise!Next]_(Promise!vars)
    <2> SUFFICES ASSUME Inv, Ground, [Next]_vars PROVE [Promise!Next]_(Promise!vars)
      OBVIOUS
    <2>1. CASE UNCHANGED vars
      BY <2>1, Quiet DEF vars, sender, relay, faults, Heard, Told, Owed, Got
    <2>2. CASE Next
      BY <2>2, CallPromise, TimePromise, DrainPromise, FaultPromise DEF Next
    <2>3. QED BY <2>1, <2>2
  <1>3. QED BY <1>1, <1>2, Invariance, Grounded, PTL DEF Spec, Promise!Spec, ImplementsPost

-----------------------------------------------------------------------------
(* What the promise comes to for callers and rows *)

\* What is owed, or was when it became doubtful, was called queued, and one message
\* per key is owed: the promise keeps this by itself.
Kept ==
  /\ overrun \subseteq Calls
  /\ \A c \in Owed \cup overrun : Heard[c] = "queued"
  /\ \A c, e \in Owed : Key[c] = Key[e] => c = e

LEMMA KeptStep == Kept /\ [Promise!Next]_(Promise!vars) => Kept'
  <1> SUFFICES ASSUME Kept, [Promise!Next]_(Promise!vars) PROVE Kept'
    OBVIOUS
  <1> USE DEF Kept
  <1>2. CASE UNCHANGED Promise!vars
    <2>1. Heard' = Heard /\ Owed' = Owed /\ overrun' = overrun
      BY <1>2 DEF Promise!vars, Heard, Owed
    <2>2. QED BY <2>1
  <1>3. ASSUME NEW c \in Calls, NEW answer, Promise!Tell(c, answer)
        PROVE  /\ Heard' = [Heard EXCEPT ![c] = answer] /\ Heard[c] = "nothing"
               /\ c \notin Owed \cup overrun
               /\ \A e \in Calls : Heard'[e] = IF e = c THEN answer ELSE Heard[e]
    <2>1. Heard' = [Heard EXCEPT ![c] = answer] /\ Heard[c] = "nothing"
      BY <1>3 DEF Promise!Tell, Heard
    <2>2. DOMAIN Heard = Calls
      BY DEF Heard
    <2>3. QED BY <2>1, <2>2
  <1>4. Owed \subseteq Calls
    BY DEF Owed
  <1>5. ASSUME NEW c \in Calls, Promise!Sent(c) \/ Promise!Lost(c)
        PROVE  Kept'
    <2>1. PICK answer \in {"sent", "lost"} : Promise!Tell(c, answer)
      BY <1>5 DEF Promise!Sent, Promise!Lost
    <2>2. Owed' = Owed /\ overrun' = overrun
      BY <1>5 DEF Promise!Sent, Promise!Lost, Owed
    <2>3. QED BY <1>3, <1>4, <2>1, <2>2
  <1>6. ASSUME NEW c \in Calls, Promise!Queued(c)
        PROVE  Kept'
    <2>1. Promise!Tell(c, "queued")
      BY <1>6 DEF Promise!Queued
    <2>2. overrun' = overrun /\ Owed' = IF {o \in Owed : Key[o] = Key[c]} = {} THEN Owed \cup {c} ELSE Owed
      BY <1>6 DEF Promise!Queued, Promise!SameKey, Owed
    <2>3. \A e \in Owed' \cup overrun' : Heard'[e] = "queued"
      BY <1>3, <1>4, <2>1, <2>2
    <2>4. \A e, f \in Owed' : Key[e] = Key[f] => e = f
      BY <2>2
    <2>5. QED BY <2>2, <2>3, <2>4
  <1>7. ASSUME NEW c \in Calls,
               Promise!Try(c) \/ Promise!Take(c) \/ Promise!Settle(c) \/ Promise!Revive(c)
        PROVE  Kept'
    <2>1. Heard' = Heard /\ overrun' = overrun
      BY <1>7 DEF Promise!Try, Promise!Take, Promise!Settle, Promise!Revive, Heard
    <2>2. \/ Owed' \subseteq Owed
          \/ c \in overrun /\ {o \in Owed : Key[o] = Key[c]} = {} /\ Owed' = Owed \cup {c}
      BY <1>7 DEF Promise!Try, Promise!Take, Promise!Settle, Promise!Revive, Promise!Settled,
                  Promise!Revived, Promise!SameKey, Owed
    <2>3. CASE Owed' \subseteq Owed
      BY <2>1, <2>3
    <2>4. CASE c \in overrun /\ {o \in Owed : Key[o] = Key[c]} = {} /\ Owed' = Owed \cup {c}
      BY <2>1, <2>4
    <2>5. QED BY <2>2, <2>3, <2>4
  <1>8. CASE Promise!Doubt
    <2>1. Heard' = Heard /\ Owed' = Owed /\ overrun' \subseteq overrun \cup Owed
      BY <1>8 DEF Promise!Doubt, Heard, Owed
    <2>2. QED BY <1>4, <2>1
  <1>9. QED BY <1>2, <1>5, <1>6, <1>7, <1>8 DEF Promise!Next

\* Once a call has its answer, a message that the outbox no longer owes is not
\* owed again, unless it is doubtful.
LEMMA KeptForGood ==
    ASSUME Kept, [Promise!Next]_(Promise!vars), NEW c \in Calls,
           Heard[c] # "nothing", c \notin Owed \cup overrun
    PROVE  c \notin Owed'
  <1>1. CASE UNCHANGED Promise!vars
    BY <1>1 DEF Promise!vars, Owed
  <1>2. CASE Promise!Next
    BY <1>2 DEF Promise!Next, Promise!Sent, Promise!Lost, Promise!Queued, Promise!Tell, Promise!Doubt,
       Promise!Try, Promise!Take, Promise!Settle, Promise!Settled, Promise!Revive, Promise!Revived, Owed, Heard
  <1>3. QED BY <1>1, <1>2

\* However many calls, drains and re-boots race, two rows that are still to be
\* sent never answer the same query: an active row keeps its key to itself.
OneRowPerKey ==
  \A c, e \in Calls :
    row[c].state \in Active /\ row[e].state \in Active /\ Key[c] = Key[e] => c = e

\* No key has two active rows, whatever an unlock takes from a drain.
THEOREM KeysApart == Spec => []OneRowPerKey
  <1>1. Init => Kept
    BY DEF Init, Kept, Owed, NoRow, Active
  <1>2. Spec => []Kept
    BY <1>1, KeepsPromise, KeptStep, PTL DEF Spec, ImplementsPost, Promise!Spec
  <1>3. Kept => OneRowPerKey
    BY DEF Kept, OneRowPerKey, Owed
  <1>4. QED BY <1>2, <1>3, PTL

\* A row that was sent, dead-lettered or swept is not taken up again: no late
\* failure of another try, re-boot or restart makes it active, unless an unlock
\* took the row from a drain.
NoRowRevives ==
  [][\A c \in Calls \ overrun :
       row[c].state \in {"sent", "dead", "swept"} => row'[c].state \notin Active]_vars

\* An ended row stays ended, unless an unlock took it from a drain.
THEOREM RowsStayEnded == Spec => NoRowRevives
  <1>1. Init => Kept
    BY DEF Init, Kept, Owed, NoRow, Active
  <1>2. Spec => []Kept
    BY <1>1, KeepsPromise, KeptStep, PTL DEF Spec, ImplementsPost, Promise!Spec
  <1> DEFINE Stays ==
        \A c \in Calls \ overrun :
          row[c].state \in {"sent", "dead", "swept"} => row'[c].state \notin Active
  <1>3. Ground /\ Kept /\ [Promise!Next]_(Promise!vars) => Stays
    <2> SUFFICES ASSUME Ground, Kept, [Promise!Next]_(Promise!vars), NEW c \in Calls \ overrun,
                        row[c].state \in {"sent", "dead", "swept"}
                 PROVE  row'[c].state \notin Active
      OBVIOUS
    <2>1. Heard[c] = "queued"
      BY DEF Ground, Heard, Told
    <2>2. c \notin Owed \cup overrun
      BY DEF Owed, Active
    <2>3. QED BY <2>1, <2>2, KeptForGood DEF Owed
  <1>4. QED
    BY <1>2, <1>3, Grounded, KeepsPromise, PTL DEF NoRowRevives, ImplementsPost, Promise!Spec

=============================================================================
