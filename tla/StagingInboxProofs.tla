------------------------- MODULE StagingInboxProofs -------------------------
(***************************************************************************)
(* Proofs about the staging inbox.                                         *)
(*                                                                         *)
(* Core runs one turn at a time, so what a call read at its start holds at *)
(* every write of it: the row is classifying, what it calls open is open,  *)
(* a card that drains is approved.  The invariants below say so.           *)
(***************************************************************************)
EXTENDS StagingInbox, TLAPS

\* A caller that is not idle has an item; a plan names its primary persona
\* among its targets.
HandsOK ==
    \A d \in Callers : job[d].at # "idle" =>
        /\ job[d].item \in Items
        /\ job[d].at = "planned" /\ job[d].targets # {} => job[d].home \in job[d].targets

\* A row that may still be tried has retries left.
Fresh == {"none", "received", "classifying"}
RetriesLeft == \A r \in Rows : row[r].status \in Fresh => row[r].retries <= MaxRetries

TypeInv == TypeOK /\ HandsOK /\ RetriesLeft

-----------------------------------------------------------------------------
(* Type correctness *)

LEMMA Callings == Drains \subseteq Callers /\ Door \in Callers
  BY DEF Callers

LEMMA RowIds == \A i \in Items : <<i, Own>> \in Rows
  BY DEF Rows

\* What the actions put into a caller's hands.
LEMMA JobShapes ==
    ASSUME NEW i \in Items, NEW p \in Personas \cup {None}, NEW T \in SUBSET Personas,
           NEW S \in SUBSET Personas
    PROVE  /\ Idle \in Job
           /\ Planned(i, p, T, S) \in Job
           /\ [Idle EXCEPT !.at = "thrown", !.item = i] \in Job
  BY DEF Idle, Planned, Job

LEMMA JobUpdate ==
    ASSUME NEW j \in Job, NEW S \in SUBSET Personas, NEW O \in SUBSET Ops
    PROVE  /\ [j EXCEPT !.todo = O] \in Job
           /\ [j EXCEPT !.todo = O, !.kept = S] \in Job
           /\ [j EXCEPT !.at = "writing", !.said = S, !.todo = O] \in Job
  BY DEF Job

\* A job that is written keeps the hands in order.
LEMMA JobSet ==
    ASSUME TypeInv, NEW d \in Callers, NEW j \in Job,
           job' = [job EXCEPT ![d] = j],
           j.at # "idle" => j.item \in Items,
           j.at = "planned" /\ j.targets # {} => j.home \in j.targets
    PROVE  job' \in [Callers -> Job] /\ HandsOK'
  <1>1. job \in [Callers -> Job]
    BY DEF TypeInv, TypeOK
  <1>2. job' \in [Callers -> Job] /\ \A e \in Callers : job'[e] = IF e = d THEN j ELSE job[e]
    BY <1>1
  <1>3. QED BY <1>2 DEF TypeInv, HandsOK

\* The columns the actions write leave a row of the table's shape.
LEMMA RowStatus ==
    ASSUME NEW x \in Row, NEW s \in Statuses
    PROVE  /\ [x EXCEPT !.status = s] \in Row /\ [x EXCEPT !.status = s].status = s
           /\ [x EXCEPT !.status = s].retries = x.retries
  BY DEF Row

LEMMA RowRetries ==
    ASSUME NEW x \in Row, NEW s \in Statuses, NEW n \in 0..MaxRetries+1
    PROVE  /\ [x EXCEPT !.status = s, !.retries = n] \in Row
           /\ [x EXCEPT !.status = s, !.retries = n].status = s
           /\ [x EXCEPT !.status = s, !.retries = n].retries = n
  BY DEF Row

\* One row is written.
LEMMA RowSet ==
    ASSUME TypeInv, NEW r \in Rows, NEW x \in Row,
           row' = [row EXCEPT ![r] = x],
           x.status \in Fresh => x.retries <= MaxRetries
    PROVE  row' \in [Rows -> Row] /\ RetriesLeft'
  <1>1. row \in [Rows -> Row]
    BY DEF TypeInv, TypeOK
  <1>2. row' \in [Rows -> Row] /\ \A q \in Rows : row'[q] = IF q = r THEN x ELSE row[q]
    BY <1>1
  <1>3. QED BY <1>2 DEF TypeInv, RetriesLeft

\* Core's choices among open personas, targets and writes.
LEMMA ScriptOps ==
    ASSUME NEW j \in Job, j.home \in Personas
    PROVE  Script(j) \in SUBSET Ops
  BY DEF Script, Ops, Writes, Locked, Job

LEMMA DueOps ==
    ASSUME NEW j \in Job, NEW w, NEW p, <<w, p>> \in Due(j)
    PROVE  <<w, p>> \in j.todo
  BY DEF Due

\* A caller that lets go has nothing in its hands.
LEMMA LettingGo ==
    ASSUME TypeInv, NEW d \in Callers, LetGo(d)
    PROVE  job' \in [Callers -> Job] /\ HandsOK' /\ held' \in [Drains -> SUBSET Items]
  <1>1. held' \in [Drains -> SUBSET Items]
    BY DEF LetGo, TypeInv, TypeOK
  <1>2. Idle \in Job /\ Idle.at = "idle"
    BY DEF Idle, Job
  <1>3. job' = [job EXCEPT ![d] = Idle]
    BY DEF LetGo
  <1>4. QED BY <1>1, <1>2, <1>3, JobSet

LEMMA Throwing ==
    ASSUME TypeInv, NEW d \in Callers, job[d].at # "idle", Throw(d)
    PROVE  job' \in [Callers -> Job] /\ HandsOK' /\ held' \in [Drains -> SUBSET Items]
  <1> DEFINE j == [Idle EXCEPT !.at = "thrown", !.item = job[d].item]
  <1>1. job[d].item \in Items
    BY DEF TypeInv, HandsOK
  <1>2. j \in Job /\ j.at = "thrown" /\ j.item \in Items
    BY <1>1 DEF Idle, Job
  <1>3. job' = [job EXCEPT ![d] = j] /\ held' = held
    BY DEF Throw
  <1>4. job' \in [Callers -> Job] /\ HandsOK'
    <2> HIDE DEF j
    <2>1. QED BY <1>2, <1>3, JobSet
  <1>5. QED BY <1>3, <1>4 DEF TypeInv, TypeOK

\* A write that is made leaves the script.
LEMMA Doing ==
    ASSUME TypeInv, NEW d \in Callers, NEW w, NEW p, Writing(d, w, p), Done(d, w, p)
    PROVE  job' \in [Callers -> Job] /\ HandsOK' /\ held' \in [Drains -> SUBSET Items]
  <1> DEFINE O == job[d].todo \ {<<w, p>>}
             j == [job[d] EXCEPT !.todo = O]
  <1>1. job[d] \in Job /\ job[d].at = "writing" /\ job[d].item \in Items
    BY DEF TypeInv, TypeOK, HandsOK, Writing
  <1>2. O \in SUBSET Ops
    BY <1>1 DEF Job
  <1>3. j \in Job /\ j.at = "writing" /\ j.item \in Items
    <2> HIDE DEF O
    <2>1. QED BY <1>1, <1>2 DEF Job
  <1>4. job' = [job EXCEPT ![d] = j] /\ held' = held
    BY DEF Done
  <1>5. job' \in [Callers -> Job] /\ HandsOK'
    <2> HIDE DEF j
    <2>1. QED BY <1>3, <1>4, JobSet
  <1>6. QED BY <1>4, <1>5 DEF TypeInv, TypeOK

\* The rows a step leaves alone, and the hands it leaves alone, keep theirs.
LEMMA SameRows == TypeInv /\ UNCHANGED row => row' \in [Rows -> Row] /\ RetriesLeft'
  BY DEF TypeInv, TypeOK, RetriesLeft

LEMMA SameHands ==
    TypeInv /\ UNCHANGED hands => /\ job' \in [Callers -> Job] /\ HandsOK'
                                  /\ held' \in [Drains -> SUBSET Items]
  BY DEF TypeInv, TypeOK, HandsOK, hands

LEMMA TypeInit == Init => TypeInv
  <1> SUFFICES ASSUME Init PROVE TypeInv
    OBVIOUS
  <1>1. NoRow \in Row /\ NoRow.status = "none"
    BY StagingAssumption DEF NoRow, Row, Statuses
  <1>2. Idle \in Job /\ Idle.at = "idle"
    BY DEF Idle, Job
  <1>3. TypeOK
    BY <1>1, <1>2, StagingAssumption DEF Init, TypeOK, CardStates
  <1>4. HandsOK /\ RetriesLeft
    BY <1>1, <1>2, StagingAssumption DEF Init, HandsOK, RetriesLeft, NoRow
  <1>5. QED BY <1>3, <1>4 DEF TypeInv

\* One row changes its state and keeps its retries.
LEMMA StatusSet ==
    ASSUME TypeInv, NEW r \in Rows, NEW s \in Statuses,
           s \in Fresh => row[r].retries <= MaxRetries,
           row' = [row EXCEPT ![r] = [row[r] EXCEPT !.status = s]]
    PROVE  row' \in [Rows -> Row] /\ RetriesLeft'
  <1> DEFINE x == [row[r] EXCEPT !.status = s]
  <1>1. row[r] \in Row
    BY DEF TypeInv, TypeOK
  <1>2. x \in Row
    BY ONLY <1>1, RowStatus, s \in Statuses DEF x
  <1>3. x.status = s /\ x.retries = row[r].retries
    BY ONLY <1>1, RowStatus, s \in Statuses DEF x
  <1> HIDE DEF x
  <1>4. row' = [row EXCEPT ![r] = x]
    BY DEF x
  <1>5. QED BY <1>2, <1>3, <1>4, RowSet

\* The batch of a claim, or the row of a request.
LEMMA LeasedRows ==
    ASSUME TypeInv, NEW S \in SUBSET Rows,
           \A r \in S : row[r].status \in Fresh,
           Leased(S)
    PROVE  row' \in [Rows -> Row] /\ RetriesLeft'
  <1>1. \A r \in Rows : row[r] \in Row
    BY DEF TypeInv, TypeOK
  <1>2. \A r \in Rows : /\ row'[r] \in Row
                        /\ row'[r].status \in Fresh
                              => row'[r].retries <= MaxRetries
    <2> SUFFICES ASSUME NEW r \in Rows
                 PROVE  /\ row'[r] \in Row
                        /\ row'[r].status \in Fresh
                              => row'[r].retries <= MaxRetries
      OBVIOUS
    <2> DEFINE x == [row[r] EXCEPT !.status = "classifying", !.lapsed = FALSE]
    <2>1. row'[r] = IF r \in S THEN x ELSE row[r]
      BY DEF Leased
    <2>2. x \in Row /\ x.retries = row[r].retries
      <3>1. "classifying" \in Statuses
        BY DEF Statuses
      <3>2. QED BY ONLY <3>1, <1>1 DEF Row, x
    <2>3. r \in S => row[r].retries <= MaxRetries
      BY DEF TypeInv, RetriesLeft
    <2>4. row[r].status \in Fresh => row[r].retries <= MaxRetries
      BY DEF TypeInv, RetriesLeft
    <2> HIDE DEF x
    <2>5. QED BY <1>1, <2>1, <2>2, <2>3, <2>4
  <1>3. row' = [r \in Rows |-> row'[r]]
    BY DEF Leased
  <1>4. QED BY <1>2, <1>3 DEF RetriesLeft

\* What the sweep leaves of a row.
LEMMA SweptRows ==
    ASSUME TypeInv, Sweep
    PROVE  row' \in [Rows -> Row] /\ RetriesLeft'
  <1>1. \A r \in Rows : row[r] \in Row
    BY DEF TypeInv, TypeOK
  <1>2. \A r \in Rows : /\ row'[r] \in Row
                        /\ row'[r].status \in Fresh
                              => row'[r].retries <= MaxRetries
    <2> SUFFICES ASSUME NEW r \in Rows
                 PROVE  /\ row'[r] \in Row
                        /\ row'[r].status \in Fresh
                              => row'[r].retries <= MaxRetries
      OBVIOUS
    <2> DEFINE x == [row[r] EXCEPT !.status = "received", !.lapsed = FALSE]
               y == [row[r] EXCEPT !.status = "gone"]
    <2>1. \/ row'[r] = row[r]
          \/ row'[r] = y
          \/ row'[r] = x /\ (LeaseOver(r) \/ ShouldRetry(r))
      BY DEF Sweep, Swept
    <2>2. x \in Row /\ x.retries = row[r].retries /\ y \in Row /\ y.status \notin Fresh
      <3>1. "received" \in Statuses /\ "gone" \in Statuses
        BY DEF Statuses
      <3>2. QED BY ONLY <3>1, <1>1 DEF Row, Fresh, x, y
    <2>3. LeaseOver(r) \/ ShouldRetry(r) => row[r].retries <= MaxRetries
      BY DEF TypeInv, RetriesLeft, LeaseOver, ShouldRetry, Fresh
    <2>4. row[r].status \in Fresh => row[r].retries <= MaxRetries
      BY DEF TypeInv, RetriesLeft
    <2> HIDE DEF x, y
    <2>5. QED BY <1>1, <2>1, <2>2, <2>3, <2>4
  <1>3. row' = [r \in Rows |-> row'[r]]
    BY DEF Sweep
  <1>4. QED BY <1>2, <1>3 DEF RetriesLeft

\* Rows of the steps Core serves between its turns.
LEMMA ServedRows ==
    ASSUME TypeInv
    PROVE  /\ \A i \in Items : Ingest(i) \/ Lapse(i) => row' \in [Rows -> Row] /\ RetriesLeft'
           /\ \A d \in Callers : Beat(d) => row' \in [Rows -> Row] /\ RetriesLeft'
           /\ \A d \in Drains : Claim(d) => row' \in [Rows -> Row] /\ RetriesLeft'
           /\ \A i \in Items, p \in Personas :
                 ClaimById(i, p) => row' \in [Rows -> Row] /\ RetriesLeft'
  <1> USE RowIds
  <1>1. \A r \in Rows : row[r] \in Row /\ (row[r].status \in Fresh => row[r].retries <= MaxRetries)
    BY DEF TypeInv, TypeOK, RetriesLeft
  <1>2. ASSUME NEW i \in Items, Ingest(i) PROVE row' \in [Rows -> Row] /\ RetriesLeft'
    <2> DEFINE r == <<i, Own>>
    <2>1. row' = [row EXCEPT ![r] = [row[r] EXCEPT !.status = "received"]]
      BY <1>2 DEF Ingest
    <2>2. row[r].retries <= MaxRetries
      BY <1>1, <1>2 DEF Ingest, Fresh
    <2>3. r \in Rows /\ "received" \in Statuses
      BY DEF Statuses
    <2> HIDE DEF r
    <2>4. QED BY <2>1, <2>2, <2>3, StatusSet
  <1>3. ASSUME NEW r \in Rows, NEW b \in BOOLEAN,
               row' = [row EXCEPT ![r] = [row[r] EXCEPT !.lapsed = b]]
        PROVE  row' \in [Rows -> Row] /\ RetriesLeft'
    <2> DEFINE x == [row[r] EXCEPT !.lapsed = b]
    <2>1. x \in Row /\ x.status = row[r].status /\ x.retries = row[r].retries
      BY ONLY <1>1 DEF Row, x
    <2> HIDE DEF x
    <2>2. row' = [row EXCEPT ![r] = x]
      BY <1>3 DEF x
    <2>3. QED BY <1>1, <2>1, <2>2, RowSet
  <1>4. ASSUME NEW i \in Items, Lapse(i) PROVE row' \in [Rows -> Row] /\ RetriesLeft'
    <2> DEFINE r == <<i, Own>>
    <2>1. row' = [row EXCEPT ![r] = [row[r] EXCEPT !.lapsed = TRUE]] /\ r \in Rows
      BY <1>4 DEF Lapse
    <2> HIDE DEF r
    <2>2. QED BY <1>3, <2>1
  <1>5. ASSUME NEW d \in Callers, Beat(d) PROVE row' \in [Rows -> Row] /\ RetriesLeft'
    <2> DEFINE r == <<job[d].item, Own>>
    <2>1. r \in Rows
      BY <1>5 DEF Beat, TypeInv, HandsOK
    <2>2. row' = [row EXCEPT ![r] = [row[r] EXCEPT !.lapsed = FALSE]]
      BY <1>5 DEF Beat
    <2> HIDE DEF r
    <2>3. QED BY <1>3, <2>1, <2>2
  <1>6. ASSUME NEW d \in Drains, Claim(d) PROVE row' \in [Rows -> Row] /\ RetriesLeft'
    <2> DEFINE S == {<<i, Own>> : i \in Received}
    <2>1. S \in SUBSET Rows /\ \A r \in S : row[r].status \in Fresh
      BY DEF Received, Fresh
    <2>2. Leased(S)
      BY <1>6 DEF Claim
    <2> HIDE DEF S
    <2>3. QED BY <2>1, <2>2, LeasedRows
  <1>7. ASSUME NEW i \in Items, NEW p \in Personas, ClaimById(i, p)
        PROVE  row' \in [Rows -> Row] /\ RetriesLeft'
    <2> DEFINE S == {<<i, Own>>}
    <2>1. S \in SUBSET Rows /\ \A r \in S : row[r].status \in Fresh
      BY <1>7 DEF ClaimById, Claimed, Fresh
    <2>2. Leased(S)
      BY <1>7 DEF ClaimById
    <2> HIDE DEF S
    <2>3. QED BY <2>1, <2>2, LeasedRows
  <1>8. QED BY <1>2, <1>4, <1>5, <1>6, <1>7

\* Hands of the steps with which a drain or a request takes work up.
LEMMA TakenUp ==
    ASSUME TypeInv
    PROVE  /\ \A d \in Drains, i \in Items, p \in Personas, T \in SUBSET Personas :
                 Plan(d, i, p, T) => job' \in [Callers -> Job] /\ HandsOK'
           /\ \A d \in Drains, i \in Items :
                 PlanUnknown(d, i) \/ GiveUp(d, i) => job' \in [Callers -> Job] /\ HandsOK'
           /\ \A i \in Items, p \in Personas :
                 ClaimById(i, p) => job' \in [Callers -> Job] /\ HandsOK'
  <1> USE Callings
  <1>1. ASSUME NEW d \in Callers, NEW i \in Items, NEW p \in Personas \cup {None},
               NEW T \in SUBSET Personas, NEW S \in SUBSET Personas, T # {} => p \in T,
               job' = [job EXCEPT ![d] = Planned(i, p, T, S)]
        PROVE  job' \in [Callers -> Job] /\ HandsOK'
    <2> DEFINE j == Planned(i, p, T, S)
    <2>1. j \in Job
      BY JobShapes
    <2>2. j.item = i /\ j.targets = T /\ j.home = p
      BY DEF Planned, Idle
    <2> HIDE DEF j
    <2>3. job' = [job EXCEPT ![d] = j]
      BY <1>1 DEF j
    <2>4. QED BY <1>1, <2>1, <2>2, <2>3, JobSet
  <1>2. ASSUME NEW d \in Drains, NEW i \in Items, NEW p \in Personas, NEW T \in SUBSET Personas,
               Plan(d, i, p, T)
        PROVE  job' \in [Callers -> Job] /\ HandsOK'
    <2>1. PICK S \in SUBSET Personas : job' = [job EXCEPT ![d] = Planned(i, p, T, S)]
      <3>1. PICK O \in {open, open \cup T} :
                job' = [job EXCEPT ![d] =
                          Planned(i, p, T, IF kind[i] = "owner" THEN T ELSE T \cap O)]
        BY <1>2 DEF Plan
      <3>2. (IF kind[i] = "owner" THEN T ELSE T \cap O) \in SUBSET Personas
        OBVIOUS
      <3>3. QED BY <3>1, <3>2
    <2>2. p \in T
      BY <1>2 DEF Plan
    <2>3. QED BY <1>1, <2>1, <2>2
  <1>3. ASSUME NEW d \in Drains, NEW i \in Items, PlanUnknown(d, i)
        PROVE  job' \in [Callers -> Job] /\ HandsOK'
    <2>1. job' = [job EXCEPT ![d] = Planned(i, None, {}, {})]
      BY <1>3 DEF PlanUnknown
    <2>2. {} \in SUBSET Personas
      OBVIOUS
    <2>3. QED BY <1>1, <2>1, <2>2
  <1>4. ASSUME NEW i \in Items, NEW p \in Personas, ClaimById(i, p)
        PROVE  job' \in [Callers -> Job] /\ HandsOK'
    <2>1. job' = [job EXCEPT ![Door] = Planned(i, p, {p}, {p})]
      BY <1>4 DEF ClaimById
    <2>2. {p} \in SUBSET Personas /\ p \in {p}
      OBVIOUS
    <2> DEFINE T == {p}
    <2> HIDE DEF T
    <2>3. job' = [job EXCEPT ![Door] = Planned(i, p, T, T)] /\ T \in SUBSET Personas /\ p \in T
      BY <2>1, <2>2 DEF T
    <2>4. QED BY <1>1, <2>3
  <1>5. ASSUME NEW d \in Drains, NEW i \in Items, GiveUp(d, i)
        PROVE  job' \in [Callers -> Job] /\ HandsOK'
    <2> DEFINE j == [Idle EXCEPT !.at = "thrown", !.item = i]
    <2>1. j \in Job /\ j.at = "thrown" /\ j.item = i
      BY DEF Idle, Job
    <2> HIDE DEF j
    <2>2. job' = [job EXCEPT ![d] = j]
      BY <1>5 DEF GiveUp, j
    <2>3. QED BY <2>1, <2>2, JobSet
  <1>6. QED BY <1>2, <1>3, <1>4, <1>5

\* Rows and hands of a resolve.
HandsTyped == job' \in [Callers -> Job] /\ HandsOK' /\ held' \in [Drains -> SUBSET Items]
RowsTyped == row' \in [Rows -> Row] /\ RetriesLeft'

LEMMA BeginTypes == ASSUME TypeInv, NEW d \in Callers, Begin(d) PROVE HandsTyped
  <1> DEFINE S == EffectivePersonaOpen(job[d].said)
             k == [job[d] EXCEPT !.at = "writing", !.said = EffectivePersonaOpen(@)]
             O == Script(k)
             j == [job[d] EXCEPT !.at = "writing", !.said = S, !.todo = O]
  <1>1. /\ job[d] \in Job /\ job[d].item \in Items
        /\ job[d].home \in job[d].targets
    BY DEF TypeInv, TypeOK, HandsOK, Begin
  <1>2. S \in SUBSET Personas
    BY <1>1 DEF EffectivePersonaOpen, Job
  <1>3. k \in Job /\ k.home \in Personas
    <2>1. k = [job[d] EXCEPT !.at = "writing", !.said = S]
      OBVIOUS
    <2>2. job[d].home \in Personas
      BY <1>1 DEF Job
    <2> HIDE DEF S, k
    <2>3. QED BY <1>1, <1>2, <2>1, <2>2 DEF Job
  <1>4. O \in SUBSET Ops
    <2> HIDE DEF k
    <2>1. QED BY <1>3, ScriptOps
  <1>5. j \in Job /\ j.at = "writing" /\ j.item \in Items
    <2> HIDE DEF S, O
    <2>1. QED BY ONLY <1>1, <1>2, <1>4, JobUpdate DEF Job, j
  <1>6. job' = [job EXCEPT ![d] = j] /\ held' = held
    <2>1. job' = [job EXCEPT ![d] = [k EXCEPT !.todo = O]] /\ held' = held
      BY DEF Begin, hands
    <2>2. [k EXCEPT !.todo = O] = j
      <3> HIDE DEF O
      <3>1. QED BY <1>1
    <2>3. QED BY <2>1, <2>2
  <1>7. job' \in [Callers -> Job] /\ HandsOK'
    <2> HIDE DEF j
    <2>1. QED BY <1>5, <1>6, JobSet
  <1>8. QED BY <1>6, <1>7 DEF HandsTyped, TypeInv, TypeOK

LEMMA FailTypes == ASSUME TypeInv, NEW d \in Callers, Fail(d) PROVE HandsTyped /\ RowsTyped
  <1> DEFINE r == <<job[d].item, Own>>
             x == [row[r] EXCEPT !.status = "failed", !.retries = @ + 1]
  <1>1. LetGo(d) /\ job[d].item \in Items
    BY DEF Fail, TypeInv, HandsOK
  <1>2. HandsTyped
    BY <1>1, LettingGo DEF HandsTyped
  <1>3. UNCHANGED row \/ (Claimed(job[d].item) /\ row' = [row EXCEPT ![r] = x])
    BY DEF Fail
  <1>4. row[r] \in Row /\ r \in Rows
    BY <1>1, RowIds DEF TypeInv, TypeOK
  <1>5. ASSUME Claimed(job[d].item) PROVE x \in Row /\ x.status \notin Fresh
    <2>1. row[r].retries <= MaxRetries
      BY <1>4, <1>5 DEF Claimed, TypeInv, RetriesLeft, Fresh
    <2> HIDE DEF r
    <2>2. "failed" \in Statuses
      BY DEF Statuses
    <2>3. row[r].retries + 1 \in 0..MaxRetries+1
      BY <1>4, <2>1, StagingAssumption DEF Row
    <2>4. "failed" \notin Fresh
      BY DEF Fresh
    <2>5. QED BY ONLY <1>4, <2>2, <2>3, <2>4, RowRetries DEF x
  <1> HIDE DEF x, r
  <1>6. RowsTyped
    BY <1>3, <1>4, <1>5, RowSet, SameRows DEF RowsTyped
  <1>7. QED BY <1>2, <1>6

LEMMA ParkTypes ==
    ASSUME TypeInv, NEW d \in Callers, ParkUnknown(d)
    PROVE  HandsTyped /\ RowsTyped
  <1> DEFINE r == <<job[d].item, Own>>
  <1>1. (LetGo(d) \/ Throw(d)) /\ job[d].item \in Items /\ job[d].at # "idle"
    BY DEF ParkUnknown, TypeInv, HandsOK
  <1>2. HandsTyped
    BY <1>1, LettingGo, Throwing DEF HandsTyped
  <1>3. UNCHANGED row \/ row' = [row EXCEPT ![r] = [row[r] EXCEPT !.status = "parked"]]
    BY DEF ParkUnknown
  <1>4. r \in Rows /\ "parked" \in Statuses /\ "parked" \notin Fresh
    BY <1>1, RowIds DEF Statuses, Fresh
  <1> HIDE DEF r
  <1>5. RowsTyped
    BY <1>3, <1>4, StatusSet, SameRows DEF RowsTyped
  <1>6. QED BY <1>2, <1>5

LEMMA CardTypes ==
    ASSUME TypeInv, NEW d \in Callers, NEW p \in Personas, MakeCard(d, p)
    PROVE  HandsTyped
  <1>1. job[d].at # "idle" /\ Writing(d, "card", p) /\ (Done(d, "card", p) \/ Throw(d))
    BY DEF MakeCard, Writing
  <1>2. QED BY <1>1, Doing, Throwing DEF HandsTyped

LEMMA UndoTypes ==
    ASSUME TypeInv, NEW d \in Callers, NEW p \in Personas, Undo(d, p)
    PROVE  HandsTyped
  <1>1. job[d].at # "idle" /\ Writing(d, "undo", p) /\ (Done(d, "undo", p) \/ Throw(d))
    BY DEF Undo, Writing
  <1>2. QED BY <1>1, Doing, Throwing DEF HandsTyped

LEMMA KeepTypes ==
    ASSUME TypeInv, NEW d \in Callers, NEW p \in Personas, Keep(d, p)
    PROVE  HandsTyped
  <1> DEFINE O == job[d].todo \ {<<"vault", p>>}
             S == job[d].kept \cup {p}
             j == [job[d] EXCEPT !.todo = O, !.kept = S]
  <1>1. CASE Done(d, "vault", p)
    <2>1. Writing(d, "vault", p)
      BY DEF Keep
    <2>2. QED BY <1>1, <2>1, Doing DEF HandsTyped
  <1>2. CASE job' = [job EXCEPT ![d] = j]
    <2>1. job[d] \in Job /\ job[d].at = "writing" /\ job[d].item \in Items
      BY DEF TypeInv, TypeOK, HandsOK, Keep, Writing
    <2>2. O \in SUBSET Ops /\ S \in SUBSET Personas
      BY <2>1 DEF Job
    <2>3. j \in Job /\ j.at = "writing" /\ j.item \in Items
      <3> HIDE DEF O, S
      <3>1. QED BY ONLY <2>1, <2>2, JobUpdate DEF Job, j
    <2>4. job' \in [Callers -> Job] /\ HandsOK'
      <3> HIDE DEF j
      <3>1. QED BY <1>2, <2>3, JobSet
    <2>5. QED BY <2>4 DEF HandsTyped, Keep, TypeInv, TypeOK
  <1>3. QED BY <1>1, <1>2 DEF Keep

LEMMA CopyTypes ==
    ASSUME TypeInv, NEW d \in Callers, NEW p \in Personas, MakeCopy(d, p)
    PROVE  HandsTyped /\ RowsTyped
  <1> DEFINE r == <<job[d].item, p>>
             o == <<job[d].item, Own>>
             x == [NoRow EXCEPT !.status = "parked", !.home = p, !.guarded = Asks(job[d]),
                                !.retries = row[o].retries]
             O == {"undo"} \X Locked(job[d])
             j == [job[d] EXCEPT !.todo = O]
  <1>1. /\ job[d] \in Job /\ job[d].at = "writing" /\ job[d].item \in Items
        /\ Writing(d, "copy", p)
    BY DEF TypeInv, TypeOK, HandsOK, MakeCopy, Writing
  <1>2. r \in Rows /\ o \in Rows
    BY <1>1, RowIds DEF Rows
  <1>3. x \in Row /\ x.status \notin Fresh
    <2>1. row[o].retries \in 0..MaxRetries+1
      BY <1>2 DEF TypeInv, TypeOK, Row
    <2>2. Asks(job[d]) \in BOOLEAN
      BY DEF Asks
    <2> DEFINE n == row[o].retries
               b == Asks(job[d])
    <2>3. n \in 0..MaxRetries+1 /\ b \in BOOLEAN
      BY <2>1, <2>2
    <2> HIDE DEF o, n, b
    <2>4. [NoRow EXCEPT !.status = "parked", !.home = p, !.guarded = b, !.retries = n] \in Row
      BY <2>3, StagingAssumption DEF Row, NoRow, Statuses
    <2>5. x = [NoRow EXCEPT !.status = "parked", !.home = p, !.guarded = b, !.retries = n]
      BY DEF n, b
    <2>6. x.status = "parked"
      BY DEF NoRow
    <2>7. QED BY <2>4, <2>5, <2>6 DEF Fresh
  <1>4. UNCHANGED row \/ row' = [row EXCEPT ![r] = x]
    BY DEF MakeCopy
  <1>5. RowsTyped
    <2> HIDE DEF x, r
    <2>1. QED BY <1>2, <1>3, <1>4, RowSet, SameRows DEF RowsTyped
  <1>6. CASE job' = [job EXCEPT ![d].todo = O] /\ UNCHANGED held
    <2>1. O \in SUBSET Ops
      BY <1>1 DEF Locked, Ops, Writes, Job
    <2>2. j \in Job /\ j.at = "writing" /\ j.item \in Items
      <3> HIDE DEF O
      <3>1. QED BY ONLY <1>1, <2>1, JobUpdate DEF Job, j
    <2>3. job' = [job EXCEPT ![d] = j]
      BY <1>6
    <2>4. job' \in [Callers -> Job] /\ HandsOK'
      <3> HIDE DEF j
      <3>1. QED BY <2>2, <2>3, JobSet
    <2>5. QED BY <1>5, <1>6, <2>4 DEF HandsTyped, TypeInv, TypeOK
  <1>7. CASE Done(d, "copy", p) \/ Throw(d)
    BY <1>1, <1>5, <1>7, Doing, Throwing DEF HandsTyped
  <1>8. QED BY <1>6, <1>7 DEF MakeCopy

LEMMA CloseTypes ==
    ASSUME TypeInv, NEW d \in Callers, NEW p \in Personas, Close(d, p)
    PROVE  HandsTyped /\ RowsTyped
  <1> DEFINE r == <<job[d].item, Own>>
             s == IF p \in job[d].said THEN "stored" ELSE "parked"
             b == Asks(job[d]) /\ p \notin job[d].said
             x == [row[r] EXCEPT !.status = s, !.home = p, !.guarded = b]
  <1>1. job[d].item \in Items /\ job[d].at # "idle" /\ (LetGo(d) \/ Throw(d))
    BY DEF TypeInv, HandsOK, Close, Writing
  <1>2. HandsTyped
    BY <1>1, LettingGo, Throwing DEF HandsTyped
  <1>3. r \in Rows /\ row[r] \in Row
    BY <1>1, RowIds DEF TypeInv, TypeOK
  <1>4. UNCHANGED row \/ row' = [row EXCEPT ![r] = x]
    BY DEF Close
  <1>5. s \in Statuses /\ s \notin Fresh /\ b \in BOOLEAN
    BY DEF Statuses, Fresh, Asks
  <1>6. x \in Row /\ x.status = s
    <2> HIDE DEF s, b, r
    <2>1. p \in Personas \cup {None}
      OBVIOUS
    <2>2. \A w \in Row : LET y == [w EXCEPT !.status = s, !.home = p, !.guarded = b]
                        IN  y \in Row /\ y.status = s
      BY ONLY <1>5, <2>1 DEF Row
    <2>3. QED BY ONLY <1>3, <2>2 DEF x
  <1> HIDE DEF s, r, x
  <1>7. RowsTyped
    BY <1>3, <1>4, <1>5, <1>6, RowSet, SameRows DEF RowsTyped
  <1>8. QED BY <1>2, <1>7

\* Rows of a ruling, and the rulings the steps write.
RulingTyped == ruling' \in Ruling \cup {None}

LEMMA RulingRecords ==
    /\ \A c \in Cards, s \in {"drain", "mark", "finish", "refuse", "fail", "bar"} :
          [card |-> c, row |-> c[1], step |-> s] \in Ruling
    /\ \A r \in Rows : [card |-> None, row |-> r, step |-> "drain"] \in Ruling
    /\ \A u \in Ruling, s \in {"drain", "mark", "finish", "refuse", "fail", "bar"} :
          [u EXCEPT !.step = s] \in Ruling
  BY DEF Ruling, Cards

LEMMA RuleTypes == ASSUME TypeInv, RuleStep PROVE RulingTyped /\ RowsTyped
  <1>1. ruling \in Ruling /\ ruling.row \in Rows
    BY DEF RuleStep, RuleKeep, RuleMark, RuleRefuse, RuleEnd, AtStep, TypeInv, TypeOK, Ruling
  <1>2. RulingTyped
    <2>1. \/ ruling' = None
          \/ \E s \in {"mark", "refuse", "finish", "fail"} : Goto(s)
      BY DEF RuleStep, RuleKeep, RuleMark, RuleRefuse, RuleEnd, CutShort
    <2>2. QED BY <1>1, <2>1, RulingRecords DEF Goto, RulingTyped
  <1>3. CASE UNCHANGED row
    BY <1>2, <1>3, SameRows DEF RowsTyped
  <1>4. CASE RuleMark
    <2>1. \/ UNCHANGED row
          \/ row' = [row EXCEPT ![ruling.row] = [row[ruling.row] EXCEPT !.status = "stored"]]
      BY <1>4 DEF RuleMark
    <2>2. "stored" \in Statuses /\ "stored" \notin Fresh
      BY DEF Statuses, Fresh
    <2>3. QED BY <1>1, <1>2, <1>3, <2>1, <2>2, StatusSet DEF RowsTyped
  <1>5. CASE RuleRefuse
    <2> DEFINE r == ruling.row
               x == [row[r] EXCEPT !.status = "failed", !.retries = MaxRetries + 1]
    <2>1. UNCHANGED row \/ row' = [row EXCEPT ![r] = x]
      BY <1>5 DEF RuleRefuse
    <2>2. row[r] \in Row
      BY <1>1 DEF TypeInv, TypeOK
    <2>3. "failed" \in Statuses /\ MaxRetries + 1 \in 0..MaxRetries+1
      BY StagingAssumption DEF Statuses
    <2>4. x \in Row /\ x.status \notin Fresh
      <3> HIDE DEF r
      <3>1. "failed" \notin Fresh
        BY DEF Fresh
      <3>2. QED BY ONLY <2>2, <2>3, <3>1, RowRetries DEF x
    <2> HIDE DEF x
    <2>5. QED BY <1>1, <1>2, <1>3, <2>1, <2>4, RowSet DEF RowsTyped
  <1>6. QED BY <1>3, <1>4, <1>5 DEF RuleStep, RuleKeep, RuleEnd

\* A crash leaves the hands empty, or full of what its callers caught.
LEMMA CrashTypes == ASSUME TypeInv, Crash PROVE HandsTyped
  <1>1. Idle \in Job /\ Idle.at = "idle"
    BY DEF Idle, Job
  <1>2. \A d \in Callers : \/ job'[d] = Idle \/ job'[d] = job[d]
                           \/ /\ job[d].at # "idle"
                              /\ job'[d] = [Idle EXCEPT !.at = "thrown", !.item = job[d].item]
    BY DEF Crash, InTurn
  <1>3. job' = [d \in Callers |-> job'[d]]
    BY DEF Crash
  <1>4. \A d \in Callers : job'[d] \in Job /\
           (job'[d].at # "idle" => /\ job'[d].item \in Items
                                   /\ job'[d].at = "planned" /\ job'[d].targets # {}
                                         => job'[d].home \in job'[d].targets)
    <2> SUFFICES ASSUME NEW d \in Callers
                 PROVE  job'[d] \in Job /\
                          (job'[d].at # "idle" => /\ job'[d].item \in Items
                                                  /\ job'[d].at = "planned" /\ job'[d].targets # {}
                                                        => job'[d].home \in job'[d].targets)
      OBVIOUS
    <2>1. job[d] \in Job /\ (job[d].at # "idle" => job[d].item \in Items)
      BY DEF TypeInv, TypeOK, HandsOK
    <2>2. CASE job'[d] = Idle
      BY <1>1, <2>2
    <2>3. CASE job'[d] = job[d]
      BY <2>1, <2>3 DEF TypeInv, HandsOK
    <2> DEFINE j == [Idle EXCEPT !.at = "thrown", !.item = job[d].item]
    <2>4. CASE job[d].at # "idle" /\ job'[d] = j
      <3>1. j \in Job /\ j.at = "thrown" /\ j.item \in Items
        BY <2>1, <2>4 DEF Idle, Job
      <3> HIDE DEF j
      <3>2. QED BY <2>4, <3>1
    <2>5. QED BY <1>2, <2>2, <2>3, <2>4
  <1>5. held' \in [Drains -> SUBSET Items]
    BY DEF Crash, TypeInv, TypeOK
  <1> HIDE DEF Idle
  <1>6. QED BY <1>3, <1>4, <1>5 DEF HandsTyped, HandsOK

\* What a step adds to the history: a fault, a card cut short, a lapse.
Faulting ==
    /\ UNCHANGED faults \/ Fault
    /\ UNCHANGED torn \/ (Fault /\ \E c \in Cards : torn' = torn \cup {c})
    /\ UNCHANGED lapses \/ (lapses < MaxLapses /\ lapses' = lapses + 1)

LEMMA HistoryStep == TypeInv /\ [Next]_vars => Faulting
  <1> SUFFICES ASSUME TypeInv, [Next]_vars PROVE Faulting
    OBVIOUS
  <1> USE DEF history
  <1>1. ASSUME NEW d, Resolve(d) \/ Fail(d) PROVE Faulting
    <2>1. ASSUME NEW p, MakeCard(d, p) \/ Keep(d, p) \/ MakeCopy(d, p) \/ Undo(d, p) \/ Close(d, p)
          PROVE  Faulting
      BY <2>1 DEF MakeCard, Keep, MakeCopy, Undo, Close, Faulting
    <2>2. Begin(d) \/ Refused(d) \/ ParkUnknown(d) \/ Fail(d) => Faulting
      BY DEF Begin, Refused, ParkUnknown, Fail, Faulting
    <2>3. QED BY <1>1, <2>1, <2>2 DEF Resolve
  <1>2. ASSUME NEW d, Work(d) \/ Beat(d) PROVE Faulting
    <2>1. Claim(d) \/ Beat(d) => Faulting
      BY DEF Claim, Beat, Faulting
    <2>2. ASSUME NEW i, GiveUp(d, i) \/ PlanUnknown(d, i) PROVE Faulting
      BY <2>2 DEF GiveUp, PlanUnknown, Faulting
    <2>3. ASSUME NEW i, NEW p, NEW T, Plan(d, i, p, T) PROVE Faulting
      BY <2>3 DEF Plan, Faulting
    <2>4. QED BY <1>1, <1>2, <2>1, <2>2, <2>3 DEF Work
  <1>3. ASSUME NEW i, Ingest(i) \/ Lapse(i) \/ Age(i) \/ \E p \in Personas : ClaimById(i, p)
        PROVE  Faulting
    BY <1>3 DEF Ingest, ClaimById, Lapse, Age, Faulting
  <1>4. ASSUME NEW c \in Cards, Approve(c) \/ Deny(c) \/ FailCard(c) \/ CardLapse(c) PROVE Faulting
    BY <1>4 DEF Approve, Deny, FailCard, CardLapse, Faulting
  <1>5. /\ \A r : DrainForPersona(r) => Faulting
        /\ \A p : Turn(p) => Faulting
        /\ Sweep \/ UNCHANGED vars => Faulting
    BY DEF DrainForPersona, Turn, Sweep, vars, Faulting
  <1>6. ruling \in Ruling /\ CutShort /\ UNCHANGED lapses => Faulting
    BY DEF CutShort, Ruling, Faulting
  <1>7. RuleStep => Faulting
    <2>1. RuleStep => ruling \in Ruling
      BY DEF RuleStep, RuleKeep, RuleMark, RuleRefuse, RuleEnd, AtStep, TypeInv, TypeOK
    <2>2. RuleStep => (CutShort /\ UNCHANGED lapses) \/ Faulting
      BY DEF RuleStep, RuleKeep, RuleMark, RuleRefuse, RuleEnd, Faulting
    <2>3. QED BY <2>1, <2>2, <1>6
  <1>8. Crash => Faulting
    <2>1. ruling = None \/ ruling \in Ruling
      BY DEF TypeInv, TypeOK
    <2>2. QED BY <2>1, <1>6 DEF Crash, Faulting
  <1>9. QED BY <1>1, <1>2, <1>3, <1>4, <1>5, <1>7, <1>8 DEF Next, Steps

LEMMA TypeStep == TypeInv /\ [Next]_vars => TypeInv'
  <1> SUFFICES ASSUME TypeInv, [Next]_vars PROVE TypeInv'
    OBVIOUS
  <1> USE Callings DEF history
  <1>a. UNCHANGED row => RowsTyped
    BY SameRows DEF RowsTyped
  <1>b. UNCHANGED hands => HandsTyped
    BY SameHands DEF HandsTyped
  <1>c. UNCHANGED ruling => RulingTyped
    BY DEF TypeInv, TypeOK, RulingTyped
  <1>d. ASSUME RowsTyped, HandsTyped, RulingTyped, UNCHANGED kind,
               vault' \in [Personas -> SUBSET Rows], card' \in [Cards -> CardStates],
               open' \subseteq Personas, aged' \subseteq Items
        PROVE  TypeInv'
    <2>1. faults' \in 0..MaxFaults /\ lapses' \in 0..MaxLapses /\ torn' \subseteq Cards
      BY HistoryStep, StagingAssumption DEF Faulting, Fault, TypeInv, TypeOK
    <2>2. QED BY <1>d, <2>1 DEF RowsTyped, HandsTyped, RulingTyped, TypeInv, TypeOK
  <1>e. /\ vault \in [Personas -> SUBSET Rows] /\ card \in [Cards -> CardStates]
        /\ open \subseteq Personas /\ aged \subseteq Items
    BY DEF TypeInv, TypeOK
  <1>f. \A c \in Cards, s \in CardStates : [card EXCEPT ![c] = s] \in [Cards -> CardStates]
    BY <1>e
  <1>0. CASE UNCHANGED vars
    BY <1>0, <1>a, <1>b, <1>c, <1>d, <1>e DEF vars
  <1>1. ASSUME NEW i \in Items, Ingest(i) PROVE TypeInv'
    BY <1>1, <1>b, <1>c, <1>d, <1>e, ServedRows DEF Ingest, RowsTyped
  <1>2. ASSUME NEW i \in Items, NEW p \in Personas, ClaimById(i, p) PROVE TypeInv'
    <2>1. RowsTyped
      BY <1>2, ServedRows DEF RowsTyped
    <2>2. HandsTyped
      BY <1>2, TakenUp DEF HandsTyped, ClaimById, TypeInv, TypeOK
    <2>3. QED BY <1>2, <2>1, <2>2, <1>c, <1>d, <1>e DEF ClaimById
  <1>3. ASSUME NEW i \in Items, Lapse(i) PROVE TypeInv'
    <2>1. RowsTyped
      BY <1>3, ServedRows DEF RowsTyped
    <2>2. QED BY <1>3, <2>1, <1>b, <1>c, <1>d, <1>e DEF Lapse
  <1>4. ASSUME NEW i \in Items, Age(i) PROVE TypeInv'
    BY <1>4, <1>a, <1>b, <1>c, <1>d, <1>e DEF Age
  <1>5. ASSUME NEW d \in Drains, Claim(d) PROVE TypeInv'
    <2>1. RowsTyped
      BY <1>5, ServedRows DEF RowsTyped
    <2>2. Received \in SUBSET Items
      BY DEF Received
    <2>3. HandsTyped
      BY <1>5, <2>2 DEF HandsTyped, Claim, TypeInv, TypeOK, HandsOK
    <2>4. QED BY <1>5, <2>1, <2>3, <1>c, <1>d, <1>e DEF Claim
  <1>6. ASSUME NEW d \in Drains, NEW i \in Items, GiveUp(d, i) \/ PlanUnknown(d, i)
        PROVE  TypeInv'
    <2>1. HandsTyped
      BY <1>6, TakenUp DEF HandsTyped, GiveUp, PlanUnknown, TypeInv, TypeOK
    <2>2. QED BY <1>6, <2>1, <1>a, <1>c, <1>d, <1>e DEF GiveUp, PlanUnknown
  <1>7. ASSUME NEW d \in Drains, NEW i \in Items, NEW p \in Personas,
               NEW T \in SUBSET Personas, Plan(d, i, p, T)
        PROVE  TypeInv'
    <2>1. HandsTyped
      BY <1>7, TakenUp DEF HandsTyped, Plan, TypeInv, TypeOK
    <2>2. open' \subseteq Personas
      BY <1>7, <1>e DEF Plan
    <2>3. QED BY <1>7, <2>1, <2>2, <1>a, <1>c, <1>d, <1>e DEF Plan
  <1>8. ASSUME NEW d \in Callers, Begin(d) \/ Refused(d) PROVE TypeInv'
    <2>1. HandsTyped
      BY <1>8, BeginTypes, Throwing DEF Refused, HandsTyped
    <2>2. QED BY <1>8, <2>1, <1>a, <1>c, <1>d, <1>e DEF Begin, Refused
  <1>9. ASSUME NEW d \in Callers, Fail(d) \/ ParkUnknown(d) PROVE TypeInv'
    BY <1>9, FailTypes, ParkTypes, <1>c, <1>d, <1>e DEF Fail, ParkUnknown
  <1>10. ASSUME NEW d \in Callers, NEW p \in Personas, MakeCard(d, p) \/ Undo(d, p)
         PROVE  TypeInv'
    <2>1. CardFor(job[d], p) \in Cards
      BY <1>10 DEF CardFor, RowFor, Cards, Rows, MakeCard, Undo, Writing, TypeInv, HandsOK
    <2>2. card' \in [Cards -> CardStates]
      BY <1>10, <1>e, <1>f, <2>1 DEF MakeCard, Undo, CardStates
    <2>3. HandsTyped
      BY <1>10, CardTypes, UndoTypes
    <2>4. QED BY <1>10, <2>2, <2>3, <1>a, <1>c, <1>d, <1>e DEF MakeCard, Undo
  <1>11. ASSUME NEW d \in Callers, NEW p \in Personas, Keep(d, p) PROVE TypeInv'
    <2>1. <<job[d].item, Own>> \in Rows
      BY <1>11, RowIds DEF Keep, Writing, TypeInv, HandsOK
    <2>2. vault' \in [Personas -> SUBSET Rows]
      BY <1>11, <1>e, <2>1 DEF Keep
    <2>3. HandsTyped
      BY <1>11, KeepTypes
    <2>4. QED BY <1>11, <2>2, <2>3, <1>a, <1>c, <1>d, <1>e DEF Keep
  <1>12. ASSUME NEW d \in Callers, NEW p \in Personas, MakeCopy(d, p) \/ Close(d, p)
         PROVE  TypeInv'
    BY <1>12, CopyTypes, CloseTypes, <1>c, <1>d, <1>e DEF MakeCopy, Close
  <1>13. ASSUME NEW d \in Callers, Beat(d) PROVE TypeInv'
    <2>1. RowsTyped
      BY <1>13, ServedRows DEF RowsTyped
    <2>2. QED BY <1>13, <2>1, <1>b, <1>c, <1>d, <1>e DEF Beat
  <1>14. ASSUME NEW c \in Cards, Approve(c) PROVE TypeInv'
    <2>1. RulingTyped
      BY <1>14, <1>c, RulingRecords DEF Approve, Rule, RulingTyped
    <2>2. card' \in [Cards -> CardStates]
      BY <1>14, <1>f DEF Approve, CardStates
    <2>3. QED BY <1>14, <2>1, <2>2, <1>a, <1>b, <1>d, <1>e DEF Approve
  <1>15. ASSUME NEW c \in Cards, Deny(c) PROVE TypeInv'
    <2>1. RulingTyped
      BY <1>15, <1>c, RulingRecords DEF Deny, Rule, RulingTyped
    <2>2. card' \in [Cards -> CardStates]
      BY <1>15, <1>f DEF Deny, CardStates
    <2>3. QED BY <1>15, <2>1, <2>2, <1>a, <1>b, <1>d, <1>e DEF Deny
  <1>16. ASSUME NEW c \in Cards, FailCard(c) PROVE TypeInv'
    <2>1. RulingTyped
      BY <1>16, RulingRecords DEF FailCard, Rule, RulingTyped
    <2>2. QED BY <1>16, <2>1, <1>a, <1>b, <1>d, <1>e DEF FailCard
  <1>17. ASSUME NEW c \in Cards, CardLapse(c) PROVE TypeInv'
    <2>1. card' \in [Cards -> CardStates]
      BY <1>17, <1>f DEF CardLapse, CardStates
    <2>2. QED BY <1>17, <2>1, <1>a, <1>b, <1>c, <1>d, <1>e DEF CardLapse
  <1>18. ASSUME NEW r \in Rows, DrainForPersona(r) PROVE TypeInv'
    <2>1. RulingTyped
      BY <1>18, RulingRecords DEF DrainForPersona, RulingTyped
    <2>2. QED BY <1>18, <2>1, <1>a, <1>b, <1>d, <1>e DEF DrainForPersona
  <1>19. ASSUME RuleStep PROVE TypeInv'
    <2>1. RulingTyped /\ RowsTyped /\ ruling \in Ruling
      BY <1>19, RuleTypes DEF RuleStep, RuleKeep, RuleMark, RuleRefuse, RuleEnd, AtStep,
                              TypeInv, TypeOK
    <2>2. vault' \in [Personas -> SUBSET Rows]
      BY <1>19, <1>e, <2>1 DEF RuleStep, RuleKeep, RuleMark, RuleRefuse, RuleEnd, Ruling
    <2>3. card' \in [Cards -> CardStates]
      <3>1. UNCHANGED card \/ \E s \in {"completed", "refused"} :
                                  card' = [card EXCEPT ![ruling.card] = s]
        BY <1>19 DEF RuleStep, RuleKeep, RuleMark, RuleRefuse, RuleEnd
      <3>2. QED BY <1>e, <3>1 DEF CardStates
    <2>4. QED BY <1>19, <2>1, <2>2, <2>3, <1>b, <1>d, <1>e
              DEF RuleStep, RuleKeep, RuleMark, RuleRefuse, RuleEnd
  <1>20. ASSUME NEW p \in Personas, Turn(p) PROVE TypeInv'
    <2>1. open' \subseteq Personas
      BY <1>20, <1>e DEF Turn
    <2>2. QED BY <1>20, <2>1, <1>a, <1>b, <1>c, <1>d, <1>e DEF Turn
  <1>21. CASE Crash
    <2>1. RulingTyped
      BY <1>21 DEF Crash, CutShort, RulingTyped, TypeInv, TypeOK
    <2>2. QED BY <1>21, <2>1, <1>a, <1>d, <1>e, CrashTypes DEF Crash
  <1>22. CASE Sweep
    <2>1. RowsTyped
      BY <1>22, SweptRows DEF RowsTyped
    <2>2. QED BY <1>22, <2>1, <1>b, <1>c, <1>d, <1>e DEF Sweep
  <1>23. QED BY <1>0, <1>1, <1>2, <1>3, <1>4, <1>5, <1>6, <1>7, <1>8, <1>9, <1>10, <1>11, <1>12,
                <1>13, <1>14, <1>15, <1>16, <1>17, <1>18, <1>19, <1>20, <1>21, <1>22
             DEF Next, Steps, Work, Resolve

\* The types hold in every reachable state, for any personas, items and
\* drains and any bound on retries: no path lets a row fail more than
\* MaxRetries + 1 times.
THEOREM TypeCorrect == Spec => []TypeOK
  <1>1. TypeInv => TypeOK
    BY DEF TypeInv
  <1>2. QED BY TypeInit, TypeStep, <1>1, PTL DEF Spec

-----------------------------------------------------------------------------
(* Turns, writers and rulings *)

\* At most one turn runs in Core.
OneTurn ==
    /\ ruling # None => \A d \in Callers : ~InTurn(d)
    /\ \A d, e \in Callers : InTurn(d) /\ InTurn(e) => d = e

\* A plan has written nothing yet.
PlansClean == \A d \in Callers : job[d].at = "planned" => job[d].kept = {}

\* In the middle of its writes, a call has what it looked up and what it
\* has written; before it closes the row, every copy is made.
WriterOK(d) ==
    LET j == job[d]
    IN  j.at = "writing" =>
        /\ Claimed(j.item)
        /\ j.home \in Personas
        /\ j.said \subseteq open
        /\ \A p \in Personas :
              /\ <<"vault", p>> \in j.todo => p \in j.said
              /\ p \in j.kept => <<j.item, Own>> \in vault[p]
              /\ <<"close", p>> \in j.todo =>
                    /\ p = j.home
                    /\ \A q \in Locked(j) \ {p} :
                          <<"copy", q>> \in j.todo \/ row[<<j.item, q>>].status # "none"

\* A ruling that drains has the owner's yes, or an open persona and no card.
RulingOK ==
    ruling # None =>
        /\ ruling.card # None =>
              /\ ruling.row = ruling.card[1]
              /\ ruling.step \in {"drain", "mark", "finish"} => card[ruling.card] = "approved"
              /\ ruling.step \in {"refuse", "fail"} => card[ruling.card] \in Standing
        /\ ruling.card = None => ruling.step \in {"drain", "mark"}
        /\ ruling.step \in {"drain", "mark"} =>
              /\ Waits(ruling.row)
              /\ row[ruling.row].home \in Personas
              /\ IF ruling.card = None
                 THEN ~row[ruling.row].guarded /\ row[ruling.row].home \in open
                 ELSE row[ruling.row].guarded
                         /\ ruling.card = <<ruling.row, row[ruling.row].home>>
        /\ ruling.step = "mark" => ruling.row \in vault[row[ruling.row].home]

Inv ==
    /\ OneTurn /\ PlansClean
    /\ \A d \in Callers : WriterOK(d)
    /\ RulingOK
    /\ StoredIsSomewhere

IInv == TypeInv /\ Inv

\* Between turns no one writes.
LEMMA NoTurn ==
    ASSUME ~Busy
    PROVE  ruling = None /\ \A d \in Callers : ~InTurn(d) /\ job[d].at # "writing"
  BY DEF Busy, InTurn

\* In a turn of d no one else writes.
LEMMA TurnAlone ==
    ASSUME IInv, NEW d \in Callers, TurnOf(d) \/ job[d].at = "writing"
    PROVE  ruling = None /\ \A e \in Callers \ {d} : ~InTurn(e) /\ job[e].at # "writing"
  BY DEF IInv, Inv, OneTurn, TurnOf, InTurn

\* A step that takes no memory away and stores none keeps the stored ones
\* somewhere.
LEMMA StaysSomewhere ==
    ASSUME StoredIsSomewhere,
           \A p \in Personas : vault[p] \subseteq vault'[p],
           \A r \in Rows : row[r].status # "none" => row'[r].status # "none",
           \A i \in Items : row'[<<i, Own>>].status = "stored" => row[<<i, Own>>].status = "stored"
    PROVE  StoredIsSomewhere'
  BY DEF StoredIsSomewhere, Rows

\* A step served between turns: it may put a plan, or what was thrown, into
\* one caller's hands.
LEMMA ServedInv ==
    ASSUME IInv, ~Busy, UNCHANGED vault, RulingOK',
           \A r \in Rows : row[r].status # "none" => row'[r].status # "none",
           \A i \in Items : row'[<<i, Own>>].status = "stored" => row[<<i, Own>>].status = "stored",
           \/ UNCHANGED job
           \/ /\ UNCHANGED ruling
              /\ \E d \in Callers :
                    /\ job'[d].at # "writing" /\ job'[d].kept = {}
                    /\ \A e \in Callers \ {d} : job'[e] = job[e]
    PROVE  Inv'
  <1>1. ruling = None /\ \A d \in Callers : ~InTurn(d) /\ job[d].at # "writing"
    BY NoTurn
  <1>2. OneTurn' /\ PlansClean'
    BY <1>1 DEF IInv, Inv, OneTurn, PlansClean, InTurn
  <1>3. \A d \in Callers : WriterOK(d)'
    <2>1. \A d \in Callers : job'[d].at # "writing"
      BY <1>1
    <2>2. QED BY <2>1 DEF WriterOK
  <1>4. StoredIsSomewhere'
    BY StaysSomewhere DEF IInv, Inv
  <1>5. QED BY <1>2, <1>3, <1>4 DEF Inv

\* A step in the turn of d leaves the others' hands alone.
LEMMA TurnInv ==
    ASSUME IInv, NEW d \in Callers, TurnOf(d) \/ job[d].at = "writing", UNCHANGED ruling,
           \A e \in Callers \ {d} : job'[e] = job[e],
           job'[d].at # "planned",
           WriterOK(d)', StoredIsSomewhere'
    PROVE  Inv'
  <1>1. ruling = None /\ \A e \in Callers \ {d} : ~InTurn(e) /\ job[e].at # "writing"
    BY TurnAlone
  <1>2. OneTurn' /\ PlansClean' /\ RulingOK'
    BY <1>1 DEF IInv, Inv, OneTurn, PlansClean, InTurn, RulingOK
  <1>3. \A e \in Callers : WriterOK(e)'
    <2>1. \A e \in Callers \ {d} : job'[e].at # "writing"
      BY <1>1
    <2>2. QED BY <2>1 DEF WriterOK
  <1>4. QED BY <1>2, <1>3 DEF Inv

\* After letting go or throwing, a caller does not write.
LEMMA HandsDown ==
    ASSUME TypeInv, NEW d \in Callers, LetGo(d) \/ Throw(d)
    PROVE  /\ job'[d].at \in {"idle", "thrown"}
           /\ WriterOK(d)'
           /\ \A e \in Callers \ {d} : job'[e] = job[e]
  <1>1. job \in [Callers -> Job]
    BY DEF TypeInv, TypeOK
  <1>2. /\ job'[d].at \in {"idle", "thrown"}
        /\ \A e \in Callers \ {d} : job'[e] = job[e]
    <2>1. CASE LetGo(d)
      BY <1>1, <2>1 DEF LetGo, Idle
    <2>2. CASE Throw(d)
      <3> DEFINE j == [Idle EXCEPT !.at = "thrown", !.item = job[d].item]
      <3>1. j.at = "thrown"
        BY DEF Idle
      <3>2. job' = [job EXCEPT ![d] = j]
        BY <2>2 DEF Throw
      <3> HIDE DEF j
      <3>3. QED BY <1>1, <3>1, <3>2
    <2>3. QED BY <2>1, <2>2
  <1>3. QED BY <1>2 DEF WriterOK

\* Making one write that is no vault's keeps what the writer knows, if its
\* claim and the copies stay.
LEMMA WriteMade ==
    ASSUME IInv, NEW d \in Callers, NEW w, NEW p, Writing(d, w, p), Done(d, w, p),
           UNCHANGED <<open, vault>>,
           row'[<<job[d].item, Own>>].status = "classifying",
           \A r \in Rows : row[r].status # "none" => row'[r].status # "none",
           w = "copy" => row'[<<job[d].item, p>>].status # "none"
    PROVE  /\ job'[d].at = "writing" /\ WriterOK(d)'
           /\ \A e \in Callers \ {d} : job'[e] = job[e]
  <1>1. job \in [Callers -> Job] /\ job[d].at = "writing" /\ job[d].item \in Items
    BY DEF IInv, TypeInv, TypeOK, HandsOK, Writing
  <1>2. /\ job' = [job EXCEPT ![d] = [job[d] EXCEPT !.todo = @ \ {<<w, p>>}]]
        /\ job'[d] = [job[d] EXCEPT !.todo = @ \ {<<w, p>>}]
    BY <1>1 DEF Done
  <1>3. /\ job'[d].at = "writing" /\ job'[d].item = job[d].item /\ job'[d].home = job[d].home
        /\ job'[d].targets = job[d].targets /\ job'[d].said = job[d].said
        /\ job'[d].kept = job[d].kept /\ job'[d].todo = job[d].todo \ {<<w, p>>}
    BY <1>1, <1>2 DEF Job
  <1>4. \A q \in Locked(job[d]) : <<job[d].item, q>> \in Rows
    BY <1>1 DEF Locked, Rows, Job
  <1>5. WriterOK(d)
    BY DEF IInv, Inv
  <1>6. Locked(job'[d]) = Locked(job[d])
    BY <1>3 DEF Locked
  <1>7. WriterOK(d)'
    <2> SUFFICES
          /\ row'[<<job'[d].item, Own>>].status = "classifying"
          /\ job'[d].home \in Personas
          /\ job'[d].said \subseteq open'
          /\ \A q \in Personas :
                /\ <<"vault", q>> \in job'[d].todo => q \in job'[d].said
                /\ q \in job'[d].kept => <<job'[d].item, Own>> \in vault'[q]
                /\ <<"close", q>> \in job'[d].todo =>
                      /\ q = job'[d].home
                      /\ \A u \in Locked(job'[d]) \ {q} :
                            \/ <<"copy", u>> \in job'[d].todo
                            \/ row'[<<job'[d].item, u>>].status # "none"
      BY DEF WriterOK, Claimed, Locked
    <2>1. /\ row'[<<job'[d].item, Own>>].status = "classifying"
          /\ job'[d].home \in Personas /\ job'[d].said \subseteq open'
      BY <1>1, <1>3, <1>5 DEF WriterOK
    <2>2. \A q \in Personas :
             /\ <<"vault", q>> \in job'[d].todo => q \in job'[d].said
             /\ q \in job'[d].kept => <<job'[d].item, Own>> \in vault'[q]
      BY <1>1, <1>3, <1>5 DEF WriterOK
    <2>3. ASSUME NEW q \in Personas, <<"close", q>> \in job'[d].todo
          PROVE  /\ q = job'[d].home
                 /\ \A u \in Locked(job'[d]) \ {q} :
                       \/ <<"copy", u>> \in job'[d].todo
                       \/ row'[<<job'[d].item, u>>].status # "none"
      <3>1. <<"close", q>> \in job[d].todo
        BY <1>3, <2>3
      <3>2. q = job[d].home /\ \A u \in Locked(job[d]) \ {q} :
               <<"copy", u>> \in job[d].todo \/ row[<<job[d].item, u>>].status # "none"
        BY <1>1, <1>5, <3>1 DEF WriterOK
      <3>3. \A u : <<"copy", u>> = <<w, p>> => row'[<<job[d].item, u>>].status # "none"
        OBVIOUS
      <3>4. QED BY <1>3, <1>4, <1>6, <3>2, <3>3
    <2>4. QED BY <2>1, <2>2, <2>3
  <1>8. QED BY <1>2, <1>3, <1>7

LEMMA InvInit == Init => Inv
  <1> SUFFICES ASSUME Init PROVE Inv
    OBVIOUS
  <1>1. ruling = None /\ \A d \in Callers : job[d].at = "idle"
    BY DEF Init, Idle
  <1>2. \A r \in Rows : row[r].status = "none"
    BY DEF Init, NoRow
  <1>3. StoredIsSomewhere
    BY <1>2, RowIds DEF StoredIsSomewhere
  <1>4. QED BY <1>1, <1>3 DEF Inv, OneTurn, PlansClean, InTurn, WriterOK, RulingOK

\* The steps that take work up.
LEMMA TakenUpInv ==
    ASSUME IInv
    PROVE  /\ \A d \in Drains : Claim(d) => Inv'
           /\ \A d \in Drains, i \in Items : GiveUp(d, i) \/ PlanUnknown(d, i) => Inv'
           /\ \A d \in Drains, i \in Items, p \in Personas, T \in SUBSET Personas :
                 Plan(d, i, p, T) => Inv'
           /\ \A i \in Items, p \in Personas : ClaimById(i, p) => Inv'
  <1> USE Callings
  <1>1. job \in [Callers -> Job]
    BY DEF IInv, TypeInv, TypeOK
  <1>2. ASSUME NEW S, Leased(S)
        PROVE  /\ \A r \in Rows : row[r].status # "none" => row'[r].status # "none"
               /\ \A i \in Items : row'[<<i, Own>>].status = "stored"
                                      => row[<<i, Own>>].status = "stored"
    <2>1. \A r \in Rows : row[r] \in Row
      BY DEF IInv, TypeInv, TypeOK
    <2>2. \A r \in Rows : row'[r] = row[r] \/ row'[r].status = "classifying"
      <3> SUFFICES ASSUME NEW r \in Rows PROVE row'[r] = row[r] \/ row'[r].status = "classifying"
        OBVIOUS
      <3>1. row'[r] = IF r \in S THEN [row[r] EXCEPT !.status = "classifying", !.lapsed = FALSE]
                                 ELSE row[r]
        BY <1>2 DEF Leased
      <3>2. [row[r] EXCEPT !.status = "classifying", !.lapsed = FALSE].status = "classifying"
        BY ONLY <2>1 DEF Row
      <3>3. QED BY <3>1, <3>2
    <2>3. QED BY <2>2, RowIds
  <1>3. ASSUME NEW d \in Callers, NEW i, NEW p, NEW T, NEW S,
               job' = [job EXCEPT ![d] = Planned(i, p, T, S)]
        PROVE  \E e \in Callers : /\ job'[e].at # "writing" /\ job'[e].kept = {}
                                  /\ \A f \in Callers \ {e} : job'[f] = job[f]
    <2> DEFINE j == Planned(i, p, T, S)
    <2>1. j.at = "planned" /\ j.kept = {}
      BY DEF Planned, Idle
    <2> HIDE DEF j
    <2>2. job' = [job EXCEPT ![d] = j]
      BY <1>3 DEF j
    <2>3. QED BY <1>1, <2>1, <2>2
  <1>4. ~Busy /\ UNCHANGED ruling => RulingOK'
    BY NoTurn DEF RulingOK
  <1>5. ASSUME NEW d \in Drains, Claim(d) PROVE Inv'
    <2>1. Leased({<<i, Own>> : i \in Received}) /\ ~Busy /\ UNCHANGED <<vault, job, ruling>>
      BY <1>5 DEF Claim
    <2>2. QED BY <2>1, <1>2, <1>4, ServedInv
  <1>6. ASSUME NEW d \in Drains, NEW i \in Items, GiveUp(d, i) PROVE Inv'
    <2> DEFINE j == [Idle EXCEPT !.at = "thrown", !.item = i]
    <2>1. j.at # "writing" /\ j.kept = {}
      BY DEF Idle
    <2>2. ~Busy /\ UNCHANGED <<row, vault, ruling>> /\ job' = [job EXCEPT ![d] = j]
      BY <1>6 DEF GiveUp
    <2> HIDE DEF j
    <2>3. QED BY <2>1, <2>2, <1>1, <1>4, ServedInv
  <1>7. ASSUME NEW d \in Drains, NEW i \in Items, PlanUnknown(d, i) PROVE Inv'
    <2>1. /\ ~Busy /\ UNCHANGED <<row, vault, ruling>>
          /\ job' = [job EXCEPT ![d] = Planned(i, None, {}, {})]
      BY <1>7 DEF PlanUnknown
    <2>2. QED BY <2>1, <1>3, <1>4, ServedInv
  <1>8. ASSUME NEW d \in Drains, NEW i \in Items, NEW p \in Personas, NEW T \in SUBSET Personas,
               Plan(d, i, p, T)
        PROVE  Inv'
    <2>1. /\ ~Busy /\ UNCHANGED <<row, vault, ruling>>
          /\ \E S : job' = [job EXCEPT ![d] = Planned(i, p, T, S)]
      BY <1>8 DEF Plan
    <2>2. QED BY <2>1, <1>3, <1>4, ServedInv
  <1>9. ASSUME NEW i \in Items, NEW p \in Personas, ClaimById(i, p) PROVE Inv'
    <2>1. /\ ~Busy /\ UNCHANGED <<vault, ruling>> /\ Leased({<<i, Own>>})
          /\ job' = [job EXCEPT ![Door] = Planned(i, p, {p}, {p})]
      BY <1>9 DEF ClaimById
    <2>2. \E e \in Callers : /\ job'[e].at # "writing" /\ job'[e].kept = {}
                             /\ \A f \in Callers \ {e} : job'[f] = job[f]
      BY <2>1, <1>3
    <2>3. QED BY <2>1, <2>2, <1>2, <1>4, ServedInv
  <1>10. QED BY <1>5, <1>6, <1>7, <1>8, <1>9

\* The steps of rows, cards and personas that Core serves between its turns.
LEMMA ServedStepInv ==
    ASSUME IInv
    PROVE  /\ \A i \in Items : Ingest(i) \/ Lapse(i) \/ Age(i) => Inv'
           /\ \A d \in Callers : Beat(d) => Inv'
           /\ \A c \in Cards : Approve(c) \/ Deny(c) \/ FailCard(c) \/ CardLapse(c) => Inv'
           /\ \A r \in Rows : DrainForPersona(r) => Inv'
           /\ \A p \in Personas : Turn(p) => Inv'
           /\ Sweep => Inv'
  <1> USE Callings, RowIds
  <1>1. row \in [Rows -> Row] /\ card \in [Cards -> CardStates]
    BY DEF IInv, TypeInv, TypeOK
  <1>2. ~Busy /\ UNCHANGED ruling => RulingOK'
    BY NoTurn DEF RulingOK
  <1>3. ASSUME NEW i \in Items, Ingest(i) PROVE Inv'
    <2>1. /\ ~Busy /\ UNCHANGED <<vault, job, ruling>>
          /\ row' = [row EXCEPT ![<<i, Own>>] = [row[<<i, Own>>] EXCEPT !.status = "received"]]
      BY <1>3 DEF Ingest, hands
    <2>2. \A r \in Rows : row'[r] = row[r] \/ row'[r].status = "received"
      BY <1>1, <2>1 DEF Row
    <2>3. QED BY <2>1, <2>2, <1>2, ServedInv
  <1>4. ASSUME NEW r \in Rows, NEW b \in BOOLEAN,
               row' = [row EXCEPT ![r] = [row[r] EXCEPT !.lapsed = b]]
        PROVE  \A q \in Rows : row'[q].status = row[q].status
    <2>1. [row[r] EXCEPT !.lapsed = b].status = row[r].status
      BY <1>1 DEF Row
    <2> DEFINE x == [row[r] EXCEPT !.lapsed = b]
    <2> HIDE DEF x
    <2>2. row' = [row EXCEPT ![r] = x] /\ x.status = row[r].status
      BY <1>4, <2>1 DEF x
    <2>3. QED BY <1>1, <2>2
  <1>5. ASSUME NEW i \in Items, Lapse(i) PROVE Inv'
    <2>1. /\ ~Busy /\ UNCHANGED <<vault, job, ruling>>
          /\ row' = [row EXCEPT ![<<i, Own>>] = [row[<<i, Own>>] EXCEPT !.lapsed = TRUE]]
      BY <1>5 DEF Lapse, hands
    <2>2. \A q \in Rows : row'[q].status = row[q].status
      BY <2>1, <1>4
    <2>3. QED BY <2>1, <2>2, <1>2, ServedInv
  <1>6. ASSUME NEW d \in Callers, Beat(d) PROVE Inv'
    <2> DEFINE r == <<job[d].item, Own>>
    <2>1. /\ ~Busy /\ UNCHANGED <<vault, job, ruling>>
          /\ row' = [row EXCEPT ![r] = [row[r] EXCEPT !.lapsed = FALSE]]
      BY <1>6 DEF Beat, hands
    <2>2. r \in Rows
      BY <1>6 DEF Beat, IInv, TypeInv, HandsOK
    <2> HIDE DEF r
    <2>3. \A q \in Rows : row'[q].status = row[q].status
      BY <2>1, <2>2, <1>4
    <2>4. QED BY <2>1, <2>3, <1>2, ServedInv
  <1>7. ASSUME NEW i \in Items, Age(i) PROVE Inv'
    BY <1>7, <1>2, ServedInv DEF Age, hands
  <1>8. ASSUME NEW c \in Cards, CardLapse(c) PROVE Inv'
    BY <1>8, <1>2, ServedInv DEF CardLapse, hands
  <1>9. ASSUME NEW p \in Personas, Turn(p) PROVE Inv'
    BY <1>9, <1>2, ServedInv DEF Turn, hands
  <1>10. ASSUME Sweep PROVE Inv'
    <2>1. \A r \in Rows : \/ row'[r] = row[r]
                          \/ row[r].status # "none" /\ row'[r].status \in {"gone", "received"}
      <3> SUFFICES ASSUME NEW r \in Rows
                   PROVE  \/ row'[r] = row[r]
                          \/ row[r].status # "none" /\ row'[r].status \in {"gone", "received"}
        OBVIOUS
      <3>1. \/ row'[r] = row[r]
            \/ row[r].status # "none" /\ row'[r] = [row[r] EXCEPT !.status = "gone"]
            \/ /\ row[r].status # "none"
               /\ row'[r] = [row[r] EXCEPT !.status = "received", !.lapsed = FALSE]
        BY <1>10 DEF Sweep, Swept
      <3>2. /\ [row[r] EXCEPT !.status = "gone"].status = "gone"
            /\ [row[r] EXCEPT !.status = "received", !.lapsed = FALSE].status = "received"
        BY <1>1 DEF Row
      <3>3. QED BY <3>1, <3>2
    <2>2. ~Busy /\ UNCHANGED <<vault, job, ruling>>
      BY <1>10 DEF Sweep, hands
    <2>3. QED BY <2>1, <2>2, <1>2, ServedInv
  <1>11. ASSUME NEW c \in Cards
         PROVE  c # None /\ c[1] \in Rows /\ c[2] \in Personas /\ c = <<c[1], c[2]>>
    BY NoneIsNothing DEF Cards
  <1>12. ASSUME NEW c \in Cards, Approve(c) PROVE Inv'
    <2>1. ~Busy /\ UNCHANGED <<row, vault, job>> /\ card'[c] = "approved"
      BY <1>1, <1>12 DEF Approve, hands
    <2>2. CASE UNCHANGED ruling
      BY <2>1, <2>2, <1>2, ServedInv DEF RulingOK
    <2>3. CASE \E s \in {"drain", "finish", "fail"} :
                  /\ ruling' = [card |-> c, row |-> c[1], step |-> s]
                  /\ s = "drain" => Guards(c) /\ Waits(c[1])
      <3>1. RulingOK'
        BY <2>1, <2>3, <1>11 DEF RulingOK, Guards, Waits, Standing
      <3>2. QED BY <2>1, <3>1, ServedInv
    <2>4. QED BY <1>12, <2>2, <2>3 DEF Approve, Rule
  <1>13. ASSUME NEW c \in Cards, Deny(c) PROVE Inv'
    <2>1. ~Busy /\ UNCHANGED <<row, vault, job>>
      BY <1>13 DEF Deny, hands
    <2>2. \/ UNCHANGED ruling
          \/ ruling' = [card |-> c, row |-> c[1], step |-> "bar"]
      BY <1>13 DEF Deny, Rule
    <2>3. RulingOK'
      BY <2>1, <2>2, <1>2, <1>11 DEF RulingOK
    <2>4. QED BY <2>1, <2>3, ServedInv
  <1>14. ASSUME NEW c \in Cards, FailCard(c) PROVE Inv'
    <2>1. ~Busy /\ UNCHANGED <<row, vault, card, job>> /\ card[c] = "waiting"
      BY <1>14 DEF FailCard, hands
    <2>2. \E s \in {"refuse", "fail"} : ruling' = [card |-> c, row |-> c[1], step |-> s]
      BY <1>14 DEF FailCard, Rule
    <2>3. RulingOK'
      BY <2>1, <2>2, <1>11 DEF RulingOK, Standing
    <2>4. QED BY <2>1, <2>3, ServedInv
  <1>15. ASSUME NEW r \in Rows, DrainForPersona(r) PROVE Inv'
    <2>1. /\ ~Busy /\ UNCHANGED <<row, vault, card, open, job>>
          /\ Unguarded(r) /\ row[r].home \in open
          /\ ruling' = [card |-> None, row |-> r, step |-> "drain"]
      BY <1>15 DEF DrainForPersona, hands
    <2>2. open \subseteq Personas
      BY DEF IInv, TypeInv, TypeOK
    <2>3. RulingOK'
      BY <2>1, <2>2 DEF RulingOK, Unguarded, Waits
    <2>4. QED BY <2>1, <2>3, ServedInv
  <1>16. QED BY <1>3, <1>5, <1>6, <1>7, <1>8, <1>9, <1>10, <1>12, <1>13, <1>14, <1>15

\* A row that is written and was not stored, and is not stored now, leaves
\* the stored ones alone.
LEMMA OneRow ==
    ASSUME TypeInv, NEW r \in Rows, NEW x \in Row, row' = [row EXCEPT ![r] = x],
           x.status \notin {"none", "stored"}
    PROVE  /\ \A q \in Rows : row[q].status # "none" => row'[q].status # "none"
           /\ \A i \in Items : row'[<<i, Own>>].status = "stored" => row[<<i, Own>>].status = "stored"
  <1>1. row \in [Rows -> Row]
    BY DEF TypeInv, TypeOK
  <1>2. \A q \in Rows : row'[q] = IF q = r THEN x ELSE row[q]
    BY <1>1
  <1>3. QED BY <1>2, RowIds

\* The start of a resolve, and its early ends.
LEMMA BeginInv ==
    ASSUME IInv, NEW d \in Callers
    PROVE  Begin(d) \/ Refused(d) \/ ParkUnknown(d) \/ Fail(d) => Inv'
  <1> USE RowIds
  <1>1. /\ job \in [Callers -> Job] /\ row \in [Rows -> Row]
        /\ TypeInv /\ StoredIsSomewhere
    BY DEF IInv, Inv, TypeInv, TypeOK
  <1>2. ASSUME Begin(d) PROVE Inv'
    <2> DEFINE S == EffectivePersonaOpen(job[d].said)
               k == [job[d] EXCEPT !.at = "writing", !.said = S]
               j == [k EXCEPT !.todo = Script(k)]
    <2>1. /\ TurnOf(d) /\ UNCHANGED <<row, vault, card, open, ruling>>
          /\ job' = [job EXCEPT ![d] = j]
      BY <1>2 DEF Begin
    <2>2. /\ job[d] \in Job /\ job[d].at = "planned" /\ Claimed(job[d].item)
          /\ job[d].home \in job[d].targets /\ job[d].kept = {}
      BY <1>1, <1>2 DEF Begin, TypeInv, HandsOK, IInv, Inv, PlansClean
    <2>3. S \subseteq open /\ S \subseteq job[d].said
      BY DEF EffectivePersonaOpen
    <2>4. /\ k.at = "writing" /\ k.item = job[d].item /\ k.home = job[d].home
          /\ k.said = S /\ k.kept = {} /\ k.targets = job[d].targets
      <3> HIDE DEF S
      <3>1. QED BY <2>2 DEF Job
    <2>5. /\ j.at = "writing" /\ j.item = job[d].item /\ j.home = job[d].home
          /\ j.said = S /\ j.kept = {} /\ j.targets = k.targets /\ j.todo = Script(k)
      <3> DEFINE O == Script(k)
      <3> HIDE DEF S, O
      <3>1. [k EXCEPT !.todo = O] = [job[d] EXCEPT !.at = "writing", !.said = S, !.todo = O]
        BY <2>2 DEF Job
      <3>2. QED BY ONLY <2>2, <2>4, <3>1 DEF Job, j, O
    <2>6. Locked(j) = Locked(k)
      BY <2>4, <2>5 DEF Locked
    <2>7. \A p : /\ <<"vault", p>> \in Script(k) => p \in S
                 /\ <<"close", p>> \in Script(k) =>
                       /\ p = k.home
                       /\ \A q \in Locked(k) \ {p} : <<"copy", q>> \in Script(k)
      <3> HIDE DEF k, S
      <3>1. QED BY <2>4 DEF Script
    <2>8. job'[d] = j /\ \A e \in Callers \ {d} : job'[e] = job[e]
      <3> HIDE DEF j
      <3>1. QED BY <1>1, <2>1
    <2>9. job[d].home \in Personas
      BY <2>2 DEF Job
    <2>10. WriterOK(d)'
      <3> HIDE DEF j, k, S
      <3>1. /\ row'[<<j.item, Own>>].status = "classifying" /\ j.home \in Personas
            /\ j.said \subseteq open'
        BY <2>1, <2>2, <2>3, <2>5, <2>9 DEF Claimed
      <3>2. \A p \in Personas :
               /\ <<"vault", p>> \in j.todo => p \in j.said
               /\ p \in j.kept => <<j.item, Own>> \in vault'[p]
               /\ <<"close", p>> \in j.todo =>
                     /\ p = j.home
                     /\ \A q \in Locked(j) \ {p} :
                           <<"copy", q>> \in j.todo \/ row'[<<j.item, q>>].status # "none"
        BY <2>4, <2>5, <2>6, <2>7
      <3>3. QED BY <2>8, <3>1, <3>2 DEF WriterOK, Claimed, Locked
    <2>11. StoredIsSomewhere'
      BY <1>1, <2>1 DEF StoredIsSomewhere
    <2>12. job'[d].at # "planned"
      <3> HIDE DEF j
      <3>1. QED BY <2>5, <2>8
    <2>13. QED BY <2>1, <2>8, <2>10, <2>11, <2>12, TurnInv
  <1>3. ASSUME Refused(d) PROVE Inv'
    <2>1. TurnOf(d) /\ Throw(d) /\ UNCHANGED <<row, vault, ruling>>
      BY <1>3 DEF Refused
    <2>2. StoredIsSomewhere'
      BY <1>1, <2>1 DEF StoredIsSomewhere
    <2>3. QED BY <1>1, <2>1, <2>2, HandsDown, TurnInv
  <1>4. ASSUME ParkUnknown(d) PROVE Inv'
    <2> DEFINE r == <<job[d].item, Own>>
               x == [row[r] EXCEPT !.status = "parked"]
    <2>1. /\ TurnOf(d) /\ (LetGo(d) \/ Throw(d)) /\ UNCHANGED <<vault, ruling>>
          /\ UNCHANGED row \/ row' = [row EXCEPT ![r] = x]
      BY <1>4 DEF ParkUnknown
    <2>2. r \in Rows
      BY <1>4, <1>1 DEF ParkUnknown, TypeInv, HandsOK
    <2>3. x \in Row /\ x.status = "parked"
      <3> HIDE DEF r
      <3>1. QED BY <1>1, <2>2 DEF Row, Statuses
    <2> HIDE DEF x, r
    <2>4. StoredIsSomewhere'
      <3>1. CASE UNCHANGED row
        BY <1>1, <2>1, <3>1 DEF StoredIsSomewhere
      <3>2. CASE row' = [row EXCEPT ![r] = x]
        BY <1>1, <2>1, <2>2, <2>3, <3>2, OneRow, StaysSomewhere
      <3>3. QED BY <2>1, <3>1, <3>2
    <2>5. QED BY <1>1, <2>1, <2>4, HandsDown, TurnInv
  <1>5. ASSUME Fail(d) PROVE Inv'
    <2> DEFINE r == <<job[d].item, Own>>
               x == [row[r] EXCEPT !.status = "failed", !.retries = @ + 1]
    <2>1. TurnOf(d) /\ LetGo(d) /\ UNCHANGED <<vault, ruling>>
      BY <1>5 DEF Fail
    <2>2. StoredIsSomewhere'
      <3>1. CASE UNCHANGED row
        BY <1>1, <2>1, <3>1 DEF StoredIsSomewhere
      <3>2. CASE Claimed(job[d].item) /\ row' = [row EXCEPT ![r] = x]
        <4>1. row'[r] \in Row /\ r \in Rows
          BY <1>1, <1>5, FailTypes DEF Fail, TypeInv, HandsOK, RowsTyped
        <4>2. x.status = "failed"
          <5>1. row[r] \in Row
            BY <1>1, <4>1
          <5> HIDE DEF r
          <5>2. QED BY <5>1 DEF Row
        <4> HIDE DEF x, r
        <4>3. x \in Row
          BY <1>1, <3>2, <4>1
        <4>4. QED BY <1>1, <2>1, <3>2, <4>1, <4>2, <4>3, OneRow, StaysSomewhere
      <3>3. QED BY <1>5, <3>1, <3>2 DEF Fail
    <2>3. QED BY <1>1, <2>1, <2>2, HandsDown, TurnInv
  <1>6. QED BY <1>2, <1>3, <1>4, <1>5

\* The writes of a resolve.
LEMMA WritesInv ==
    ASSUME IInv, NEW d \in Callers, NEW p \in Personas
    PROVE  MakeCard(d, p) \/ Keep(d, p) \/ MakeCopy(d, p) \/ Undo(d, p) \/ Close(d, p) => Inv'
  <1> USE RowIds
  <1> DEFINE i == job[d].item
             o == <<i, Own>>
  <1>1. /\ job \in [Callers -> Job] /\ row \in [Rows -> Row]
        /\ TypeInv /\ StoredIsSomewhere
        /\ vault \in [Personas -> SUBSET Rows]
    BY DEF IInv, Inv, TypeInv, TypeOK
  <1>2. job[d].at = "writing" =>
           /\ i \in Items /\ row[o].status = "classifying" /\ o \in Rows
           /\ job[d] \in Job
    BY <1>1 DEF IInv, Inv, WriterOK, Claimed, TypeInv, HandsOK
  <1>3. UNCHANGED <<row, vault>> => StoredIsSomewhere'
    BY <1>1 DEF StoredIsSomewhere
  <1>4. ASSUME MakeCard(d, p) \/ Undo(d, p) PROVE Inv'
    <2>1. PICK w \in {"card", "undo"} :
             /\ Writing(d, w, p) /\ (Done(d, w, p) \/ Throw(d))
             /\ UNCHANGED <<row, vault, open, ruling>>
      BY <1>4 DEF MakeCard, Undo
    <2>2. job[d].at = "writing"
      BY <2>1 DEF Writing
    <2>3. CASE Throw(d)
      BY <1>1, <1>3, <2>1, <2>2, <2>3, HandsDown, TurnInv
    <2>4. CASE Done(d, w, p)
      <3>1. /\ job'[d].at = "writing" /\ WriterOK(d)'
            /\ \A e \in Callers \ {d} : job'[e] = job[e]
        BY <1>2, <2>1, <2>2, <2>4, WriteMade
      <3>2. QED BY <1>3, <2>1, <2>2, <3>1, TurnInv
    <2>5. QED BY <2>1, <2>3, <2>4
  <1>5. ASSUME Keep(d, p) PROVE Inv'
    <2>1. Writing(d, "vault", p) /\ job[d].at = "writing" /\ UNCHANGED <<row, open, ruling>>
      BY <1>5 DEF Keep, Writing
    <2>2. CASE UNCHANGED vault /\ Done(d, "vault", p)
      <3>1. /\ job'[d].at = "writing" /\ WriterOK(d)'
            /\ \A e \in Callers \ {d} : job'[e] = job[e]
        BY <1>2, <2>1, <2>2, WriteMade
      <3>2. QED BY <1>3, <2>1, <2>2, <3>1, TurnInv
    <2>3. CASE /\ vault' = [vault EXCEPT ![p] = @ \cup {o}]
               /\ job' = [job EXCEPT ![d].todo = @ \ {<<"vault", p>>}, ![d].kept = @ \cup {p}]
      <3> DEFINE O == job[d].todo \ {<<"vault", p>>}
                 S == job[d].kept \cup {p}
                 j == [job[d] EXCEPT !.todo = O, !.kept = S]
      <3>1. job' = [job EXCEPT ![d] = j]
        BY <2>3
      <3>2. /\ j.at = "writing" /\ j.item = i /\ j.home = job[d].home
            /\ j.said = job[d].said /\ j.targets = job[d].targets
            /\ j.todo = O /\ j.kept = S
        <4> HIDE DEF O, S
        <4>1. QED BY <1>2, <2>1 DEF Job
      <3>3. job'[d] = j /\ \A e \in Callers \ {d} : job'[e] = job[e]
        <4> HIDE DEF j
        <4>1. QED BY <1>1, <3>1
      <3>4. \A q \in Personas : vault[q] \subseteq vault'[q]
        BY <1>1, <2>3
      <3>5. o \in vault'[p]
        BY <1>1, <2>3
      <3>6. WriterOK(d)
        BY DEF IInv, Inv
      <3>7. Locked(j) = Locked(job[d])
        <4> HIDE DEF j
        <4>1. QED BY <3>2 DEF Locked
      <3>8. WriterOK(d)'
        <4> HIDE DEF j
        <4>1. /\ row'[<<j.item, Own>>].status = "classifying"
              /\ j.home \in Personas /\ j.said \subseteq open'
          BY <2>1, <3>2, <3>6 DEF WriterOK, Claimed
        <4>2. ASSUME NEW q \in Personas
              PROVE  /\ <<"vault", q>> \in j.todo => q \in j.said
                     /\ q \in j.kept => <<j.item, Own>> \in vault'[q]
          BY <2>1, <3>2, <3>4, <3>5, <3>6 DEF WriterOK
        <4>3. ASSUME NEW q \in Personas, <<"close", q>> \in j.todo
              PROVE  /\ q = j.home
                     /\ \A u \in Locked(j) \ {q} :
                           <<"copy", u>> \in j.todo \/ row'[<<j.item, u>>].status # "none"
          <5>1. <<"close", q>> \in job[d].todo
            BY <3>2, <4>3
          <5>2. q = job[d].home /\ \A u \in Locked(job[d]) \ {q} :
                   <<"copy", u>> \in job[d].todo \/ row[<<i, u>>].status # "none"
            BY <2>1, <3>6, <5>1 DEF WriterOK
          <5>3. \A u : <<"copy", u>> # <<"vault", p>>
            OBVIOUS
          <5>4. QED BY <2>1, <3>2, <3>7, <5>2, <5>3
        <4>4. QED BY <3>3, <4>1, <4>2, <4>3 DEF WriterOK, Claimed, Locked
      <3>9. StoredIsSomewhere'
        BY <1>1, <2>1, <3>4, StaysSomewhere
      <3>10. job'[d].at # "planned"
        <4> HIDE DEF j
        <4>1. QED BY <3>2, <3>3
      <3>11. QED BY <2>1, <3>3, <3>8, <3>9, <3>10, TurnInv
    <2>4. QED BY <1>5, <2>2, <2>3 DEF Keep
  <1>6. ASSUME MakeCopy(d, p) PROVE Inv'
    <2> DEFINE r == <<i, p>>
               x == [NoRow EXCEPT !.status = "parked", !.home = p, !.guarded = Asks(job[d]),
                                  !.retries = row[o].retries]
               O == {"undo"} \X Locked(job[d])
               j == [job[d] EXCEPT !.todo = O]
    <2>1. Writing(d, "copy", p) /\ job[d].at = "writing" /\ UNCHANGED <<vault, open, ruling>>
      BY <1>6 DEF MakeCopy, Writing
    <2>2. r \in Rows /\ r # o
      BY <1>2, <2>1, StagingAssumption DEF Rows
    <2>3. CASE row[r].status = "none" /\ row' = [row EXCEPT ![r] = x] /\ Done(d, "copy", p)
      <3>1. x.status = "parked"
        BY DEF NoRow
      <3> HIDE DEF x, r
      <3>2. \A q \in Rows : row'[q] = IF q = r THEN x ELSE row[q]
        BY <1>1, <2>3
      <3>3. /\ row'[o].status = "classifying" /\ row'[r].status # "none"
            /\ \A q \in Rows : row[q].status # "none" => row'[q].status # "none"
            /\ \A q \in Rows : row'[q].status = "stored" => row[q].status = "stored"
        BY <1>2, <2>1, <2>2, <3>1, <3>2
      <3>4. /\ job'[d].at = "writing" /\ WriterOK(d)'
            /\ \A e \in Callers \ {d} : job'[e] = job[e]
        BY <1>2, <2>1, <2>3, <3>3, WriteMade DEF r
      <3>5. StoredIsSomewhere'
        BY <1>1, <2>1, <3>3, StaysSomewhere
      <3>6. QED BY <2>1, <3>4, <3>5, TurnInv
    <2>4. CASE row[r].status # "none" /\ UNCHANGED row /\ Done(d, "copy", p)
      <3>1. /\ job'[d].at = "writing" /\ WriterOK(d)'
            /\ \A e \in Callers \ {d} : job'[e] = job[e]
        BY <1>2, <2>1, <2>4, WriteMade
      <3>2. QED BY <1>3, <2>1, <2>4, <3>1, TurnInv
    <2>5. CASE UNCHANGED row /\ Throw(d)
      BY <1>1, <1>3, <2>1, <2>5, HandsDown, TurnInv
    <2>6. CASE UNCHANGED row /\ job' = [job EXCEPT ![d] = j]
      <3>1. /\ j.at = "writing" /\ j.item = i /\ j.home = job[d].home
            /\ j.said = job[d].said /\ j.kept = job[d].kept
            /\ j.todo = O
        <4> HIDE DEF O
        <4>1. QED BY <1>2, <2>1 DEF Job
      <3>2. \A q : <<"vault", q>> \notin O /\ <<"close", q>> \notin O
        OBVIOUS
      <3> HIDE DEF j, O
      <3>3. job'[d] = j /\ \A e \in Callers \ {d} : job'[e] = job[e]
        BY <1>1, <2>6
      <3>4. WriterOK(d)
        BY DEF IInv, Inv
      <3>5. WriterOK(d)'
        <4>1. /\ row'[<<j.item, Own>>].status = "classifying"
              /\ j.home \in Personas /\ j.said \subseteq open'
          BY <2>1, <2>6, <3>1, <3>4 DEF WriterOK, Claimed
        <4>2. \A q \in Personas : q \in j.kept => <<j.item, Own>> \in vault'[q]
          BY <2>1, <3>1, <3>4 DEF WriterOK
        <4>3. QED BY <3>1, <3>2, <3>3, <4>1, <4>2 DEF WriterOK, Claimed
      <3>6. QED BY <1>3, <2>1, <2>6, <3>1, <3>3, <3>5, TurnInv
    <2>7. QED BY <1>6, <2>3, <2>4, <2>5, <2>6 DEF MakeCopy
  <1>7. ASSUME Close(d, p) PROVE Inv'
    <2> DEFINE s == IF p \in job[d].said THEN "stored" ELSE "parked"
               b == Asks(job[d]) /\ p \notin job[d].said
               x == [row[o] EXCEPT !.status = s, !.home = p, !.guarded = b]
    <2>1. /\ Writing(d, "close", p) /\ job[d].at = "writing" /\ UNCHANGED <<vault, open, ruling>>
          /\ LetGo(d) \/ Throw(d)
      BY <1>7 DEF Close, Writing
    <2>2. CASE UNCHANGED row
      BY <1>1, <1>3, <2>1, <2>2, HandsDown, TurnInv
    <2>3. CASE ~TotalLoss(job[d]) /\ row' = [row EXCEPT ![o] = x]
      <3>1. x.status = s
        BY <1>1, <1>2, <2>1 DEF Row
      <3>2. s = "stored" => \E q \in Personas : o \in vault'[q] \/ row'[<<i, q>>].status # "none"
        <4>1. CASE job[d].kept # {}
          <5>1. PICK q \in job[d].kept : TRUE
            BY <4>1
          <5>2. q \in Personas /\ o \in vault[q]
            BY <1>2, <2>1, <5>1 DEF Job, IInv, Inv, WriterOK
          <5>3. QED BY <2>1, <5>2
        <4>2. CASE s = "stored" /\ job[d].kept = {}
          <5>1. PICK q \in Locked(job[d]) : TRUE
            BY <2>3, <4>2 DEF TotalLoss
          <5>2. q # p /\ q \in Personas /\ q # Own
            BY <1>2, <2>1, <4>2, <5>1, StagingAssumption DEF Locked, Job
          <5>3. <<"close", p>> \in job[d].todo /\ <<"copy", q>> \notin job[d].todo
            BY <2>1 DEF Writing, Due, Rank
          <5>4. row[<<i, q>>].status # "none"
            BY <2>1, <5>1, <5>2, <5>3 DEF IInv, Inv, WriterOK
          <5>5. <<i, q>> \in Rows /\ <<i, q>> # o
            BY <1>2, <2>1, <5>2 DEF Rows
          <5>6. row'[<<i, q>>] = row[<<i, q>>]
            BY <1>1, <2>3, <5>5
          <5>7. QED BY <5>2, <5>4, <5>6
        <4>3. QED BY <4>1, <4>2
      <3> HIDE DEF x
      <3>3. \A r \in Rows : row'[r] = IF r = o THEN x ELSE row[r]
        BY <1>1, <2>3
      <3>4. StoredIsSomewhere'
        <4> SUFFICES ASSUME NEW k \in Items, row'[<<k, Own>>].status = "stored"
                     PROVE  \E q \in Personas : \/ <<k, Own>> \in vault'[q]
                                                \/ row'[<<k, q>>].status # "none"
          BY DEF StoredIsSomewhere
        <4>1. CASE k = i
          BY <1>2, <2>1, <3>1, <3>2, <3>3, <4>1
        <4>2. CASE k # i
          <5>1. row[<<k, Own>>].status = "stored"
            BY <3>3, <4>2
          <5>2. PICK q \in Personas : <<k, Own>> \in vault[q] \/ row[<<k, q>>].status # "none"
            BY <1>1, <5>1 DEF StoredIsSomewhere
          <5>3. row'[<<k, q>>] = row[<<k, q>>]
            BY <3>3, <4>2 DEF Rows
          <5>4. QED BY <2>1, <5>2, <5>3
        <4>3. QED BY <4>1, <4>2
      <3>5. QED BY <1>1, <2>1, <3>4, HandsDown, TurnInv
    <2>4. QED BY <1>7, <2>2, <2>3 DEF Close
  <1>8. QED BY <1>4, <1>5, <1>6, <1>7

\* A ruling goes on with what it found when it began.
LEMMA RuleInv == ASSUME IInv, RuleStep PROVE Inv'
  <1>1. /\ ruling # None /\ ruling \in Ruling /\ ruling.row \in Rows
        /\ row \in [Rows -> Row] /\ vault \in [Personas -> SUBSET Rows]
        /\ TypeInv /\ RulingOK
        /\ UNCHANGED job
    <2>1. ruling # None /\ UNCHANGED job
      BY DEF RuleStep, RuleKeep, RuleMark, RuleRefuse, RuleEnd, AtStep, hands
    <2>2. QED BY <2>1 DEF IInv, Inv, TypeInv, TypeOK, Ruling
  <1>2. \A d \in Callers : ~InTurn(d) /\ job[d].at # "writing"
    BY <1>1 DEF IInv, Inv, OneTurn, InTurn
  <1>3. OneTurn' /\ PlansClean' /\ \A d \in Callers : WriterOK(d)'
    BY <1>1, <1>2 DEF OneTurn, PlansClean, InTurn, WriterOK, IInv, Inv
  <1>4. ASSUME NEW s, Goto(s)
        PROVE  ruling'.card = ruling.card /\ ruling'.row = ruling.row /\ ruling'.step = s
    BY <1>1, <1>4 DEF Goto, Ruling
  <1>5. ASSUME RuleKeep PROVE Inv'
    <2> DEFINE p == row[ruling.row].home
    <2>1. /\ ruling.step = "drain" /\ UNCHANGED <<row, card, open>>
          /\ \/ vault' = [vault EXCEPT ![p] = @ \cup {ruling.row}] /\ Goto("mark")
             \/ UNCHANGED vault /\ (ruling' = None \/ (ruling.card # None /\ Goto("refuse")))
      BY <1>5 DEF RuleKeep, AtStep
    <2>2. p \in Personas
      BY <1>1, <2>1 DEF RulingOK
    <2>3. /\ \A q \in Personas : vault[q] \subseteq vault'[q]
          /\ Goto("mark") => ruling.row \in vault'[p] \/ UNCHANGED vault
      BY <1>1, <2>1, <2>2
    <2>4. StoredIsSomewhere'
      BY <2>1, <2>3, StaysSomewhere DEF IInv, Inv
    <2>5. RulingOK'
      <3>1. CASE ruling' = None
        BY <3>1 DEF RulingOK
      <3>2. CASE Goto("refuse") /\ ruling.card # None
        BY <1>1, <1>4, <2>1, <3>2 DEF RulingOK, Standing
      <3>3. CASE vault' = [vault EXCEPT ![p] = @ \cup {ruling.row}] /\ Goto("mark")
        <4>1. ruling.row \in vault'[p]
          BY <1>1, <2>2, <3>3
        <4>2. QED BY <1>1, <1>4, <2>1, <3>3, <4>1 DEF RulingOK, Waits
      <3>4. QED BY <2>1, <3>1, <3>2, <3>3
    <2>6. QED BY <1>3, <2>4, <2>5 DEF Inv
  <1>6. ASSUME RuleMark PROVE Inv'
    <2> DEFINE r == ruling.row
               x == [row[r] EXCEPT !.status = "stored"]
    <2>1. /\ ruling.step = "mark" /\ UNCHANGED <<vault, card, open>>
          /\ \/ /\ row' = [row EXCEPT ![r] = x]
                /\ ruling' = None \/ (ruling.card # None /\ Goto("finish"))
             \/ /\ UNCHANGED row
                /\ ruling' = None \/ (ruling.card # None /\ Goto("refuse"))
      BY <1>6 DEF RuleMark, AtStep
    <2>2. RulingOK'
      BY <1>1, <1>4, <2>1 DEF RulingOK, Standing
    <2>3. row[r].home \in Personas /\ r \in vault[row[r].home]
      BY <1>1, <2>1 DEF RulingOK
    <2>4. x.status = "stored"
      BY <1>1 DEF Row
    <2> HIDE DEF x
    <2>5. UNCHANGED row => StoredIsSomewhere'
      BY <2>1 DEF IInv, Inv, StoredIsSomewhere
    <2>6. ASSUME row' = [row EXCEPT ![r] = x]
          PROVE  StoredIsSomewhere'
      <3>0. \A q \in Rows : row'[q] = IF q = r THEN x ELSE row[q]
        BY <1>1, <2>6
      <3> SUFFICES ASSUME NEW k \in Items, row'[<<k, Own>>].status = "stored"
                   PROVE  \E q \in Personas : \/ <<k, Own>> \in vault'[q]
                                              \/ row'[<<k, q>>].status # "none"
        BY DEF StoredIsSomewhere
      <3>1. CASE r = <<k, Own>>
        BY <2>1, <2>3, <3>1
      <3>2. CASE r # <<k, Own>>
        <4>1. row[<<k, Own>>].status = "stored"
          BY <3>0, <3>2, RowIds
        <4>2. PICK q \in Personas : <<k, Own>> \in vault[q] \/ row[<<k, q>>].status # "none"
          BY <4>1 DEF IInv, Inv, StoredIsSomewhere
        <4>3. row'[<<k, q>>].status # "none" \/ row'[<<k, q>>] = row[<<k, q>>]
          BY <2>4, <3>0 DEF Rows
        <4>4. QED BY <2>1, <4>2, <4>3
      <3>3. QED BY <3>1, <3>2
    <2>7. QED BY <1>3, <2>1, <2>2, <2>5, <2>6 DEF Inv
  <1>7. ASSUME RuleRefuse PROVE Inv'
    <2> DEFINE r == ruling.row
               x == [row[r] EXCEPT !.status = "failed", !.retries = MaxRetries + 1]
    <2>1. /\ ruling.step \in {"refuse", "bar"} /\ UNCHANGED <<vault, card, open>>
          /\ UNCHANGED row \/ row' = [row EXCEPT ![r] = x]
          /\ ruling' = None \/ (ruling.step = "refuse" /\ Goto("fail"))
      BY <1>7 DEF RuleRefuse, AtStep, CutShort
    <2>2. RulingOK'
      BY <1>1, <1>4, <2>1 DEF RulingOK
    <2>3. StoredIsSomewhere'
      <3>1. CASE UNCHANGED row
        BY <2>1, <3>1 DEF IInv, Inv, StoredIsSomewhere
      <3>2. CASE row' = [row EXCEPT ![r] = x]
        <4>1. x \in Row /\ x.status = "failed"
          <5>1. "failed" \in Statuses /\ MaxRetries + 1 \in 0..MaxRetries+1
            BY StagingAssumption DEF Statuses
          <5>2. row[r] \in Row
            BY <1>1
          <5> HIDE DEF r
          <5>3. \A w \in Row :
                   LET y == [w EXCEPT !.status = "failed", !.retries = MaxRetries + 1]
                   IN  y \in Row /\ y.status = "failed"
            BY ONLY <5>1 DEF Row
          <5>4. QED BY ONLY <5>2, <5>3 DEF x
        <4> HIDE DEF x
        <4>2. QED BY <1>1, <2>1, <3>2, <4>1, OneRow, StaysSomewhere DEF IInv, Inv
      <3>3. QED BY <2>1, <3>1, <3>2
    <2>4. QED BY <1>3, <2>2, <2>3 DEF Inv
  <1>8. ASSUME RuleEnd PROVE Inv'
    <2>1. ruling' = None /\ UNCHANGED <<row, vault>>
      BY <1>8 DEF RuleEnd, CutShort
    <2>2. RulingOK' /\ StoredIsSomewhere'
      BY <2>1 DEF RulingOK, IInv, Inv, StoredIsSomewhere
    <2>3. QED BY <1>3, <2>2 DEF Inv
  <1>9. QED BY <1>5, <1>6, <1>7, <1>8 DEF RuleStep

\* A crash ends every turn.
LEMMA CrashInv == ASSUME IInv, Crash PROVE Inv'
  <1>1. ruling' = None /\ UNCHANGED <<row, vault>>
    BY DEF Crash, CutShort
  <1>2. \A d \in Callers :
           /\ job'[d].at # "writing" /\ (job'[d].at = "planned" => job'[d] = job[d])
           /\ d = Door => job'[d].at = "idle"
    <2>1. Idle.at = "idle"
      BY DEF Idle
    <2>2. \A i : [Idle EXCEPT !.at = "thrown", !.item = i].at = "thrown"
      BY DEF Idle
    <2> DEFINE thrown(i) == [Idle EXCEPT !.at = "thrown", !.item = i]
    <2>3. \A d \in Callers : \/ job'[d] = Idle
                             \/ d # Door /\ job'[d] = job[d] /\ job[d].at # "writing"
                             \/ d # Door /\ job'[d] = thrown(job[d].item)
      BY DEF Crash, InTurn
    <2> HIDE DEF thrown
    <2>4. \A i : thrown(i).at = "thrown"
      BY <2>2 DEF thrown
    <2>5. QED BY <2>1, <2>3, <2>4
  <1>3. OneTurn' /\ PlansClean' /\ RulingOK' /\ \A d \in Callers : WriterOK(d)'
    <2>1. \A d \in Callers : ~InTurn(d)'
      BY <1>2 DEF InTurn
    <2>2. QED BY <1>1, <1>2, <2>1 DEF OneTurn, PlansClean, RulingOK, WriterOK, IInv, Inv
  <1>4. StoredIsSomewhere'
    BY <1>1 DEF IInv, Inv, StoredIsSomewhere
  <1>5. QED BY <1>3, <1>4 DEF Inv

LEMMA InvStep == IInv /\ [Next]_vars => Inv'
  <1> SUFFICES ASSUME IInv, [Next]_vars PROVE Inv'
    OBVIOUS
  <1> USE Callings
  <1>1. CASE UNCHANGED vars
    BY <1>1 DEF vars, hands, IInv, Inv, OneTurn, PlansClean, InTurn, WriterOK, RulingOK,
                StoredIsSomewhere, Claimed, Locked, Waits
  <1>2. CASE \/ \E i \in Items : Ingest(i) \/ Lapse(i) \/ Age(i)
             \/ \E d \in Callers : Beat(d)
             \/ \E c \in Cards : Approve(c) \/ Deny(c) \/ FailCard(c) \/ CardLapse(c)
             \/ \E r \in Rows : DrainForPersona(r)
             \/ \E p \in Personas : Turn(p)
             \/ Sweep
    BY <1>2, ServedStepInv
  <1>3. CASE \/ \E d \in Drains : Claim(d)
             \/ \E d \in Drains, i \in Items : GiveUp(d, i) \/ PlanUnknown(d, i)
             \/ \E d \in Drains, i \in Items, p \in Personas, T \in SUBSET Personas :
                   Plan(d, i, p, T)
             \/ \E i \in Items, p \in Personas : ClaimById(i, p)
    BY <1>3, TakenUpInv
  <1>4. CASE \E d \in Callers : Resolve(d) \/ Fail(d)
    BY <1>4, BeginInv, WritesInv DEF Resolve
  <1>5. CASE RuleStep
    BY <1>5, RuleInv
  <1>6. CASE Crash
    BY <1>6, CrashInv
  <1>7. QED BY <1>1, <1>2, <1>3, <1>4, <1>5, <1>6 DEF Next, Steps, Work

\* The inductive invariant: Core runs one turn at a time, a call in the
\* middle of its writes holds its row and reaches open personas only, and a
\* ruling that drains has the owner's yes.
THEOREM Invariance == Spec => []IInv
  <1>1. Init => IInv
    BY TypeInit, InvInit DEF IInv
  <1>2. IInv /\ [Next]_vars => IInv'
    BY TypeStep, InvStep DEF IInv
  <1>3. QED BY <1>1, <1>2, PTL DEF Spec

\* No resolve, retried, overtaken or cut off by a crash, reports a memory as
\* stored that is in no vault and in no parked copy.
THEOREM NothingDropped == Spec => []StoredIsSomewhere
  <1>1. IInv => StoredIsSomewhere
    BY DEF IInv, Inv
  <1>2. QED BY <1>1, Invariance, PTL

-----------------------------------------------------------------------------
(* Endings, approvals and the gate *)

\* What a row that is over may become.
Stays(r) == Over(r) => row'[r].status \in {row[r].status, "gone"}

LEMMA Ending == IInv /\ [Next]_vars => \A r \in Rows : Stays(r)
  <1> SUFFICES ASSUME IInv, [Next]_vars, NEW r \in Rows PROVE Stays(r)
    OBVIOUS
  <1> USE Callings, RowIds
  <1>1. row \in [Rows -> Row]
    BY DEF IInv, TypeInv, TypeOK
  <1>2. UNCHANGED row => Stays(r)
    BY DEF Stays
  <1>3. ASSUME NEW q \in Rows, NEW x, row' = [row EXCEPT ![q] = x],
               ~Over(q) \/ x.status = row[q].status
        PROVE  Stays(r)
    BY <1>1, <1>3 DEF Stays
  <1>4. \A q : row[q].status \in {"none", "received", "classifying", "parked"} => ~Over(q)
    BY DEF Over
  <1>5. ASSUME NEW S \in SUBSET Rows, Leased(S), \A q \in S : row[q].status \in Fresh
        PROVE  Stays(r)
    <2>1. r \notin S => row'[r] = row[r]
      BY <1>5 DEF Leased
    <2>2. r \in S => ~Over(r)
      BY <1>4, <1>5 DEF Fresh
    <2>3. QED BY <2>1, <2>2 DEF Stays
  <1>6. ASSUME NEW i \in Items, Ingest(i) \/ Lapse(i) PROVE Stays(r)
    BY <1>3, <1>4, <1>6 DEF Ingest, Lapse, Claimed
  <1>7. ASSUME NEW i \in Items, NEW p \in Personas, ClaimById(i, p) PROVE Stays(r)
    <2> DEFINE S == {<<i, Own>>}
    <2>1. S \in SUBSET Rows /\ Leased(S) /\ \A q \in S : row[q].status \in Fresh
      BY <1>7 DEF ClaimById, Claimed, Fresh
    <2> HIDE DEF S
    <2>2. QED BY <2>1, <1>5
  <1>8. ASSUME NEW d \in Drains, Claim(d) PROVE Stays(r)
    <2> DEFINE S == {<<i, Own>> : i \in Received}
    <2>1. S \in SUBSET Rows /\ Leased(S) /\ \A q \in S : row[q].status \in Fresh
      BY <1>8 DEF Claim, Received, Fresh
    <2> HIDE DEF S
    <2>2. QED BY <2>1, <1>5
  <1>9. ASSUME NEW d \in Callers, Beat(d) \/ Fail(d) \/ ParkUnknown(d) PROVE Stays(r)
    <2> DEFINE o == <<job[d].item, Own>>
    <2>1. UNCHANGED row \/ (Claimed(job[d].item) /\ \E x : row' = [row EXCEPT ![o] = x])
      BY <1>9 DEF Beat, Fail, ParkUnknown
    <2>2. o \in Rows
      BY <1>9 DEF Beat, Fail, ParkUnknown, IInv, TypeInv, HandsOK
    <2>3. Claimed(job[d].item) => ~Over(o)
      BY <1>4 DEF Claimed
    <2> HIDE DEF o
    <2>4. QED BY <1>2, <1>3, <2>1, <2>2, <2>3
  <1>10. ASSUME NEW d \in Callers, NEW p \in Personas, MakeCopy(d, p) \/ Close(d, p)
         PROVE  Stays(r)
    <2>1. job[d].at = "writing" /\ job[d].item \in Items /\ Claimed(job[d].item)
      BY <1>10 DEF MakeCopy, Close, Writing, IInv, Inv, WriterOK, TypeInv, HandsOK
    <2>2. \/ UNCHANGED row
          \/ /\ row[<<job[d].item, p>>].status = "none"
             /\ \E x : row' = [row EXCEPT ![<<job[d].item, p>>] = x]
          \/ \E x : row' = [row EXCEPT ![<<job[d].item, Own>>] = x]
      BY <1>10 DEF MakeCopy, Close
    <2>3. <<job[d].item, p>> \in Rows /\ ~Over(<<job[d].item, Own>>)
      BY <1>4, <2>1 DEF Rows, Claimed
    <2>4. <<job[d].item, Own>> \in Rows
      BY <2>1
    <2>5. CASE /\ row[<<job[d].item, p>>].status = "none"
               /\ \E x : row' = [row EXCEPT ![<<job[d].item, p>>] = x]
      <3>1. ~Over(<<job[d].item, p>>)
        BY <1>4, <2>5
      <3>2. QED BY <1>3, <2>3, <2>5, <3>1
    <2>6. CASE \E x : row' = [row EXCEPT ![<<job[d].item, Own>>] = x]
      BY <1>3, <2>3, <2>4, <2>6
    <2>7. QED BY <1>2, <2>2, <2>5, <2>6
  <1>11. ASSUME RuleStep PROVE Stays(r)
    <2>1. ruling # None /\ ruling.row \in Rows
      BY <1>11 DEF RuleStep, RuleKeep, RuleMark, RuleRefuse, RuleEnd, AtStep, IInv, TypeInv,
                   TypeOK, Ruling
    <2>2. \/ UNCHANGED row
          \/ /\ ruling.step = "mark" \/ Waits(ruling.row)
             /\ \E x : row' = [row EXCEPT ![ruling.row] = x]
      BY <1>11 DEF RuleStep, RuleKeep, RuleMark, RuleRefuse, RuleEnd, AtStep
    <2>3. ruling.step = "mark" => Waits(ruling.row)
      BY <2>1 DEF IInv, Inv, RulingOK
    <2>4. QED BY <1>2, <1>3, <1>4, <2>1, <2>2, <2>3 DEF Waits
  <1>12. ASSUME Sweep PROVE Stays(r)
    <2>1. \/ row'[r] = row[r]
          \/ row'[r] = [row[r] EXCEPT !.status = "gone"]
          \/ LeaseOver(r) \/ ShouldRetry(r)
      BY <1>12 DEF Sweep, Swept
    <2>2. [row[r] EXCEPT !.status = "gone"].status = "gone"
      BY <1>1 DEF Row
    <2>3. LeaseOver(r) \/ ShouldRetry(r) => ~Over(r)
      BY <1>1, StagingAssumption DEF LeaseOver, ShouldRetry, Over, Row
    <2>4. QED BY <2>1, <2>2, <2>3 DEF Stays
  <1>13. ASSUME NEW d \in Callers, Resolve(d) PROVE Stays(r)
    <2>1. CASE Begin(d) \/ Refused(d) \/ ParkUnknown(d)
      BY <1>2, <1>9, <2>1 DEF Begin, Refused
    <2>2. ASSUME NEW p \in Personas,
                 MakeCard(d, p) \/ Keep(d, p) \/ MakeCopy(d, p) \/ Undo(d, p) \/ Close(d, p)
          PROVE  Stays(r)
      BY <1>2, <1>10, <2>2 DEF MakeCard, Keep, Undo
    <2>3. QED BY <1>13, <2>1, <2>2 DEF Resolve
  <1>14. ASSUME NEW d \in Drains, Work(d) PROVE Stays(r)
    <2>1. d \in Callers
      OBVIOUS
    <2>2. ASSUME NEW i \in Items, GiveUp(d, i) \/ PlanUnknown(d, i) PROVE Stays(r)
      BY <1>2, <2>2 DEF GiveUp, PlanUnknown
    <2>3. ASSUME NEW i \in Items, NEW p \in Personas, NEW T \in SUBSET Personas, Plan(d, i, p, T)
          PROVE  Stays(r)
      BY <1>2, <2>3 DEF Plan
    <2>4. QED BY <1>8, <1>9, <1>13, <1>14, <2>1, <2>2, <2>3 DEF Work
  <1>15. ASSUME NEW i \in Items, Age(i) PROVE Stays(r)
    BY <1>2, <1>15 DEF Age
  <1>16. ASSUME NEW c \in Cards, Approve(c) \/ Deny(c) \/ FailCard(c) \/ CardLapse(c)
         PROVE  Stays(r)
    BY <1>2, <1>16 DEF Approve, Deny, FailCard, CardLapse
  <1>17. ASSUME NEW q \in Rows, DrainForPersona(q) PROVE Stays(r)
    BY <1>2, <1>17 DEF DrainForPersona
  <1>18. ASSUME NEW p \in Personas, Turn(p) PROVE Stays(r)
    BY <1>2, <1>18 DEF Turn
  <1>19. CASE Crash
    BY <1>2, <1>19 DEF Crash
  <1>20. CASE UNCHANGED vars
    BY <1>2, <1>20 DEF vars
  <1>21. CASE Steps
    <2>1. Door \in Callers
      OBVIOUS
    <2>2. ASSUME NEW i \in Items, \/ Ingest(i)
                                  \/ \E p \in Personas : ClaimById(i, p)
                                  \/ Lapse(i) \/ Age(i)
          PROVE  Stays(r)
      BY <1>6, <1>7, <1>15, <2>2
    <2>3. ASSUME NEW d \in Drains, Work(d) \/ Beat(d) PROVE Stays(r)
      BY <1>9, <1>14, <2>3
    <2>4. CASE Resolve(Door) \/ Fail(Door)
      <3>1. CASE Resolve(Door)
        BY <1>13, <2>1, <3>1
      <3>2. CASE Fail(Door)
        BY <1>9, <2>1, <3>2
      <3>3. QED BY <2>4, <3>1, <3>2
    <2>5. CASE \/ \E c \in Cards : Approve(c) \/ Deny(c) \/ FailCard(c) \/ CardLapse(c)
               \/ \E q \in Rows : DrainForPersona(q)
               \/ \E p \in Personas : Turn(p)
      BY <1>16, <1>17, <1>18, <2>5
    <2>6. CASE \E i \in Items : \/ Ingest(i)
                                \/ \E p \in Personas : ClaimById(i, p)
                                \/ Lapse(i) \/ Age(i)
      BY ONLY <2>2, <2>6
    <2>7. CASE \E d \in Drains : Work(d) \/ Beat(d)
      BY ONLY <2>3, <2>7
    <2>8. QED BY ONLY <1>11, <1>19, <1>21, <2>4, <2>5, <2>6, <2>7 DEF Steps
  <1>22. QED BY <1>12, <1>20, <1>21 DEF Next

\* A row that is stored, or failed beyond retry, is not taken up again by any
\* late call, sweep or ruling, whatever the number of drains.
THEOREM EndingsStand == Spec => EndingIsFinal
  <1>1. IInv /\ [Next]_vars =>
           [\A r \in Rows : Over(r) => row'[r].status \in {row[r].status, "gone"}]_vars
    BY Ending DEF Stays
  <1>2. QED BY <1>1, Invariance, PTL DEF Spec, EndingIsFinal

\* The only two ways a memory gets into a vault.
LEMMA Keeping ==
    ASSUME IInv, [Next]_vars
    PROVE  \/ UNCHANGED vault
           \/ \E d \in Callers, p \in Personas :
                 /\ job[d].at = "writing" /\ Keep(d, p)
                 /\ vault' = [vault EXCEPT ![p] = @ \cup {<<job[d].item, Own>>}]
           \/ /\ RuleKeep
              /\ vault' = [vault EXCEPT ![row[ruling.row].home] = @ \cup {ruling.row}]
  <1> USE Callings
  <1>1. ASSUME NEW d \in Callers, NEW p \in Personas, Keep(d, p)
        PROVE  \/ UNCHANGED vault
               \/ /\ job[d].at = "writing"
                  /\ vault' = [vault EXCEPT ![p] = @ \cup {<<job[d].item, Own>>}]
    BY <1>1 DEF Keep, Writing
  <1>2. RuleKeep => \/ UNCHANGED vault
                    \/ vault' = [vault EXCEPT ![row[ruling.row].home] = @ \cup {ruling.row}]
    BY DEF RuleKeep
  <1>3. ASSUME NEW d \in Callers, NEW p \in Personas,
               \/ MakeCard(d, p) \/ MakeCopy(d, p) \/ Undo(d, p) \/ Close(d, p)
               \/ Begin(d) \/ Refused(d) \/ ParkUnknown(d) \/ Fail(d)
        PROVE  UNCHANGED vault
    BY <1>3 DEF MakeCard, MakeCopy, Undo, Close, Begin, Refused, ParkUnknown, Fail
  <1>4. ASSUME NEW d \in Callers, Begin(d) \/ Refused(d) \/ ParkUnknown(d) \/ Fail(d)
        PROVE  UNCHANGED vault
    BY <1>4 DEF Begin, Refused, ParkUnknown, Fail
  <1>5. ASSUME NEW d \in Callers, Resolve(d) \/ Fail(d)
        PROVE  UNCHANGED vault \/ \E p \in Personas : Keep(d, p)
    BY <1>3, <1>4, <1>5 DEF Resolve
  <1>6. ASSUME NEW d \in Drains, Work(d)
        PROVE  UNCHANGED vault \/ \E p \in Personas : Keep(d, p)
    <2>1. CASE Claim(d)
      BY <2>1 DEF Claim
    <2>2. ASSUME NEW i \in Items, GiveUp(d, i) \/ PlanUnknown(d, i) PROVE UNCHANGED vault
      BY <2>2 DEF GiveUp, PlanUnknown
    <2>3. ASSUME NEW i \in Items, NEW p \in Personas, NEW T \in SUBSET Personas, Plan(d, i, p, T)
          PROVE  UNCHANGED vault
      BY <2>3 DEF Plan
    <2>4. QED BY <1>5, <1>6, <2>1, <2>2, <2>3 DEF Work
  <1>7. ASSUME NEW i \in Items, Ingest(i) \/ Lapse(i) \/ Age(i) \/ \E p \in Personas : ClaimById(i, p)
        PROVE  UNCHANGED vault
    BY <1>7 DEF Ingest, Lapse, Age, ClaimById
  <1>8. ASSUME NEW c \in Cards, Approve(c) \/ Deny(c) \/ FailCard(c) \/ CardLapse(c)
        PROVE  UNCHANGED vault
    BY <1>8 DEF Approve, Deny, FailCard, CardLapse
  <1>9. /\ \A r \in Rows : DrainForPersona(r) => UNCHANGED vault
        /\ \A p \in Personas : Turn(p) => UNCHANGED vault
        /\ \A d \in Drains : Beat(d) => UNCHANGED vault
        /\ Crash \/ Sweep \/ UNCHANGED vars => UNCHANGED vault
    BY DEF DrainForPersona, Turn, Beat, Crash, Sweep, vars
  <1>10. RuleStep => UNCHANGED vault \/ RuleKeep
    BY DEF RuleStep, RuleMark, RuleRefuse, RuleEnd
  <1>11. \/ UNCHANGED vault
         \/ \E d \in Callers, p \in Personas : Keep(d, p)
         \/ RuleKeep
    BY <1>5, <1>6, <1>7, <1>8, <1>9, <1>10 DEF Next, Steps
  <1>12. QED BY <1>1, <1>2, <1>11

\* A parked row under a card gets into its vault by the owner's yes to that
\* card only, for any personas, cards and drains.
THEOREM OnlyApprovalFrees == Spec => ApprovalAloneFrees
  <1> DEFINE Freed == \A r \in Rows : \A p \in Personas :
          Waits(r) /\ row[r].guarded /\ r \in vault'[p] \ vault[p] => card[<<r, p>>] = "approved"
  <1>1. IInv /\ [Next]_vars => Freed
    <2> SUFFICES ASSUME IInv, [Next]_vars, NEW r \in Rows, NEW p \in Personas,
                        Waits(r), row[r].guarded, r \in vault'[p] \ vault[p]
                 PROVE  card[<<r, p>>] = "approved"
      OBVIOUS
    <2>1. vault \in [Personas -> SUBSET Rows]
      BY DEF IInv, TypeInv, TypeOK
    <2>2. ASSUME NEW d \in Callers, NEW q \in Personas, job[d].at = "writing",
                 vault' = [vault EXCEPT ![q] = @ \cup {<<job[d].item, Own>>}]
          PROVE  FALSE
      <3>1. r = <<job[d].item, Own>>
        BY <2>1, <2>2
      <3>2. row[r].status = "classifying"
        BY <2>2, <3>1 DEF IInv, Inv, WriterOK, Claimed
      <3>3. QED BY <3>2 DEF Waits
    <2>3. CASE RuleKeep /\ vault' = [vault EXCEPT ![row[ruling.row].home] = @ \cup {ruling.row}]
      <3>1. ruling # None /\ ruling.step = "drain"
        BY <2>3 DEF RuleKeep, AtStep
      <3>2. r = ruling.row /\ p = row[r].home
        BY <2>1, <2>3
      <3>3. ruling.card # None /\ ruling.card = <<r, p>> /\ card[ruling.card] = "approved"
        BY <3>1, <3>2 DEF IInv, Inv, RulingOK
      <3>4. QED BY <3>3
    <2>4. QED BY <2>1, <2>2, <2>3, Keeping
  <1>2. IInv /\ [Next]_vars => [Freed]_vars
    BY <1>1
  <1>3. QED BY <1>2, Invariance, PTL DEF Spec, ApprovalAloneFrees

\* A card moves on, and the verdict it stands for with it.
LEMMA CardMove ==
    ASSUME TypeInv, NEW c \in Cards, NEW s \in CardStates,
           card' = [card EXCEPT ![c] = s], UNCHANGED <<open, vault>>,
           Gate!Later(VerdictOf(card[c]), VerdictOf(s))
    PROVE  Gate!Rule
  <1> DEFINE V == [r \in Rows |-> [p \in Personas |-> VerdictOf(card[<<r, p>>])]]
             w == VerdictOf(s)
  <1>1. c[1] \in Rows /\ c[2] \in Personas /\ c = <<c[1], c[2]>>
    BY DEF Cards
  <1>2. card \in [Cards -> CardStates]
    BY DEF TypeInv, TypeOK
  <1>3. w \in Gate!Verdicts
    BY DEF VerdictOf, Gate!Verdicts
  <1>4. V' = [V EXCEPT ![c[1]][c[2]] = w]
    <2> DEFINE G(r, p) == VerdictOf(card'[<<r, p>>])
               H(r, p) == IF r = c[1] /\ p = c[2] THEN w ELSE VerdictOf(card[<<r, p>>])
    <2>1. V' = [r \in Rows |-> [p \in Personas |-> G(r, p)]]
      OBVIOUS
    <2>2. [V EXCEPT ![c[1]][c[2]] = w] = [r \in Rows |-> [p \in Personas |-> H(r, p)]]
      BY <1>1
    <2>3. \A r \in Rows, p \in Personas : G(r, p) = H(r, p)
      <3>1. \A r \in Rows, p \in Personas :
               card'[<<r, p>>] = IF r = c[1] /\ p = c[2] THEN s ELSE card[<<r, p>>]
        BY <1>1, <1>2 DEF Cards
      <3>2. ASSUME NEW r \in Rows, NEW p \in Personas PROVE G(r, p) = H(r, p)
        <4>1. CASE r = c[1] /\ p = c[2]
          <5>1. card'[<<r, p>>] = s
            BY <3>1, <4>1
          <5>2. G(r, p) = w
            BY <5>1
          <5>3. QED BY <4>1, <5>2
        <4>2. CASE ~(r = c[1] /\ p = c[2])
          <5>1. card'[<<r, p>>] = card[<<r, p>>]
            BY <3>1, <4>2
          <5>2. G(r, p) = VerdictOf(card[<<r, p>>])
            BY <5>1
          <5>3. QED BY <4>2, <5>2
        <4>3. QED BY <4>1, <4>2
      <3>3. QED BY <3>2
    <2> HIDE DEF G, H, V, w
    <2>4. \A r \in Rows : [p \in Personas |-> G(r, p)] = [p \in Personas |-> H(r, p)]
      BY <2>3
    <2>5. QED BY <2>1, <2>2, <2>4
  <1>5. V[c[1]][c[2]] = VerdictOf(card[c])
    BY <1>1
  <1>6. \E m \in Rows, p \in Personas, v \in Gate!Verdicts :
           Gate!Later(V[m][p], v) /\ V' = [V EXCEPT ![m][p] = v]
    <2>1. Gate!Later(V[c[1]][c[2]], w)
      BY <1>5
    <2> HIDE DEF w, V
    <2>2. QED BY <1>1, <1>3, <1>4, <2>1
  <1>7. QED BY <1>6 DEF Gate!Rule

\* A card that is written moves forward.
LEMMA CardStep ==
    ASSUME IInv, [Next]_vars
    PROVE  \/ UNCHANGED card
           \/ /\ UNCHANGED <<open, vault>>
              /\ \E c \in Cards, s \in CardStates :
                    /\ card' = [card EXCEPT ![c] = s]
                    /\ Gate!Later(VerdictOf(card[c]), VerdictOf(s))
  <1> DEFINE Goal == \/ UNCHANGED card
                     \/ /\ UNCHANGED <<open, vault>>
                        /\ \E c \in Cards, s \in CardStates :
                              /\ card' = [card EXCEPT ![c] = s]
                              /\ Gate!Later(VerdictOf(card[c]), VerdictOf(s))
  <1> USE Callings
  <1>1. /\ VerdictOf("none") = "unasked" /\ VerdictOf("waiting") = "asked"
        /\ VerdictOf("approved") = "granted" /\ VerdictOf("completed") = "granted"
        /\ VerdictOf("refused") = "refused" /\ VerdictOf("undone") = "refused"
    BY DEF VerdictOf
  <1>2. ASSUME NEW c \in Cards, NEW s \in CardStates,
               card' = [card EXCEPT ![c] = s], UNCHANGED <<open, vault>>,
               \/ card[c] = "none" /\ s = "waiting"
               \/ card[c] = "waiting" /\ s = "approved"
               \/ card[c] = "approved" /\ s = "completed"
               \/ card[c] \in Standing /\ s \in {"refused", "undone"}
        PROVE  Goal
    <2>1. Gate!Later(VerdictOf(card[c]), VerdictOf(s))
      BY <1>1, <1>2 DEF Gate!Later, Standing
    <2>2. QED BY <1>2, <2>1
  <1>3. ASSUME NEW d \in Callers, NEW p \in Personas, MakeCard(d, p) \/ Undo(d, p) PROVE Goal
    <2> DEFINE c == CardFor(job[d], p)
    <2>1. c \in Cards /\ UNCHANGED <<open, vault>>
      BY <1>3 DEF CardFor, RowFor, Cards, Rows, MakeCard, Undo, Writing, IInv, TypeInv, HandsOK
    <2>2. \/ UNCHANGED card
          \/ card[c] = "none" /\ card' = [card EXCEPT ![c] = "waiting"]
          \/ card[c] \in Standing /\ card' = [card EXCEPT ![c] = "undone"]
      BY <1>3 DEF MakeCard, Undo
    <2>3. "waiting" \in CardStates /\ "undone" \in CardStates
      BY DEF CardStates
    <2> HIDE DEF c
    <2>4. QED BY <1>2, <2>1, <2>2, <2>3
  <1>4. ASSUME NEW c \in Cards, Approve(c) \/ Deny(c) \/ CardLapse(c) PROVE Goal
    <2>1. /\ "approved" \in CardStates /\ "refused" \in CardStates
          /\ UNCHANGED <<open, vault>>
      BY <1>4 DEF CardStates, Approve, Deny, CardLapse
    <2>2. \/ card[c] = "waiting" /\ card' = [card EXCEPT ![c] = "approved"]
          \/ card[c] \in Standing /\ card' = [card EXCEPT ![c] = "refused"]
      BY <1>4 DEF Approve, Deny, CardLapse
    <2>3. QED BY <1>2, <2>1, <2>2
  <1>5. ASSUME RuleEnd PROVE Goal
    <2>1. /\ ruling # None /\ ruling.step \in {"finish", "fail"} /\ UNCHANGED <<open, vault>>
          /\ \/ UNCHANGED card
             \/ card' = [card EXCEPT ![ruling.card] = IF ruling.step = "finish" THEN "completed"
                                                                               ELSE "refused"]
      BY <1>5 DEF RuleEnd, AtStep
    <2>2. /\ ruling.card \in Cards
          /\ ruling.step = "finish" => card[ruling.card] = "approved"
          /\ ruling.step = "fail" => card[ruling.card] \in Standing
      <3>1. ruling \in Ruling /\ RulingOK
        BY <2>1 DEF IInv, Inv, TypeInv, TypeOK
      <3>2. ruling.card # None
        BY <2>1, <3>1 DEF RulingOK
      <3>3. QED BY <2>1, <3>1, <3>2 DEF RulingOK, Ruling
    <2>3. "completed" \in CardStates /\ "refused" \in CardStates
      BY DEF CardStates
    <2>4. QED BY <1>2, <2>1, <2>2, <2>3
  <1>6. ASSUME NEW d \in Callers, Resolve(d) \/ Fail(d) PROVE Goal
    <2>1. ASSUME NEW p \in Personas, Keep(d, p) \/ MakeCopy(d, p) \/ Close(d, p)
          PROVE  UNCHANGED card
      BY <2>1 DEF Keep, MakeCopy, Close
    <2>2. Begin(d) \/ Refused(d) \/ ParkUnknown(d) \/ Fail(d) => UNCHANGED card
      BY DEF Begin, Refused, ParkUnknown, Fail
    <2>3. QED BY <1>3, <1>6, <2>1, <2>2 DEF Resolve
  <1>7. ASSUME NEW d \in Drains, Work(d) PROVE Goal
    <2>1. CASE Claim(d)
      BY <2>1 DEF Claim
    <2>2. ASSUME NEW i \in Items, GiveUp(d, i) \/ PlanUnknown(d, i) PROVE UNCHANGED card
      BY <2>2 DEF GiveUp, PlanUnknown
    <2>3. ASSUME NEW i \in Items, NEW p \in Personas, NEW T \in SUBSET Personas, Plan(d, i, p, T)
          PROVE  UNCHANGED card
      BY <2>3 DEF Plan
    <2>4. QED BY <1>6, <1>7, <2>1, <2>2, <2>3 DEF Work
  <1>8. ASSUME NEW i \in Items, Ingest(i) \/ Lapse(i) \/ Age(i) \/ \E p \in Personas : ClaimById(i, p)
        PROVE  UNCHANGED card
    BY <1>8 DEF Ingest, Lapse, Age, ClaimById
  <1>9. /\ \A c \in Cards : FailCard(c) => UNCHANGED card
        /\ \A r \in Rows : DrainForPersona(r) => UNCHANGED card
        /\ \A p \in Personas : Turn(p) => UNCHANGED card
        /\ \A d \in Drains : Beat(d) => UNCHANGED card
        /\ Crash \/ Sweep \/ UNCHANGED vars => UNCHANGED card
    BY DEF FailCard, DrainForPersona, Turn, Beat, Crash, Sweep, vars
  <1>10. RuleStep => UNCHANGED card \/ RuleEnd
    BY DEF RuleStep, RuleKeep, RuleMark, RuleRefuse
  <1> HIDE DEF Goal
  <1>11. UNCHANGED card => Goal
    BY DEF Goal
  <1>12. Goal
    BY <1>4, <1>5, <1>6, <1>7, <1>8, <1>9, <1>10, <1>11 DEF Next, Steps
  <1>13. QED BY <1>12 DEF Goal

\* The way into the vaults implements the gate: whatever calls cross, a row
\* is kept where its persona is open at that moment or where the owner
\* granted it, and a verdict only goes forward.
THEOREM Gated == Spec => ImplementsGate
  <1> USE DEF Gate!vars
  <1>1. Init => Gate!Init
    <2>1. VerdictOf("none") = "unasked"
      BY DEF VerdictOf
    <2> SUFFICES ASSUME Init PROVE Gate!Init
      OBVIOUS
    <2>2. \A r \in Rows, p \in Personas : VerdictOf(card[<<r, p>>]) = "unasked"
      <3>1. \A r \in Rows, p \in Personas : card[<<r, p>>] = "none"
        BY DEF Init, Cards
      <3>2. QED BY <2>1, <3>1
    <2>3. [r \in Rows |-> [p \in Personas |-> VerdictOf(card[<<r, p>>])]]
             = [r \in Rows |-> [p \in Personas |-> "unasked"]]
      BY <2>2
    <2>4. QED BY <2>3 DEF Init, Gate!Init
  <1>2. IInv /\ [Next]_vars => [Gate!Next]_Gate!vars
    <2> SUFFICES ASSUME IInv, [Next]_vars PROVE Gate!Next \/ UNCHANGED Gate!vars
      OBVIOUS
    <2> USE Callings
    <2>1. UNCHANGED <<open, card, vault>> => UNCHANGED Gate!vars
      OBVIOUS
    <2>2. UNCHANGED <<card, vault>> => Gate!Turn
      <3>1. open' \in SUBSET Personas
        BY TypeStep DEF IInv, TypeInv, TypeOK
      <3>2. QED BY <3>1 DEF Gate!Turn
    <2>3. CASE ~UNCHANGED card
      <3>1. PICK c \in Cards, s \in CardStates :
               /\ UNCHANGED <<open, vault>> /\ card' = [card EXCEPT ![c] = s]
               /\ Gate!Later(VerdictOf(card[c]), VerdictOf(s))
        BY <2>3, CardStep
      <3>2. Gate!Rule
        BY <3>1, CardMove DEF IInv
      <3>3. QED BY <3>2 DEF Gate!Next
    <2>4. CASE UNCHANGED <<card, vault>>
      BY <2>2, <2>4 DEF Gate!Next
    <2>5. ASSUME NEW d \in Callers, NEW p \in Personas, Keep(d, p), job[d].at = "writing",
                 vault' = [vault EXCEPT ![p] = @ \cup {<<job[d].item, Own>>}]
          PROVE  Gate!Next
      <3>1. p \in open
        <4>1. <<"vault", p>> \in job[d].todo
          BY <2>5 DEF Keep, Writing, Due
        <4>2. QED BY <2>5, <4>1 DEF IInv, Inv, WriterOK
      <3>2. <<job[d].item, Own>> \in Rows
        BY <2>5, RowIds DEF IInv, TypeInv, HandsOK
      <3>3. UNCHANGED <<open, card>>
        BY <2>5 DEF Keep
      <3>4. Gate!Keep(<<job[d].item, Own>>, p)
        BY <2>5, <3>1, <3>3 DEF Gate!Keep
      <3>5. QED BY <3>2, <3>4 DEF Gate!Next
    <2>6. ASSUME RuleKeep,
                 vault' = [vault EXCEPT ![row[ruling.row].home] = @ \cup {ruling.row}]
          PROVE  Gate!Next
      <3> DEFINE r == ruling.row
                 p == row[r].home
      <3>1. ruling # None /\ ruling.step = "drain" /\ UNCHANGED <<open, card>>
        BY <2>6 DEF RuleKeep, AtStep
      <3>2. r \in Rows /\ p \in Personas
        BY <3>1 DEF IInv, Inv, RulingOK, TypeInv, TypeOK, Ruling
      <3>3. p \in open \/ card[<<r, p>>] = "approved"
        BY <3>1 DEF IInv, Inv, RulingOK
      <3>4. card[<<r, p>>] = "approved" => VerdictOf(card[<<r, p>>]) = "granted"
        BY DEF VerdictOf
      <3>5. Gate!Keep(r, p)
        BY <2>6, <3>1, <3>2, <3>3, <3>4 DEF Gate!Keep
      <3> HIDE DEF r, p
      <3>6. QED BY <3>2, <3>5 DEF Gate!Next
    <2>7. QED BY <2>3, <2>4, <2>5, <2>6, Keeping
  <1>3. QED BY <1>1, <1>2, Invariance, PTL DEF Spec, Gate!Spec, ImplementsGate

=============================================================================
