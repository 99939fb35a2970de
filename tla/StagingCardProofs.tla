-------------------------- MODULE StagingCardProofs --------------------------
(***************************************************************************)
(* Every row that waits for the owner has a card to decide on.             *)
(*                                                                         *)
(* A row and its card are two writes of one turn, the card first.  So the  *)
(* argument follows the turn: a resolve that reaches its copies and its    *)
(* close has its cards, a card that is approved is in the hands of its     *)
(* ruling, and a ruling that ends its card has moved the row.  Where a     *)
(* crash or a failing write parts the two, the card is torn, and nothing   *)
(* is claimed of that card.                                                *)
(***************************************************************************)
EXTENDS StagingInboxProofs

\* A row under a card is meant for a persona, and waits or is over.
CardedRows ==
    \A r \in Rows : row[r].guarded => row[r].home \in Personas /\ (Waits(r) \/ Over(r))

\* In the middle of a resolve: its primary persona is a target, its copies
\* are for locked secondary personas, and each locked persona has its card, will have it, or all is taken back.
Undoing(j) == \A o \in j.todo : o[1] = "undo"
CardsMade(d) ==
    LET j == job[d]
    IN  j.at = "writing" =>
        /\ j.home \in j.targets
        /\ \A p \in Personas : <<"copy", p>> \in j.todo => p \in Locked(j) \ {j.home}
        /\ Asks(j) => \A p \in Locked(j) :
              <<"card", p>> \in j.todo \/ card[CardFor(j, p)] \in Standing \/ Undoing(j)

\* An approved card is in the hands of its ruling, or torn; one that its
\* ruling bars is refused; a ruling that ends its card has moved the row.
CardsRuled ==
    /\ \A c \in Cards : card[c] = "approved" => (ruling # None /\ ruling.card = c) \/ c \in torn
    /\ ruling # None /\ ruling.step = "bar" => card[ruling.card] = "refused"
    /\ ruling # None /\ ruling.step \in {"finish", "fail"} =>
          ~(Waits(ruling.card[1]) /\ Guards(ruling.card))

\* A card the owner can decide on, is deciding on, or whose end is another's.
Answers(c) ==
    \/ card[c] \in Standing \/ (ruling # None /\ ruling.card = c)
    \/ card[c] = "undone" \/ c[1][1] \in aged \/ c \in torn

\* The card a row is under.
CardOf(r) == <<r, row[r].home>>

CardInv ==
    /\ CardedRows
    /\ \A d \in Callers : CardsMade(d)
    /\ CardsRuled
    /\ \A r \in Rows : Waits(r) /\ row[r].guarded => Answers(CardOf(r))

KInv == IInv /\ CardInv

-----------------------------------------------------------------------------
(* What a step leaves of a row *)

\* The row keeps its home and its card; under a card it stays or is over.
Leaves(r) ==
    /\ row'[r].guarded = row[r].guarded /\ row'[r].home = row[r].home
    /\ row[r].guarded =>
          \/ row'[r].status = row[r].status /\ row'[r].retries = row[r].retries
          \/ row'[r].status \in {"stored", "gone"}
          \/ row'[r].status = "failed" /\ row'[r].retries > MaxRetries

\* The row is the copy a resolve makes, or the row it closes.
Copied(d, p, r) ==
    /\ MakeCopy(d, p) /\ r = <<job[d].item, p>> /\ row[r].status = "none"
    /\ row'[r].status = "parked" /\ row'[r].home = p /\ row'[r].guarded = Asks(job[d])
    /\ \A q \in Rows \ {r} : row'[q] = row[q]
Closed(d, p, r) ==
    /\ Close(d, p) /\ r = <<job[d].item, Own>>
    /\ row'[r].status = (IF p \in job[d].said THEN "stored" ELSE "parked")
    /\ row'[r].home = p /\ row'[r].guarded = (Asks(job[d]) /\ p \notin job[d].said)
    /\ \A q \in Rows \ {r} : row'[q] = row[q]

\* The columns of a row that a write of some others leaves.
LEMMA Columns ==
    ASSUME NEW x \in Row, NEW s, NEW b, NEW n
    PROVE  /\ [x EXCEPT !.status = s].guarded = x.guarded
           /\ [x EXCEPT !.status = s].home = x.home
           /\ [x EXCEPT !.status = s].status = s
           /\ [x EXCEPT !.lapsed = b].guarded = x.guarded
           /\ [x EXCEPT !.lapsed = b].home = x.home
           /\ [x EXCEPT !.lapsed = b].status = x.status
           /\ [x EXCEPT !.lapsed = b].retries = x.retries
           /\ [x EXCEPT !.status = s, !.lapsed = b].guarded = x.guarded
           /\ [x EXCEPT !.status = s, !.lapsed = b].home = x.home
           /\ [x EXCEPT !.status = s, !.retries = n].guarded = x.guarded
           /\ [x EXCEPT !.status = s, !.retries = n].home = x.home
           /\ [x EXCEPT !.status = s, !.retries = n].status = s
           /\ [x EXCEPT !.status = s, !.retries = n].retries = n
  BY DEF Row

\* A row that can still be taken up is under no card.
LEMMA FreshBare ==
    ASSUME CardedRows, NEW r \in Rows,
           row[r].status \in Fresh \/ (row[r].status = "failed" /\ ~(row[r].retries > MaxRetries))
    PROVE  ~row[r].guarded
  BY DEF CardedRows, Waits, Over, Fresh

\* One row is written and keeps its home and its card.
LEMMA OneLeft ==
    ASSUME row \in [Rows -> Row], NEW r \in Rows, NEW q \in Rows, NEW x,
           row' = [row EXCEPT ![q] = x],
           x.guarded = row[q].guarded /\ x.home = row[q].home,
           row[q].guarded =>
              \/ x.status = row[q].status /\ x.retries = row[q].retries
              \/ x.status \in {"stored", "gone"}
              \/ x.status = "failed" /\ x.retries > MaxRetries
    PROVE  Leaves(r)
  <1>1. row'[r] = IF r = q THEN x ELSE row[r]
    OBVIOUS
  <1>2. QED BY <1>1 DEF Leaves

LEMMA LeasedLeft ==
    ASSUME row \in [Rows -> Row], CardedRows, NEW r \in Rows,
           NEW S \in SUBSET Rows, Leased(S), \A q \in S : row[q].status \in Fresh
    PROVE  Leaves(r)
  <1>1. row'[r] = IF r \in S THEN [row[r] EXCEPT !.status = "classifying", !.lapsed = FALSE]
                             ELSE row[r]
    BY DEF Leased
  <1>2. r \in S => ~row[r].guarded
    BY FreshBare
  <1>3. row[r] \in Row
    OBVIOUS
  <1>4. /\ [row[r] EXCEPT !.status = "classifying", !.lapsed = FALSE].guarded = row[r].guarded
        /\ [row[r] EXCEPT !.status = "classifying", !.lapsed = FALSE].home = row[r].home
    BY <1>3, Columns
  <1>5. QED BY <1>1, <1>2, <1>4 DEF Leaves

\* The rows of what Core serves between turns.
LEMMA ServedLeft ==
    ASSUME IInv, CardedRows, NEW r \in Rows
    PROVE  /\ \A i \in Items : Ingest(i) \/ Lapse(i) => Leaves(r)
           /\ \A i \in Items, p \in Personas : ClaimById(i, p) => Leaves(r)
           /\ \A d \in Drains : Claim(d) => Leaves(r)
           /\ \A d \in Callers : Beat(d) => Leaves(r)
           /\ Sweep => Leaves(r)
  <1> USE RowIds
  <1>1. row \in [Rows -> Row]
    BY DEF IInv, TypeInv, TypeOK
  <1>2. \A q \in Rows : row[q] \in Row
    BY <1>1
  <1>3. ASSUME NEW i \in Items, Ingest(i) PROVE Leaves(r)
    <2> DEFINE q == <<i, Own>>
               x == [row[q] EXCEPT !.status = "received"]
    <2>1. row' = [row EXCEPT ![q] = x] /\ q \in Rows
      BY <1>3 DEF Ingest
    <2>2. ~row[q].guarded
      BY <1>3, FreshBare DEF Ingest, Fresh
    <2>3. x.guarded = row[q].guarded /\ x.home = row[q].home
      BY <1>2, <2>1, Columns
    <2> HIDE DEF x, q
    <2>4. QED BY <1>1, <2>1, <2>2, <2>3, OneLeft
  <1>4. ASSUME NEW q \in Rows, NEW b, row' = [row EXCEPT ![q] = [row[q] EXCEPT !.lapsed = b]]
        PROVE  Leaves(r)
    <2> DEFINE x == [row[q] EXCEPT !.lapsed = b]
    <2>1. /\ x.guarded = row[q].guarded /\ x.home = row[q].home
          /\ x.status = row[q].status /\ x.retries = row[q].retries
      BY <1>2, Columns
    <2>2. row' = [row EXCEPT ![q] = x]
      BY <1>4
    <2> HIDE DEF x
    <2>3. QED BY <1>1, <2>1, <2>2, OneLeft
  <1>5. ASSUME NEW i \in Items, Lapse(i) PROVE Leaves(r)
    <2>1. row' = [row EXCEPT ![<<i, Own>>] = [row[<<i, Own>>] EXCEPT !.lapsed = TRUE]]
      BY <1>5 DEF Lapse
    <2>2. QED BY <1>4, <2>1
  <1>6. ASSUME NEW d \in Callers, Beat(d) PROVE Leaves(r)
    <2> DEFINE q == <<job[d].item, Own>>
    <2>1. q \in Rows /\ row' = [row EXCEPT ![q] = [row[q] EXCEPT !.lapsed = FALSE]]
      BY <1>6 DEF Beat, IInv, TypeInv, HandsOK
    <2> HIDE DEF q
    <2>2. QED BY <1>4, <2>1
  <1>7. ASSUME NEW i \in Items, NEW p \in Personas, ClaimById(i, p) PROVE Leaves(r)
    <2> DEFINE S == {<<i, Own>>}
    <2>1. S \in SUBSET Rows /\ Leased(S) /\ \A q \in S : row[q].status \in Fresh
      BY <1>7 DEF ClaimById, Claimed, Fresh
    <2> HIDE DEF S
    <2>2. QED BY <1>1, <2>1, LeasedLeft
  <1>8. ASSUME NEW d \in Drains, Claim(d) PROVE Leaves(r)
    <2> DEFINE S == {<<i, Own>> : i \in Received}
    <2>1. S \in SUBSET Rows /\ Leased(S) /\ \A q \in S : row[q].status \in Fresh
      BY <1>8 DEF Claim, Received, Fresh
    <2> HIDE DEF S
    <2>2. QED BY <1>1, <2>1, LeasedLeft
  <1>9. ASSUME Sweep PROVE Leaves(r)
    <2> DEFINE x == [row[r] EXCEPT !.status = "received", !.lapsed = FALSE]
               y == [row[r] EXCEPT !.status = "gone"]
    <2>1. \/ row'[r] = row[r]
          \/ row'[r] = y
          \/ row'[r] = x /\ (LeaseOver(r) \/ ShouldRetry(r))
      BY <1>9 DEF Sweep, Swept
    <2>2. /\ x.guarded = row[r].guarded /\ x.home = row[r].home
          /\ y.guarded = row[r].guarded /\ y.home = row[r].home /\ y.status = "gone"
      BY <1>2, Columns
    <2>3. LeaseOver(r) \/ ShouldRetry(r) => ~row[r].guarded
      <3>1. ShouldRetry(r) => row[r].status = "failed" /\ ~(row[r].retries > MaxRetries)
        BY <1>2, StagingAssumption DEF ShouldRetry, Row
      <3>2. QED BY <3>1, FreshBare DEF LeaseOver, Fresh
    <2> HIDE DEF x, y
    <2>4. QED BY <2>1, <2>2, <2>3 DEF Leaves
  <1>10. QED BY <1>3, <1>5, <1>6, <1>7, <1>8, <1>9

\* The rows of a catch, of a park and of a ruling.
LEMMA TurnLeft ==
    ASSUME IInv, CardedRows, NEW r \in Rows
    PROVE  /\ \A d \in Callers : Fail(d) \/ ParkUnknown(d) => Leaves(r)
           /\ RuleStep => Leaves(r)
  <1> USE RowIds
  <1>1. row \in [Rows -> Row] /\ (UNCHANGED row => Leaves(r))
    BY DEF IInv, TypeInv, TypeOK, Leaves
  <1>2. \A q \in Rows : row[q] \in Row
    BY <1>1
  <1>3. ASSUME NEW d \in Callers, Fail(d) PROVE Leaves(r)
    <2> DEFINE q == <<job[d].item, Own>>
               n == row[q].retries + 1
               x == [row[q] EXCEPT !.status = "failed", !.retries = n]
    <2>1. q \in Rows /\ (UNCHANGED row \/ (Claimed(job[d].item) /\ row' = [row EXCEPT ![q] = x]))
      BY <1>3 DEF Fail, IInv, TypeInv, HandsOK
    <2>2. Claimed(job[d].item) => ~row[q].guarded
      BY <2>1, FreshBare DEF Claimed, Fresh
    <2>3. x.guarded = row[q].guarded /\ x.home = row[q].home
      <3> HIDE DEF q, n
      <3>1. QED BY <1>2, <2>1, Columns
    <2> HIDE DEF x, q, n
    <2>4. QED BY <1>1, <2>1, <2>2, <2>3, OneLeft
  <1>4. ASSUME NEW d \in Callers, ParkUnknown(d) PROVE Leaves(r)
    <2> DEFINE q == <<job[d].item, Own>>
               x == [row[q] EXCEPT !.status = "parked"]
    <2>1. /\ q \in Rows /\ Claimed(job[d].item)
          /\ UNCHANGED row \/ row' = [row EXCEPT ![q] = x]
      BY <1>4 DEF ParkUnknown, IInv, TypeInv, HandsOK
    <2>2. ~row[q].guarded
      BY <2>1, FreshBare DEF Claimed, Fresh
    <2>3. x.guarded = row[q].guarded /\ x.home = row[q].home
      <3> HIDE DEF q
      <3>1. QED BY <1>2, <2>1, Columns
    <2> HIDE DEF x, q
    <2>4. QED BY <1>1, <2>1, <2>2, <2>3, OneLeft
  <1>5. ASSUME RuleStep PROVE Leaves(r)
    <2> DEFINE q == ruling.row
               x == [row[q] EXCEPT !.status = "stored"]
               y == [row[q] EXCEPT !.status = "failed", !.retries = MaxRetries + 1]
    <2>1. q \in Rows
      BY <1>5 DEF RuleStep, RuleKeep, RuleMark, RuleRefuse, RuleEnd, AtStep, IInv, TypeInv,
                  TypeOK, Ruling
    <2>2. UNCHANGED row \/ row' = [row EXCEPT ![q] = x] \/ row' = [row EXCEPT ![q] = y]
      BY <1>5 DEF RuleStep, RuleKeep, RuleMark, RuleRefuse, RuleEnd
    <2>3. /\ x.guarded = row[q].guarded /\ x.home = row[q].home /\ x.status = "stored"
          /\ y.guarded = row[q].guarded /\ y.home = row[q].home
          /\ y.status = "failed" /\ y.retries = MaxRetries + 1
      <3> HIDE DEF q
      <3>1. QED BY <1>2, <2>1, Columns
    <2>4. MaxRetries + 1 > MaxRetries
      BY StagingAssumption
    <2> HIDE DEF x, y, q
    <2>5. QED BY <1>1, <2>1, <2>2, <2>3, <2>4, OneLeft
  <1>6. QED BY <1>3, <1>4, <1>5

\* The rows of a copy and of a close.
LEMMA CallLeft ==
    ASSUME IInv, NEW r \in Rows, NEW d \in Callers, NEW p \in Personas
    PROVE  /\ MakeCopy(d, p) => Leaves(r) \/ Copied(d, p, r)
           /\ Close(d, p) => Leaves(r) \/ Closed(d, p, r)
  <1>1. row \in [Rows -> Row] /\ (UNCHANGED row => Leaves(r))
    BY DEF IInv, TypeInv, TypeOK, Leaves
  <1>2. job \in [Callers -> Job]
    BY DEF IInv, TypeInv, TypeOK
  <1>3. ASSUME NEW q \in Rows, NEW x, row' = [row EXCEPT ![q] = x]
        PROVE  /\ row'[q] = x /\ \A s \in Rows \ {q} : row'[s] = row[s]
               /\ r # q => Leaves(r)
    BY <1>1, <1>3 DEF Leaves
  <1>4. ASSUME MakeCopy(d, p) PROVE Leaves(r) \/ Copied(d, p, r)
    <2> DEFINE q == <<job[d].item, p>>
               n == row[<<job[d].item, Own>>].retries
               b == Asks(job[d])
               x == [NoRow EXCEPT !.status = "parked", !.home = p, !.guarded = b, !.retries = n]
    <2>1. \/ UNCHANGED row
          \/ row[q].status = "none" /\ row' = [row EXCEPT ![q] = x]
      BY <1>4 DEF MakeCopy
    <2>2. q \in Rows
      BY <1>4 DEF MakeCopy, Writing, Rows, IInv, TypeInv, HandsOK
    <2>3. x.status = "parked" /\ x.home = p /\ x.guarded = b
      <3> HIDE DEF n, b
      <3>1. QED BY DEF NoRow
    <2> HIDE DEF x
    <2>4. CASE r = q /\ row[q].status = "none" /\ row' = [row EXCEPT ![q] = x]
      <3>1. row'[q] = x /\ \A s \in Rows \ {q} : row'[s] = row[s]
        BY <1>3, <2>2, <2>4
      <3>2. QED BY <1>4, <2>3, <2>4, <3>1 DEF Copied
    <2>5. QED BY <1>1, <1>3, <2>1, <2>2, <2>4
  <1>5. ASSUME Close(d, p) PROVE Leaves(r) \/ Closed(d, p, r)
    <2> DEFINE q == <<job[d].item, Own>>
               s == IF p \in job[d].said THEN "stored" ELSE "parked"
               b == Asks(job[d]) /\ p \notin job[d].said
               x == [row[q] EXCEPT !.status = s, !.home = p, !.guarded = b]
    <2>1. UNCHANGED row \/ row' = [row EXCEPT ![q] = x]
      BY <1>5 DEF Close
    <2>2. q \in Rows
      BY <1>5 DEF Close, Writing, Rows, IInv, TypeInv, HandsOK
    <2>3. x.status = s /\ x.home = p /\ x.guarded = b
      <3>1. row[q] \in Row
        BY <1>1, <2>2
      <3> HIDE DEF s, b, q
      <3>2. QED BY <3>1 DEF Row
    <2> HIDE DEF x
    <2>4. CASE r = q /\ row' = [row EXCEPT ![q] = x]
      <3>1. row'[q] = x /\ \A u \in Rows \ {q} : row'[u] = row[u]
        BY <1>3, <2>2, <2>4
      <3>2. QED BY <1>5, <2>3, <2>4, <3>1 DEF Closed
    <2>5. QED BY <1>1, <1>3, <2>1, <2>2, <2>4
  <1>6. QED BY <1>4, <1>5

\* A step leaves a row as it is under its card, or is the copy or the close
\* that puts it there.
LEMMA RowMoves ==
    ASSUME IInv, CardedRows, [Next]_vars, NEW r \in Rows
    PROVE  \/ Leaves(r)
           \/ \E d \in Callers, p \in Personas : Copied(d, p, r) \/ Closed(d, p, r)
  <1> DEFINE Goal == \/ Leaves(r)
                     \/ \E d \in Callers, p \in Personas : Copied(d, p, r) \/ Closed(d, p, r)
  <1> USE Callings
  <1>1. UNCHANGED row => Goal
    BY DEF Leaves
  <1>2. ASSUME NEW d \in Callers, Resolve(d) \/ Fail(d) PROVE Goal
    <2>1. Begin(d) \/ Refused(d) => Goal
      BY <1>1 DEF Begin, Refused
    <2>2. ParkUnknown(d) \/ Fail(d) => Goal
      BY TurnLeft
    <2>3. ASSUME NEW p \in Personas, MakeCard(d, p) \/ Keep(d, p) \/ Undo(d, p) PROVE Goal
      BY <1>1, <2>3 DEF MakeCard, Keep, Undo
    <2>4. ASSUME NEW p \in Personas, MakeCopy(d, p) \/ Close(d, p) PROVE Goal
      BY <2>4, CallLeft
    <2> HIDE DEF Goal
    <2>5. QED BY <1>2, <2>1, <2>2, <2>3, <2>4 DEF Resolve
  <1>3. ASSUME NEW d \in Drains, NEW i \in Items, GiveUp(d, i) \/ PlanUnknown(d, i) PROVE Goal
    BY <1>1, <1>3 DEF GiveUp, PlanUnknown
  <1>4. ASSUME NEW d \in Drains, NEW i \in Items, NEW p \in Personas,
               NEW T \in SUBSET Personas, Plan(d, i, p, T)
        PROVE  Goal
    BY <1>1, <1>4 DEF Plan
  <1>5. ASSUME NEW d \in Drains, Work(d) PROVE Goal
    <2>1. Claim(d) => Goal
      BY ServedLeft
    <2> HIDE DEF Goal
    <2>2. QED BY <1>2, <1>3, <1>4, <1>5, <2>1 DEF Work
  <1>6. ASSUME NEW i \in Items, Ingest(i) \/ Lapse(i) \/ Age(i) \/ \E p \in Personas : ClaimById(i, p)
        PROVE  Goal
    <2>1. Age(i) => Goal
      BY <1>1 DEF Age
    <2>2. QED BY <1>6, <2>1, ServedLeft
  <1>7. ASSUME NEW d \in Drains, Beat(d) PROVE Goal
    BY <1>7, ServedLeft
  <1>8. ASSUME NEW c \in Cards, Approve(c) \/ Deny(c) \/ FailCard(c) \/ CardLapse(c) PROVE Goal
    BY <1>1, <1>8 DEF Approve, Deny, FailCard, CardLapse
  <1>9. /\ \A q \in Rows : DrainForPersona(q) => Goal
        /\ \A p \in Personas : Turn(p) => Goal
        /\ Crash \/ UNCHANGED vars => Goal
    BY <1>1 DEF DrainForPersona, Turn, Crash, vars
  <1>10. Sweep \/ RuleStep => Goal
    BY ServedLeft, TurnLeft
  <1> HIDE DEF Goal
  <1>11. Goal
    BY <1>2, <1>5, <1>6, <1>7, <1>8, <1>9, <1>10 DEF Next, Steps
  <1>12. QED BY <1>11 DEF Goal

\* A row under a card waits or is over, whatever the step.
LEMMA CardedStep ==
    ASSUME IInv, CardedRows, [Next]_vars
    PROVE  CardedRows'
  <1> SUFFICES ASSUME NEW r \in Rows, row'[r].guarded
               PROVE  row'[r].home \in Personas /\ (Waits(r) \/ Over(r))'
    BY DEF CardedRows
  <1>1. CASE Leaves(r)
    <2>1. row[r].home \in Personas /\ (Waits(r) \/ Over(r))
      BY <1>1 DEF Leaves, CardedRows
    <2>2. QED BY <1>1, <2>1 DEF Leaves, Waits, Over
  <1>2. CASE \E d \in Callers, p \in Personas : Copied(d, p, r) \/ Closed(d, p, r)
    BY <1>2 DEF Copied, Closed, Waits, Over
  <1>3. QED BY <1>1, <1>2, RowMoves

-----------------------------------------------------------------------------
(* The cards of a resolve *)

\* What the order of the writes says of the script that is left.
LEMMA DueOrder ==
    ASSUME IInv, NEW d \in Callers, NEW w, NEW p, Writing(d, w, p)
    PROVE  /\ <<w, p>> \in job[d].todo
           /\ w \in {"copy", "close"} => \A q : <<"card", q>> \notin job[d].todo
           /\ w = "undo" => Undoing(job[d])
  <1>1. job[d] \in Job
    BY DEF IInv, TypeInv, TypeOK
  <1>2. \A u \in job[d].todo : u \in Ops /\ u[1] \in Writes
    BY <1>1 DEF Job, Ops
  <1>3. <<w, p>> \in job[d].todo /\ \A u \in job[d].todo : Rank[w] <= Rank[u[1]]
    BY DEF Writing, Due
  <1>4. /\ Rank["card"] = 1 /\ Rank["vault"] = 2 /\ Rank["copy"] = 3
        /\ Rank["close"] = 4 /\ Rank["undo"] = 5
    BY DEF Rank
  <1>5. w \in {"copy", "close"} => \A q : <<"card", q>> \notin job[d].todo
    <2> SUFFICES ASSUME w \in {"copy", "close"}, NEW q, <<"card", q>> \in job[d].todo
                 PROVE  FALSE
      OBVIOUS
    <2>1. Rank[w] <= Rank["card"]
      BY <1>3
    <2>2. QED BY <1>4, <2>1
  <1>6. w = "undo" => Undoing(job[d])
    <2> SUFFICES ASSUME w = "undo", NEW u \in job[d].todo PROVE u[1] = "undo"
      BY DEF Undoing
    <2>1. Rank["undo"] <= Rank[u[1]] /\ u[1] \in Writes
      BY <1>2, <1>3
    <2>2. QED BY <1>4, <2>1 DEF Writes
  <1>7. QED BY <1>3, <1>5, <1>6

\* A caller whose script gets shorter is otherwise the same.
LEMMA Shorter ==
    ASSUME IInv, NEW d \in Callers, NEW w, NEW p, Writing(d, w, p),
           Done(d, w, p) \/ (Keep(d, p) /\ w = "vault")
    PROVE  /\ job'[d].at = "writing" /\ job'[d].item = job[d].item
           /\ job'[d].home = job[d].home /\ job'[d].targets = job[d].targets
           /\ job'[d].said = job[d].said /\ job'[d].todo = job[d].todo \ {<<w, p>>}
           /\ \A e \in Callers \ {d} : job'[e] = job[e]
  <1>1. job \in [Callers -> Job] /\ job[d] \in Job /\ job[d].at = "writing"
    BY DEF IInv, TypeInv, TypeOK, Writing
  <1> DEFINE O == job[d].todo \ {<<w, p>>}
             S == job[d].kept \cup {p}
             j == [job[d] EXCEPT !.todo = O]
             k == [job[d] EXCEPT !.todo = O, !.kept = S]
  <1>2. job' = [job EXCEPT ![d] = j] \/ job' = [job EXCEPT ![d] = k]
    <2>1. CASE Done(d, w, p)
      BY <2>1 DEF Done
    <2>2. CASE Keep(d, p) /\ w = "vault"
      <3>1. CASE Done(d, "vault", p)
        BY <2>2, <3>1 DEF Done
      <3>2. CASE job' = [job EXCEPT ![d].todo = @ \ {<<"vault", p>>}, ![d].kept = @ \cup {p}]
        <4>1. job' = [job EXCEPT ![d] = k]
          BY <2>2, <3>2
        <4>2. QED BY <4>1
      <3>3. QED BY <2>2, <3>1, <3>2 DEF Keep
    <2>3. QED BY <2>1, <2>2
  <1>3. \A x \in {j, k} : /\ x.at = "writing" /\ x.item = job[d].item /\ x.home = job[d].home
                          /\ x.targets = job[d].targets /\ x.said = job[d].said /\ x.todo = O
    <2> HIDE DEF O, S
    <2>1. QED BY <1>1 DEF Job
  <1> HIDE DEF j, k
  <1>4. \E x \in {j, k} : job'[d] = x /\ \A e \in Callers \ {d} : job'[e] = job[e]
    BY <1>1, <1>2
  <1>5. QED BY <1>3, <1>4

\* In the turn of d no one else has cards to make.
LEMMA OnlyOwn ==
    ASSUME IInv, NEW d \in Callers, TurnOf(d) \/ job[d].at = "writing",
           \A e \in Callers \ {d} : job'[e] = job[e],
           CardsMade(d)'
    PROVE  \A e \in Callers : CardsMade(e)'
  <1>1. \A e \in Callers \ {d} : job[e].at # "writing"
    BY TurnAlone
  <1>2. QED BY <1>1 DEF CardsMade

\* The script of a resolve asks for every locked persona.
LEMMA BeginMade ==
    ASSUME IInv, NEW d \in Callers, Begin(d)
    PROVE  \A e \in Callers : CardsMade(e)'
  <1> DEFINE S == EffectivePersonaOpen(job[d].said)
             k == [job[d] EXCEPT !.at = "writing", !.said = S]
             j == [k EXCEPT !.todo = Script(k)]
  <1>1. TurnOf(d) /\ UNCHANGED <<kind, card>> /\ job' = [job EXCEPT ![d] = j]
    BY DEF Begin
  <1>2. job \in [Callers -> Job] /\ job[d] \in Job
    BY DEF IInv, TypeInv, TypeOK
  <1>3. /\ k.at = "writing" /\ k.item = job[d].item /\ k.home = job[d].home
        /\ k.said = S /\ k.targets = job[d].targets
    <2> HIDE DEF S
    <2>1. QED BY <1>2 DEF Job
  <1>4. /\ j.at = "writing" /\ j.item = k.item /\ j.home = k.home
        /\ j.said = k.said /\ j.targets = k.targets /\ j.todo = Script(k)
    <2> DEFINE O == Script(k)
    <2> HIDE DEF S, O
    <2>1. [k EXCEPT !.todo = O] = [job[d] EXCEPT !.at = "writing", !.said = S, !.todo = O]
      BY <1>2 DEF Job
    <2>2. QED BY ONLY <1>2, <1>3, <2>1 DEF Job, j, O
  <1> HIDE DEF j, k, S
  <1>5. job'[d] = j /\ \A e \in Callers \ {d} : job'[e] = job[e]
    BY <1>1, <1>2
  <1>6. /\ \A p : <<"copy", p>> \in Script(k) => p \in Locked(k) \ {k.home}
        /\ Asks(k) => \A p \in Locked(k) : <<"card", p>> \in Script(k)
    BY DEF Script
  <1>7. Locked(j) = Locked(k) /\ (Asks(j) = Asks(k))
    BY <1>4 DEF Locked, Asks
  <1>8. /\ \A p \in Personas : <<"copy", p>> \in j.todo => p \in Locked(j) \ {j.home}
        /\ Asks(j) => \A p \in Locked(j) : <<"card", p>> \in j.todo
    BY <1>4, <1>6, <1>7
  <1>9. CardsMade(d)'
    <2>1. j.home \in j.targets
      BY <1>3, <1>4 DEF Begin, IInv, TypeInv, HandsOK
    <2>2. QED BY <1>1, <1>5, <1>8, <2>1 DEF CardsMade, Locked, Asks
  <1>10. QED BY <1>1, <1>5, <1>9, OnlyOwn

\* Each write keeps the cards that were made.
LEMMA WriteKeepsCards ==
    ASSUME IInv, NEW d \in Callers, NEW w \in Writes, NEW p \in Personas, Writing(d, w, p),
           Done(d, w, p) \/ (Keep(d, p) /\ w = "vault"),
           CardsMade(d), UNCHANGED kind,
           w = "card" => card'[CardFor(job[d], p)] \in Standing,
           w = "undo" \/ \A q \in Personas :
               card[CardFor(job[d], q)] \in Standing => card'[CardFor(job[d], q)] \in Standing
    PROVE  \A e \in Callers : CardsMade(e)'
  <1>1. job[d].at = "writing" /\ job[d] \in Job
    BY DEF Writing, IInv, TypeInv, TypeOK
  <1>2. /\ job'[d].at = "writing" /\ job'[d].item = job[d].item
        /\ job'[d].home = job[d].home /\ job'[d].targets = job[d].targets
        /\ job'[d].said = job[d].said /\ job'[d].todo = job[d].todo \ {<<w, p>>}
        /\ \A e \in Callers \ {d} : job'[e] = job[e]
    BY Shorter
  <1>3. Locked(job'[d]) = Locked(job[d]) /\ \A q : CardFor(job'[d], q) = CardFor(job[d], q)
    BY <1>2 DEF Locked, CardFor, RowFor
  <1>4. Locked(job[d]) \subseteq Personas
    BY <1>1 DEF Locked, Job
  <1>5. Undoing(job[d]) => Undoing(job'[d])
    BY <1>2 DEF Undoing
  <1>6. /\ \A q \in Personas : <<"copy", q>> \in job'[d].todo => q \in Locked(job'[d]) \ {job'[d].home}
        /\ job'[d].home \in job'[d].targets
    BY <1>1, <1>2, <1>3 DEF CardsMade
  <1>7. ASSUME Asks(job[d]), NEW q \in Locked(job[d])
        PROVE  \/ <<"card", q>> \in job'[d].todo
               \/ card'[CardFor(job[d], q)] \in Standing
               \/ Undoing(job'[d])
    <2>1. CASE w = "undo"
      BY <1>5, <2>1, DueOrder
    <2>2. CASE w # "undo" /\ ~Undoing(job[d])
      <3>1. <<"card", q>> \in job[d].todo \/ card[CardFor(job[d], q)] \in Standing
        BY <1>1, <1>7, <2>2 DEF CardsMade
      <3>2. CASE <<"card", q>> = <<w, p>>
        BY <3>2
      <3>3. CASE <<"card", q>> # <<w, p>>
        BY <1>2, <1>4, <2>2, <3>1, <3>3
      <3>4. QED BY <3>2, <3>3
    <2>3. QED BY <1>5, <2>1, <2>2
  <1>8. CardsMade(d)'
    <2>1. (\A q \in Locked(job[d]) :
              \/ <<"card", q>> \in job'[d].todo
              \/ card'[CardFor(job[d], q)] \in Standing
              \/ Undoing(job'[d]))
            \/ ~Asks(job[d])
      BY <1>7
    <2>2. QED BY <1>2, <1>3, <1>6, <2>1 DEF CardsMade, Asks, Locked, CardFor, RowFor, Undoing
  <1>9. QED BY <1>1, <1>2, <1>8, OnlyOwn

\* A caller that lets go or throws has no cards to make.
LEMMA HandsDownMade ==
    ASSUME IInv, NEW d \in Callers, TurnOf(d) \/ job[d].at = "writing", LetGo(d) \/ Throw(d)
    PROVE  \A e \in Callers : CardsMade(e)'
  <1>1. /\ job'[d].at \in {"idle", "thrown"}
        /\ \A e \in Callers \ {d} : job'[e] = job[e]
    BY HandsDown DEF IInv
  <1>2. CardsMade(d)'
    BY <1>1 DEF CardsMade
  <1>3. QED BY <1>1, <1>2, OnlyOwn

\* The calls of resolve and fail.
LEMMA CallMade ==
    ASSUME IInv, NEW d \in Callers, CardsMade(d), Resolve(d) \/ Fail(d)
    PROVE  \A e \in Callers : CardsMade(e)'
  <1> DEFINE Goal == \A e \in Callers : CardsMade(e)'
  <1>1. Begin(d) => Goal
    BY BeginMade
  <1>2. Refused(d) \/ ParkUnknown(d) \/ Fail(d) => Goal
    BY HandsDownMade DEF Refused, ParkUnknown, Fail
  <1>3. job[d].at = "writing" /\ (LetGo(d) \/ Throw(d)) => Goal
    BY HandsDownMade
  <1>4. \A w, p : Writing(d, w, p) => job[d].at = "writing"
    BY DEF Writing
  <1>5. job \in [Callers -> Job] /\ card \in [Cards -> CardStates]
    BY DEF IInv, TypeInv, TypeOK
  <1> HIDE DEF Goal
  <1>a. ASSUME NEW w \in Writes, NEW p \in Personas, Writing(d, w, p), Done(d, w, p),
               UNCHANGED kind,
               w = "card" => card'[CardFor(job[d], p)] \in Standing,
               w = "undo" \/ \A c \in Cards : card[c] \in Standing => card'[c] \in Standing
        PROVE  Goal
    <2>1. \A q \in Personas : CardFor(job[d], q) \in Cards
      BY <1>a DEF CardFor, RowFor, Cards, Rows, Writing, IInv, TypeInv, HandsOK
    <2>2. w = "undo" \/ \A q \in Personas :
             card[CardFor(job[d], q)] \in Standing => card'[CardFor(job[d], q)] \in Standing
      BY <1>a, <2>1
    <2>3. Done(d, w, p) \/ (Keep(d, p) /\ w = "vault")
      BY <1>a
    <2>4. \A e \in Callers : CardsMade(e)'
      BY ONLY <1>a, <2>2, <2>3, IInv, CardsMade(d), d \in Callers, WriteKeepsCards
    <2>5. QED BY <2>4 DEF Goal
  <1>6. ASSUME NEW p \in Personas, MakeCard(d, p) PROVE Goal
    <2> DEFINE c == CardFor(job[d], p)
    <2>1. Writing(d, "card", p) /\ UNCHANGED kind /\ "card" \in Writes
      BY <1>6 DEF MakeCard, Writes
    <2>2. c \in Cards
      BY <1>6 DEF CardFor, RowFor, Cards, Rows, MakeCard, Writing, IInv, TypeInv, HandsOK
    <2>3. CASE Throw(d)
      BY <1>3, <1>4, <2>1, <2>3
    <2>4. CASE Done(d, "card", p) /\ UNCHANGED card /\ card[c] \in Standing
      <3> HIDE DEF c
      <3>1. card'[c] \in Standing /\ \A q \in Cards : card[q] \in Standing => card'[q] \in Standing
        BY <2>4
      <3>2. QED BY <1>a, <2>1, <2>4, <3>1 DEF c
    <2>5. CASE Done(d, "card", p) /\ card' = [card EXCEPT ![c] = "waiting"]
      <3>1. card'[c] \in Standing
        BY <1>5, <2>2, <2>5 DEF Standing
      <3> HIDE DEF c
      <3>2. \A q \in Cards : card[q] \in Standing => card'[q] \in Standing
        BY <1>5, <2>5, <3>1
      <3>3. QED BY <1>a, <2>1, <2>5, <3>1, <3>2 DEF c
    <2>6. QED BY <1>6, <2>3, <2>4, <2>5 DEF MakeCard
  <1>7. ASSUME NEW p \in Personas, Keep(d, p) PROVE Goal
    <2>1. Writing(d, "vault", p) /\ UNCHANGED <<kind, card>> /\ "vault" \in Writes
      BY <1>7 DEF Keep, Writes
    <2>2. QED BY <1>7, <2>1, WriteKeepsCards DEF Goal
  <1>8. ASSUME NEW p \in Personas, MakeCopy(d, p) PROVE Goal
    <2> DEFINE O == {"undo"} \X Locked(job[d])
               j == [job[d] EXCEPT !.todo = O]
    <2>1. Writing(d, "copy", p) /\ UNCHANGED <<kind, card>> /\ "copy" \in Writes
      BY <1>8 DEF MakeCopy, Writes
    <2>2. CASE Done(d, "copy", p)
      BY <1>a, <2>1, <2>2
    <2>3. CASE Throw(d)
      BY <1>3, <1>4, <2>1, <2>3
    <2>4. CASE job' = [job EXCEPT ![d] = j]
      <3>1. j.todo = O /\ j.home = job[d].home /\ j.targets = job[d].targets
        <4> HIDE DEF O
        <4>1. QED BY <1>5 DEF Job
      <3>2. (\A q : <<"copy", q>> \notin O) /\ \A o \in O : o[1] = "undo"
        OBVIOUS
      <3> HIDE DEF j, O
      <3>3. job'[d] = j /\ \A e \in Callers \ {d} : job'[e] = job[e]
        BY <1>5, <2>4
      <3>4. CardsMade(d)'
        BY <1>4, <2>1, <3>1, <3>2, <3>3 DEF CardsMade, Undoing
      <3>5. QED BY <1>4, <2>1, <3>3, <3>4, OnlyOwn DEF Goal
    <2>5. QED BY <1>8, <2>2, <2>3, <2>4 DEF MakeCopy
  <1>9. ASSUME NEW p \in Personas, Undo(d, p) PROVE Goal
    <2>1. Writing(d, "undo", p) /\ UNCHANGED kind /\ "undo" \in Writes
      BY <1>9 DEF Undo, Writes
    <2>2. CASE Done(d, "undo", p)
      BY <1>a, <2>1, <2>2
    <2>3. CASE Throw(d)
      BY <1>3, <1>4, <2>1, <2>3
    <2>4. QED BY <1>9, <2>2, <2>3 DEF Undo
  <1>10. ASSUME NEW p \in Personas, Close(d, p) PROVE Goal
    BY <1>3, <1>4, <1>10 DEF Close
  <1>11. Goal
    BY <1>1, <1>2, <1>6, <1>7, <1>8, <1>9, <1>10 DEF Resolve
  <1>12. QED BY <1>11 DEF Goal

\* Outside resolve and fail no step leaves a writer behind.
LEMMA NoWriter ==
    ASSUME IInv, [Next]_vars
    PROVE  \/ UNCHANGED <<kind, job, card>>
           \/ \E d \in Callers : Resolve(d) \/ Fail(d)
           \/ \A d \in Callers : job'[d].at # "writing"
  <1> DEFINE Goal == \/ UNCHANGED <<kind, job, card>>
                     \/ \E d \in Callers : Resolve(d) \/ Fail(d)
                     \/ \A d \in Callers : job'[d].at # "writing"
  <1> USE Callings
  <1>1. job \in [Callers -> Job]
    BY DEF IInv, TypeInv, TypeOK
  <1>2. ASSUME ~Busy, NEW d \in Callers, NEW j, job' = [job EXCEPT ![d] = j], j.at # "writing"
        PROVE  Goal
    <2>1. \A e \in Callers : job'[e].at # "writing"
      BY <1>1, <1>2, NoTurn
    <2>2. QED BY <2>1
  <1>3. UNCHANGED job /\ (~Busy \/ ruling # None) => Goal
    <2>1. ruling # None => \A e \in Callers : job[e].at # "writing"
      BY DEF IInv, Inv, OneTurn, InTurn
    <2>2. QED BY <2>1, NoTurn
  <1>4. \A i, p, T, S : Planned(i, p, T, S).at # "writing"
    BY DEF Planned, Idle
  <1>5. \A i : [Idle EXCEPT !.at = "thrown", !.item = i].at # "writing"
    BY DEF Idle
  <1> HIDE DEF Goal
  <1>6. ASSUME NEW i \in Items, NEW p \in Personas, ClaimById(i, p) PROVE Goal
    <2> DEFINE j == Planned(i, p, {p}, {p})
    <2>1. ~Busy /\ job' = [job EXCEPT ![Door] = j] /\ j.at # "writing"
      BY <1>4, <1>6 DEF ClaimById
    <2> HIDE DEF j
    <2>2. QED BY <1>2, <2>1
  <1>7. ASSUME NEW d \in Drains, NEW i \in Items, NEW p \in Personas,
               NEW T \in SUBSET Personas, Plan(d, i, p, T)
        PROVE  Goal
    <2>1. PICK S : job' = [job EXCEPT ![d] = Planned(i, p, T, S)]
      BY <1>7 DEF Plan
    <2> DEFINE j == Planned(i, p, T, S)
    <2>2. ~Busy
      BY <1>7 DEF Plan
    <2>3. job' = [job EXCEPT ![d] = j] /\ j.at # "writing"
      BY ONLY <1>4, <2>1
    <2> HIDE DEF j
    <2>4. QED BY <1>2, <2>2, <2>3
  <1>8. ASSUME NEW d \in Drains, NEW i \in Items, PlanUnknown(d, i) PROVE Goal
    <2> DEFINE j == Planned(i, None, {}, {})
    <2>1. ~Busy /\ job' = [job EXCEPT ![d] = j] /\ j.at # "writing"
      BY <1>4, <1>8 DEF PlanUnknown
    <2> HIDE DEF j
    <2>2. QED BY <1>2, <2>1
  <1>9. ASSUME NEW d \in Drains, NEW i \in Items, GiveUp(d, i) PROVE Goal
    <2> DEFINE j == [Idle EXCEPT !.at = "thrown", !.item = i]
    <2>1. ~Busy /\ job' = [job EXCEPT ![d] = j] /\ j.at # "writing"
      BY <1>5, <1>9 DEF GiveUp
    <2> HIDE DEF j
    <2>2. QED BY <1>2, <2>1
  <1>10. ASSUME NEW d \in Drains, Claim(d) PROVE Goal
    BY <1>3, <1>10 DEF Claim
  <1>11. ASSUME NEW i \in Items, Ingest(i) \/ Lapse(i) \/ Age(i) PROVE Goal
    BY <1>3, <1>11 DEF Ingest, Lapse, Age, hands
  <1>12. ASSUME NEW c \in Cards, Approve(c) \/ Deny(c) \/ FailCard(c) \/ CardLapse(c) PROVE Goal
    BY <1>3, <1>12 DEF Approve, Deny, FailCard, CardLapse, hands
  <1>13. /\ \A q \in Rows : DrainForPersona(q) => Goal
         /\ \A p \in Personas : Turn(p) => Goal
         /\ \A d \in Drains : Beat(d) => Goal
         /\ Sweep => Goal
    BY <1>3 DEF DrainForPersona, Turn, Beat, Sweep, hands
  <1>14. RuleStep => Goal
    BY <1>3 DEF RuleStep, RuleKeep, RuleMark, RuleRefuse, RuleEnd, AtStep, hands
  <1>15. UNCHANGED vars => Goal
    BY DEF vars, hands, Goal
  <1>16. ASSUME Crash PROVE Goal
    <2> DEFINE thrown(i) == [Idle EXCEPT !.at = "thrown", !.item = i]
    <2>1. \A d \in Callers : \/ job'[d] = Idle
                             \/ job'[d] = job[d] /\ job[d].at # "writing"
                             \/ job'[d] = thrown(job[d].item)
      BY <1>16 DEF Crash, InTurn
    <2>2. Idle.at # "writing" /\ \A i : thrown(i).at # "writing"
      BY <1>5 DEF Idle
    <2> HIDE DEF thrown
    <2>3. QED BY <2>1, <2>2 DEF Goal
  <1>17. \A d \in Callers : Resolve(d) \/ Fail(d) => Goal
    BY DEF Goal
  <1>18. ASSUME NEW d \in Drains, Work(d) PROVE Goal
    BY <1>7, <1>8, <1>9, <1>10, <1>17, <1>18 DEF Work
  <1>19. Resolve(Door) \/ Fail(Door) => Goal
    BY <1>17
  <1>20. Goal
    <2>1. ASSUME NEW i \in Items, \/ Ingest(i)
                                  \/ \E p \in Personas : ClaimById(i, p)
                                  \/ Lapse(i) \/ Age(i)
          PROVE  Goal
      BY <1>6, <1>11, <2>1
    <2>2. ASSUME NEW d \in Drains, Work(d) \/ Beat(d) PROVE Goal
      BY <1>13, <1>18, <2>2
    <2>3. QED BY <1>12, <1>13, <1>14, <1>15, <1>16, <1>19, <2>1, <2>2 DEF Next, Steps
  <1>21. QED BY <1>20 DEF Goal

LEMMA MadeStep ==
    ASSUME IInv, [Next]_vars, \A d \in Callers : CardsMade(d)
    PROVE  \A d \in Callers : CardsMade(d)'
  <1>1. CASE UNCHANGED <<kind, job, card>>
    BY <1>1 DEF CardsMade, Asks, Locked, CardFor, RowFor, Undoing
  <1>2. CASE \E d \in Callers : Resolve(d) \/ Fail(d)
    BY <1>2, CallMade
  <1>3. CASE \A d \in Callers : job'[d].at # "writing"
    BY <1>3 DEF CardsMade
  <1>4. QED BY <1>1, <1>2, <1>3, NoWriter

-----------------------------------------------------------------------------
(* The rulings *)

\* Between rulings no card is approved but a torn one.
LEMMA NoneApproved ==
    ASSUME CardsRuled, ruling = None \/ ruling.card = None, NEW c \in Cards
    PROVE  card[c] = "approved" => c \in torn
  BY NoneIsNothing DEF CardsRuled

\* A step between rulings that approves no card.
LEMMA Quiet ==
    ASSUME CardsRuled, ruling' = None,
           \A c \in Cards : card'[c] = "approved" => c \in torn'
    PROVE  CardsRuled'
  BY DEF CardsRuled

LEMMA TornGrows == IInv /\ [Next]_vars => torn \subseteq torn'
  BY HistoryStep DEF Faulting, IInv

\* A ruling that is cut short tears its card, unless that still waits.
LEMMA CutRuled ==
    ASSUME CardsRuled, ruling # None, CutShort, UNCHANGED card
    PROVE  CardsRuled'
  <1>1. \A c \in Cards : card[c] = "approved" => c \in torn'
    BY NoneIsNothing DEF CutShort, CardsRuled
  <1>2. QED BY <1>1, Quiet DEF CutShort

LEMMA CutAnswers ==
    ASSUME NEW c \in Cards, Answers(c), ruling # None, CutShort, UNCHANGED <<card, aged>>
    PROVE  Answers(c)'
  <1>1. ruling.card = c => card[c] \in Standing \/ c \in torn'
    BY NoneIsNothing DEF CutShort, Standing
  <1>2. torn \subseteq torn'
    BY DEF CutShort
  <1>3. QED BY <1>1, <1>2 DEF Answers

LEMMA GoneTo ==
    ASSUME IInv, ruling # None, NEW s \in {"mark", "finish", "refuse", "fail"}, Goto(s)
    PROVE  /\ ruling' # None /\ ruling'.card = ruling.card
           /\ ruling'.row = ruling.row /\ ruling'.step = s
  <1>1. ruling \in Ruling
    BY DEF IInv, TypeInv, TypeOK
  <1>2. ruling'.card = ruling.card /\ ruling'.row = ruling.row /\ ruling'.step = s
    BY <1>1 DEF Goto, Ruling
  <1>3. [ruling EXCEPT !.step = s] \in Ruling
    BY <1>1 DEF Ruling
  <1>4. QED BY <1>2, <1>3, NoneIsNothing DEF Goto

\* The steps of a ruling.
LEMMA RulingStepRuled ==
    ASSUME IInv, CardsRuled, RuleStep, torn \subseteq torn'
    PROVE  CardsRuled'
  <1>1. /\ ruling # None /\ ruling \in Ruling /\ RulingOK
        /\ row \in [Rows -> Row] /\ card \in [Cards -> CardStates]
    <2>1. ruling # None
      BY DEF RuleStep, RuleKeep, RuleMark, RuleRefuse, RuleEnd, AtStep
    <2>2. QED BY <2>1 DEF IInv, Inv, TypeInv, TypeOK
  <1>2. \A c \in Cards : card[c] = "approved" => ruling.card = c \/ c \in torn'
    BY DEF CardsRuled
  <1>3. \A c \in Cards : c # None
    BY NoneIsNothing
  <1>4. ASSUME RuleKeep PROVE CardsRuled'
    <2>1. ruling.step = "drain" /\ UNCHANGED <<row, card>>
      BY <1>4 DEF RuleKeep, AtStep
    <2>2. CASE ruling' = None /\ ruling.card = None
      BY <1>2, <1>3, <2>1, <2>2, Quiet
    <2>3. CASE Goto("mark") \/ Goto("refuse")
      <3>1. /\ ruling' # None /\ ruling'.card = ruling.card
            /\ ruling'.step \in {"mark", "refuse"}
        BY <1>1, <2>3, GoneTo
      <3>2. QED BY <1>2, <2>1, <3>1 DEF CardsRuled
    <2>4. QED BY <1>4, <2>2, <2>3 DEF RuleKeep
  <1>5. ASSUME RuleMark PROVE CardsRuled'
    <2> DEFINE q == ruling.row
               x == [row[q] EXCEPT !.status = "stored"]
    <2>1. ruling.step = "mark" /\ UNCHANGED card
      BY <1>5 DEF RuleMark, AtStep
    <2>2. CASE ruling' = None /\ ruling.card = None
      BY <1>2, <1>3, <2>1, <2>2, Quiet
    <2>3. CASE ruling.card # None /\ Goto("finish") /\ row' = [row EXCEPT ![q] = x]
      <3>1. /\ ruling' # None /\ ruling'.card = ruling.card /\ ruling'.step = "finish"
        BY <1>1, <2>3, GoneTo
      <3>2. q = ruling.card[1] /\ q \in Rows
        BY <1>1, <2>3 DEF RulingOK, Ruling
      <3>3. row'[q].status = "stored"
        BY <1>1, <2>3, <3>2 DEF Row
      <3>4. QED BY <1>2, <2>1, <3>1, <3>2, <3>3 DEF CardsRuled, Waits
    <2>4. CASE Goto("refuse")
      <3>1. /\ ruling' # None /\ ruling'.card = ruling.card /\ ruling'.step = "refuse"
        BY <1>1, <2>4, GoneTo
      <3>2. QED BY <1>2, <2>1, <3>1 DEF CardsRuled
    <2>5. QED BY <1>5, <2>2, <2>3, <2>4 DEF RuleMark
  <1>6. ASSUME RuleRefuse PROVE CardsRuled'
    <2> DEFINE q == ruling.row
               x == [row[q] EXCEPT !.status = "failed", !.retries = MaxRetries + 1]
    <2>1. ruling.step \in {"refuse", "bar"} /\ UNCHANGED card /\ ruling.card # None
      BY <1>1, <1>6 DEF RuleRefuse, AtStep, RulingOK
    <2>2. CASE ruling.step = "bar" /\ ruling' = None
      <3>1. card[ruling.card] = "refused"
        BY <1>1, <2>2 DEF CardsRuled
      <3>2. \A c \in Cards : card'[c] = "approved" => c \in torn'
        BY <1>2, <2>1, <3>1
      <3>3. QED BY <2>1, <2>2, <3>2, Quiet
    <2>3. CASE /\ Goto("fail")
               /\ \/ Waits(q) /\ row' = [row EXCEPT ![q] = x]
                  \/ ~Waits(q) /\ UNCHANGED row
      <3>1. /\ ruling' # None /\ ruling'.card = ruling.card /\ ruling'.step = "fail"
        BY <1>1, <2>3, GoneTo
      <3>2. q = ruling.card[1] /\ q \in Rows
        BY <1>1, <2>1 DEF RulingOK, Ruling
      <3>3. row'[q].status # "parked"
        <4>1. CASE Waits(q) /\ row' = [row EXCEPT ![q] = x]
          <5>1. row[q] \in Row
            BY <1>1, <3>2
          <5>2. x.status = "failed"
            <6> HIDE DEF q
            <6>1. QED BY <5>1 DEF Row
          <5> HIDE DEF x, q
          <5>3. row'[q] = x
            BY <1>1, <3>2, <4>1
          <5>4. QED BY <5>2, <5>3
        <4>2. CASE ~Waits(q) /\ UNCHANGED row
          BY <4>2 DEF Waits
        <4>3. QED BY <2>3, <4>1, <4>2
      <3>4. QED BY <1>2, <2>1, <3>1, <3>2, <3>3 DEF CardsRuled, Waits
    <2>4. CASE CutShort
      BY <1>1, <2>1, <2>4, CutRuled
    <2>5. QED BY <1>6, <2>1, <2>2, <2>3, <2>4 DEF RuleRefuse
  <1>7. ASSUME RuleEnd PROVE CardsRuled'
    <2>1. CASE /\ ruling' = None
               /\ \E s \in {"completed", "refused"} : card' = [card EXCEPT ![ruling.card] = s]
      <3>1. \A c \in Cards : card'[c] = "approved" => c \in torn'
        BY <1>1, <1>2, <2>1
      <3>2. QED BY <2>1, <3>1, Quiet
    <2>2. CASE UNCHANGED card /\ CutShort
      BY <1>1, <2>2, CutRuled
    <2>3. QED BY <1>7, <2>1, <2>2 DEF RuleEnd
  <1>8. QED BY <1>4, <1>5, <1>6, <1>7 DEF RuleStep

\* A card is approved by the owner, and its ruling begins with it.
LEMMA RuledStep ==
    ASSUME IInv, CardsRuled, [Next]_vars
    PROVE  CardsRuled'
  <1> USE Callings
  <1>1. /\ card \in [Cards -> CardStates] /\ row \in [Rows -> Row]
        /\ torn \subseteq torn'
    BY TornGrows DEF IInv, TypeInv, TypeOK
  <1>2. ASSUME ruling = None, UNCHANGED ruling,
               \/ UNCHANGED card
               \/ \E c, s : s # "approved" /\ card' = [card EXCEPT ![c] = s]
        PROVE  CardsRuled'
    <2>1. \A c \in Cards : card'[c] = "approved" => c \in torn'
      BY <1>1, <1>2, NoneApproved
    <2>2. QED BY <1>2, <2>1, Quiet
  <1>3. ~Busy => ruling = None
    BY NoTurn
  <1>4. ASSUME NEW d \in Callers, Resolve(d) \/ Fail(d) PROVE CardsRuled'
    <2>1. TurnOf(d) \/ job[d].at = "writing" => ruling = None
      BY TurnAlone
    <2>2. Begin(d) \/ Refused(d) \/ ParkUnknown(d) \/ Fail(d) => CardsRuled'
      BY <1>2, <2>1 DEF Begin, Refused, ParkUnknown, Fail
    <2>3. ASSUME NEW p \in Personas, Keep(d, p) \/ MakeCopy(d, p) \/ Close(d, p) PROVE CardsRuled'
      BY <1>2, <2>1, <2>3 DEF Keep, MakeCopy, Close, Writing
    <2>4. ASSUME NEW p \in Personas, MakeCard(d, p) PROVE CardsRuled'
      BY <1>2, <2>1, <2>4 DEF MakeCard, Writing
    <2>5. ASSUME NEW p \in Personas, Undo(d, p) PROVE CardsRuled'
      BY <1>2, <2>1, <2>5 DEF Undo, Writing
    <2>6. QED BY <1>4, <2>2, <2>3, <2>4, <2>5 DEF Resolve
  <1>5. ASSUME NEW d \in Drains, Work(d) \/ Beat(d) PROVE CardsRuled'
    <2>1. Claim(d) \/ Beat(d) => CardsRuled'
      BY <1>2, <1>3 DEF Claim, Beat
    <2>2. ASSUME NEW i \in Items, GiveUp(d, i) \/ PlanUnknown(d, i) PROVE CardsRuled'
      BY <1>2, <1>3, <2>2 DEF GiveUp, PlanUnknown
    <2>3. ASSUME NEW i \in Items, NEW p \in Personas, NEW T \in SUBSET Personas, Plan(d, i, p, T)
          PROVE  CardsRuled'
      BY <1>2, <1>3, <2>3 DEF Plan
    <2>4. QED BY <1>4, <1>5, <2>1, <2>2, <2>3 DEF Work
  <1>6. ASSUME NEW i \in Items, \/ Ingest(i)
                                \/ \E p \in Personas : ClaimById(i, p)
                                \/ Lapse(i) \/ Age(i)
        PROVE  CardsRuled'
    BY <1>2, <1>3, <1>6 DEF Ingest, ClaimById, Lapse, Age
  <1>7. ASSUME NEW c \in Cards, Approve(c) PROVE CardsRuled'
    <2> DEFINE s == IF ~Guards(c) THEN "fail" ELSE IF Waits(c[1]) THEN "drain" ELSE "finish"
               g == [card |-> c, row |-> c[1], step |-> s]
    <2>1. ruling = None /\ UNCHANGED row /\ card' = [card EXCEPT ![c] = "approved"]
      BY <1>3, <1>7 DEF Approve
    <2>2. g.card = c /\ g.step = s /\ g # None
      <3>1. g \in Ruling
        BY DEF Ruling, Cards
      <3>2. QED BY <3>1, NoneIsNothing
    <2>3. s # "bar" /\ (s \in {"finish", "fail"} => ~(Waits(c[1]) /\ Guards(c)))
      OBVIOUS
    <2>4. \/ ruling' = g
          \/ UNCHANGED ruling /\ torn' = torn \cup {c}
      BY <1>7 DEF Approve, Rule
    <2> HIDE DEF g, s
    <2>5. \A e \in Cards : card'[e] = "approved" => e = c \/ e \in torn'
      BY <1>1, <2>1, NoneApproved
    <2>6. CASE ruling' = g
      BY <2>1, <2>2, <2>3, <2>5, <2>6 DEF CardsRuled, Waits, Guards
    <2>7. CASE UNCHANGED ruling /\ torn' = torn \cup {c}
      BY <2>1, <2>5, <2>7, Quiet
    <2>8. QED BY <2>4, <2>6, <2>7
  <1>8. ASSUME NEW c \in Cards, Deny(c) PROVE CardsRuled'
    <2> DEFINE g == [card |-> c, row |-> c[1], step |-> "bar"]
    <2>1. /\ ruling = None /\ card' = [card EXCEPT ![c] = "refused"]
          /\ ruling' = g \/ UNCHANGED ruling
      BY <1>3, <1>8 DEF Deny, Rule
    <2>2. g.card = c /\ g.step = "bar" /\ g # None
      <3>1. g \in Ruling
        BY DEF Ruling, Cards
      <3>2. QED BY <3>1, NoneIsNothing
    <2> HIDE DEF g
    <2>3. card'[c] = "refused" /\ \A e \in Cards : card'[e] = "approved" => e \in torn'
      BY <1>1, <2>1, NoneApproved
    <2>4. QED BY <2>1, <2>2, <2>3 DEF CardsRuled
  <1>9. ASSUME NEW c \in Cards, FailCard(c) PROVE CardsRuled'
    <2> DEFINE s == IF Guards(c) THEN "refuse" ELSE "fail"
               g == [card |-> c, row |-> c[1], step |-> s]
    <2>1. ruling = None /\ ruling' = g /\ UNCHANGED <<row, card>>
      BY <1>3, <1>9 DEF FailCard, Rule
    <2>2. g.card = c /\ g.step = s /\ g # None
      <3>1. g \in Ruling
        BY DEF Ruling, Cards
      <3>2. QED BY <3>1, NoneIsNothing
    <2>3. s # "bar" /\ (s \in {"finish", "fail"} => ~Guards(c))
      OBVIOUS
    <2> HIDE DEF g, s
    <2>4. \A e \in Cards : card'[e] = "approved" => e \in torn'
      BY <1>1, <2>1, NoneApproved
    <2>5. QED BY <2>1, <2>2, <2>3, <2>4 DEF CardsRuled, Guards
  <1>10. ASSUME NEW c \in Cards, CardLapse(c) PROVE CardsRuled'
    BY <1>2, <1>3, <1>10 DEF CardLapse
  <1>11. ASSUME NEW r \in Rows, DrainForPersona(r) PROVE CardsRuled'
    <2> DEFINE g == [card |-> None, row |-> r, step |-> "drain"]
    <2>1. ruling = None /\ ruling' = g /\ UNCHANGED card
      BY <1>3, <1>11 DEF DrainForPersona
    <2>2. g.step = "drain"
      OBVIOUS
    <2> HIDE DEF g
    <2>3. \A e \in Cards : card'[e] = "approved" => e \in torn'
      BY <1>1, <2>1, NoneApproved
    <2>4. QED BY <2>1, <2>2, <2>3 DEF CardsRuled
  <1>12. ASSUME NEW p \in Personas, Turn(p) PROVE CardsRuled'
    BY <1>2, <1>3, <1>12 DEF Turn
  <1>13. Sweep => CardsRuled'
    BY <1>2, <1>3 DEF Sweep
  <1>14. RuleStep => CardsRuled'
    BY <1>1, RulingStepRuled
  <1>15. UNCHANGED vars => CardsRuled'
    BY DEF vars, history, CardsRuled, Waits, Guards
  <1>16. Resolve(Door) \/ Fail(Door) => CardsRuled'
    BY <1>4
  <1>17. ASSUME Crash PROVE CardsRuled'
    <2>1. CASE ruling = None
      BY <1>2, <1>17, <2>1 DEF Crash
    <2>2. CASE ruling # None
      BY <1>17, <2>2, CutRuled DEF Crash
    <2>3. QED BY <2>1, <2>2
  <1>18. QED BY <1>5, <1>6, <1>7, <1>8, <1>9, <1>10, <1>11, <1>12, <1>13, <1>14, <1>15, <1>16,
                <1>17
             DEF Next, Steps

-----------------------------------------------------------------------------
(* The card of a waiting row *)

\* A row that waits under its card after a step that neither copies nor
\* closes it waited under the same card before.
LEMMA WaitedBefore ==
    ASSUME IInv, CardedRows, NEW r \in Rows, Leaves(r), Waits(r)', row'[r].guarded
    PROVE  /\ Waits(r) /\ row[r].guarded /\ row'[r].home = row[r].home
           /\ Guards(<<r, row[r].home>>)
  <1>1. row[r].guarded /\ row'[r].home = row[r].home
    BY DEF Leaves
  <1>2. Waits(r)
    BY DEF Leaves, Waits
  <1>3. QED BY <1>1, <1>2 DEF Guards, Waits

\* A copy, and a row that is closed to wait, has its card.
LEMMA PutUnderCard ==
    ASSUME IInv, NEW d \in Callers, CardsMade(d), NEW p \in Personas, NEW r \in Rows,
           Copied(d, p, r) \/ Closed(d, p, r), Waits(r)', row'[r].guarded
    PROVE  card'[<<r, row'[r].home>>] \in Standing
  <1>1. job[d].at = "writing" /\ job[d] \in Job /\ WriterOK(d)
    BY DEF Copied, Closed, MakeCopy, Close, Writing, IInv, Inv, TypeInv, TypeOK
  <1>2. PICK w \in {"copy", "close"} : Writing(d, w, p)
    BY DEF Copied, Closed, MakeCopy, Close
  <1>3. /\ <<w, p>> \in job[d].todo /\ \A q : <<"card", q>> \notin job[d].todo
        /\ ~Undoing(job[d])
    BY <1>2, DueOrder DEF Undoing
  <1>4. Asks(job[d]) => \A q \in Locked(job[d]) : card[CardFor(job[d], q)] \in Standing
    BY <1>1, <1>3 DEF CardsMade
  <1>5. CASE Copied(d, p, r)
    <2>1. Writing(d, "copy", p) /\ UNCHANGED card /\ Asks(job[d])
      BY <1>5 DEF Copied, MakeCopy
    <2>2. <<"copy", p>> \in job[d].todo
      BY <2>1, DueOrder
    <2>3. p \in Locked(job[d]) /\ p # job[d].home
      BY <1>1, <2>2 DEF CardsMade
    <2>4. <<r, row'[r].home>> = CardFor(job[d], p)
      BY <1>5, <2>3 DEF Copied, CardFor, RowFor
    <2>5. QED BY <1>4, <2>1, <2>3, <2>4
  <1>6. CASE Closed(d, p, r)
    <2>1. /\ Writing(d, "close", p) /\ UNCHANGED card
          /\ Asks(job[d]) /\ p \notin job[d].said
      BY <1>6 DEF Closed, Close
    <2>2. <<"close", p>> \in job[d].todo
      BY <2>1, DueOrder
    <2>3. p = job[d].home
      BY <1>1, <2>2 DEF WriterOK
    <2>4. p \in Locked(job[d])
      BY <1>1, <2>1, <2>3 DEF CardsMade, Locked
    <2>5. <<r, row'[r].home>> = CardFor(job[d], p)
      BY <1>6, <2>3 DEF Closed, CardFor, RowFor
    <2>6. QED BY <1>4, <2>1, <2>4, <2>5
  <1>7. QED BY <1>5, <1>6

\* A ruling lets go of the card of a waiting row only with the row.
LEMMA RuleAnswers ==
    ASSUME IInv, CardsRuled, RuleStep, torn \subseteq torn', NEW c \in Cards, Answers(c),
           Guards(c), Waits(c[1]), Waits(c[1])'
    PROVE  Answers(c)'
  <1>1. /\ ruling # None /\ ruling \in Ruling /\ RulingOK /\ UNCHANGED aged
        /\ row \in [Rows -> Row] /\ card \in [Cards -> CardStates]
    <2>1. ruling # None /\ UNCHANGED aged
      BY DEF RuleStep, RuleKeep, RuleMark, RuleRefuse, RuleEnd, AtStep
    <2>2. QED BY <2>1 DEF IInv, Inv, TypeInv, TypeOK
  <1>2. c # None /\ c[1] \in Rows
    BY NoneIsNothing DEF Cards
  <1>3. CASE UNCHANGED card /\ \E s \in {"mark", "finish", "refuse", "fail"} : Goto(s)
    BY <1>1, <1>3, GoneTo DEF Answers
  <1>4. CASE UNCHANGED card /\ ruling.card # c
    BY <1>1, <1>4 DEF Answers
  <1>c. CASE UNCHANGED card /\ CutShort
    BY <1>1, <1>c, CutAnswers
  <1>5. CASE /\ ruling.card = c
             /\ \/ ~Waits(ruling.row) /\ UNCHANGED row
                \/ row' = [row EXCEPT ![ruling.row].status = "failed",
                                      ![ruling.row].retries = MaxRetries + 1]
    <2> DEFINE q == ruling.row
               x == [row[q] EXCEPT !.status = "failed", !.retries = MaxRetries + 1]
    <2>1. q = c[1]
      <3>1. ruling.card = c /\ c # None
        BY <1>2, <1>5
      <3>2. QED BY <1>1, <3>1 DEF RulingOK
    <2>2. row' = [row EXCEPT ![q] = x]
      BY <1>5, <2>1
    <2>3. x.status = "failed"
      <3>1. row[q] \in Row
        BY <1>1, <1>2, <2>1
      <3> HIDE DEF q
      <3>2. QED BY <3>1 DEF Row
    <2> HIDE DEF x, q
    <2>4. row'[c[1]].status = "failed"
      BY <1>1, <1>2, <2>1, <2>2, <2>3
    <2>5. QED BY <2>4 DEF Waits
  <1>6. CASE RuleEnd
    <2>1. ruling.step \in {"finish", "fail"}
      BY <1>6 DEF RuleEnd, AtStep
    <2>2. ruling.card # c
      BY <1>1, <2>1 DEF CardsRuled
    <2>3. CASE \E s : card' = [card EXCEPT ![ruling.card] = s]
      <3>1. card'[c] = card[c]
        BY <1>1, <2>2, <2>3
      <3>2. QED BY <1>1, <2>2, <3>1 DEF Answers
    <2>4. QED BY <1>6, <1>c, <2>3 DEF RuleEnd
  <1>7. CASE RuleKeep
    <2>1. /\ UNCHANGED card
          /\ Goto("mark") \/ Goto("refuse") \/ ruling.card = None
      BY <1>7 DEF RuleKeep
    <2>2. QED BY <1>2, <1>3, <1>4, <2>1
  <1>8. CASE RuleMark
    BY <1>2, <1>3, <1>4, <1>8 DEF RuleMark
  <1>9. CASE RuleRefuse
    <2>1. UNCHANGED card
      BY <1>9 DEF RuleRefuse
    <2>2. \/ CutShort
          \/ Goto("fail")
          \/ \/ ~Waits(ruling.row) /\ UNCHANGED row
             \/ row' = [row EXCEPT ![ruling.row].status = "failed",
                                   ![ruling.row].retries = MaxRetries + 1]
      BY <1>9 DEF RuleRefuse
    <2>3. QED BY <1>3, <1>4, <1>5, <1>c, <2>1, <2>2
  <1>10. QED BY <1>6, <1>7, <1>8, <1>9 DEF RuleStep

\* Whatever Core serves, the card of a waiting row stays answerable.
LEMMA StaysAnswerable ==
    ASSUME IInv, CardsRuled, [Next]_vars, NEW c \in Cards, Answers(c),
           Guards(c), Waits(c[1]), Waits(c[1])'
    PROVE  Answers(c)'
  <1> USE Callings
  <1>1. card \in [Cards -> CardStates] /\ torn \subseteq torn'
    BY TornGrows DEF IInv, TypeInv, TypeOK
  <1>2. ASSUME UNCHANGED ruling, aged \subseteq aged', UNCHANGED card PROVE Answers(c)'
    BY <1>1, <1>2 DEF Answers
  <1>3. ASSUME ruling = None, aged \subseteq aged',
               NEW e \in Cards, NEW s, card' = [card EXCEPT ![e] = s],
               \/ card[e] = "none"
               \/ card[e] \in Standing /\ s \in {"approved", "undone"}
               \/ e # c
        PROVE  Answers(c)'
    <2>1. card[c] \in Standing \/ card[c] = "undone" \/ c[1][1] \in aged \/ c \in torn
      BY <1>3 DEF Answers
    <2>2. card'[c] = IF e = c THEN s ELSE card[c]
      BY <1>1, <1>3
    <2>3. QED BY <1>1, <1>3, <2>1, <2>2 DEF Answers, Standing
  <1>4. ~Busy => ruling = None
    BY NoTurn
  <1>5. ASSUME NEW d \in Callers, Resolve(d) \/ Fail(d) PROVE Answers(c)'
    <2>1. TurnOf(d) \/ job[d].at = "writing" => ruling = None
      BY TurnAlone
    <2>2. Begin(d) \/ Refused(d) \/ ParkUnknown(d) \/ Fail(d) => Answers(c)'
      BY <1>2 DEF Begin, Refused, ParkUnknown, Fail
    <2>3. ASSUME NEW p \in Personas, Keep(d, p) \/ MakeCopy(d, p) \/ Close(d, p) PROVE Answers(c)'
      BY <1>2, <2>3 DEF Keep, MakeCopy, Close
    <2>4. ASSUME NEW p \in Personas, MakeCard(d, p) \/ Undo(d, p) PROVE Answers(c)'
      <3> DEFINE e == CardFor(job[d], p)
      <3>1. /\ e \in Cards /\ UNCHANGED <<ruling, aged>> /\ ruling = None
        BY <2>1, <2>4 DEF CardFor, RowFor, Cards, Rows, MakeCard, Undo, Writing,
                          IInv, TypeInv, HandsOK
      <3>2. \/ UNCHANGED card
            \/ card[e] = "none" /\ card' = [card EXCEPT ![e] = "waiting"]
            \/ card[e] \in Standing /\ card' = [card EXCEPT ![e] = "undone"]
        BY <2>4 DEF MakeCard, Undo
      <3> HIDE DEF e
      <3>3. QED BY <1>2, <1>3, <3>1, <3>2
    <2>5. QED BY <1>5, <2>2, <2>3, <2>4 DEF Resolve
  <1>6. ASSUME NEW d \in Drains, Work(d) \/ Beat(d) PROVE Answers(c)'
    <2>1. Claim(d) \/ Beat(d) => Answers(c)'
      BY <1>2 DEF Claim, Beat
    <2>2. ASSUME NEW i \in Items, GiveUp(d, i) \/ PlanUnknown(d, i) PROVE Answers(c)'
      BY <1>2, <2>2 DEF GiveUp, PlanUnknown
    <2>3. ASSUME NEW i \in Items, NEW p \in Personas, NEW T \in SUBSET Personas, Plan(d, i, p, T)
          PROVE  Answers(c)'
      BY <1>2, <2>3 DEF Plan
    <2>4. QED BY <1>5, <1>6, <2>1, <2>2, <2>3 DEF Work
  <1>7. ASSUME NEW i \in Items, \/ Ingest(i)
                                \/ \E p \in Personas : ClaimById(i, p)
                                \/ Lapse(i) \/ Age(i)
        PROVE  Answers(c)'
    BY <1>2, <1>7 DEF Ingest, ClaimById, Lapse, Age
  <1>8. ASSUME NEW e \in Cards, Approve(e) PROVE Answers(c)'
    BY <1>3, <1>4, <1>8 DEF Approve, Standing
  <1>9. ASSUME NEW e \in Cards, Deny(e) PROVE Answers(c)'
    <2>1. ruling = None /\ UNCHANGED aged /\ card' = [card EXCEPT ![e] = "refused"]
      BY <1>4, <1>9 DEF Deny
    <2>2. CASE e = c
      <3> DEFINE g == [card |-> e, row |-> e[1], step |-> "bar"]
      <3>1. card[c] = "waiting" \/ c \in torn'
        BY <1>1, <1>9, <2>1, <2>2, NoneApproved DEF Deny, Standing
      <3>2. ruling' = g \/ c \in torn'
        BY <1>9, <2>2, <3>1 DEF Deny, TellsRow, Rule
      <3>3. g # None /\ g.card = c
        <4>1. g \in Ruling
          BY DEF Ruling, Cards
        <4>2. QED BY <2>2, <4>1, NoneIsNothing
      <3> HIDE DEF g
      <3>4. QED BY <3>2, <3>3 DEF Answers
    <2>3. CASE e # c
      BY <1>3, <2>1, <2>3
    <2>4. QED BY <2>2, <2>3
  <1>10. ASSUME NEW e \in Cards, CardLapse(e) PROVE Answers(c)'
    <2>1. ruling = None /\ UNCHANGED aged /\ card' = [card EXCEPT ![e] = "refused"]
      BY <1>4, <1>10 DEF CardLapse
    <2>2. CASE e = c
      BY <1>10, <2>1, <2>2 DEF CardLapse, Answers
    <2>3. CASE e # c
      BY <1>3, <2>1, <2>3
    <2>4. QED BY <2>2, <2>3
  <1>11. \/ \E e \in Cards : FailCard(e)
         \/ \E r \in Rows : DrainForPersona(r)
         => Answers(c)'
    <2> SUFFICES ASSUME \/ \E e \in Cards : FailCard(e)
                        \/ \E r \in Rows : DrainForPersona(r)
                 PROVE  Answers(c)'
      OBVIOUS
    <2>1. ruling = None /\ UNCHANGED <<card, aged>>
      BY <1>4 DEF FailCard, DrainForPersona
    <2>2. QED BY <1>1, <2>1 DEF Answers
  <1>12. ASSUME NEW p \in Personas, Turn(p) PROVE Answers(c)'
    BY <1>2, <1>12 DEF Turn
  <1>13. Sweep \/ UNCHANGED vars => Answers(c)'
    BY <1>2 DEF Sweep, vars
  <1>14. RuleStep => Answers(c)'
    BY <1>1, RuleAnswers
  <1>15. Resolve(Door) \/ Fail(Door) => Answers(c)'
    BY <1>5
  <1>16. ASSUME Crash PROVE Answers(c)'
    <2>1. CASE ruling = None
      BY <1>2, <1>16, <2>1 DEF Crash
    <2>2. CASE ruling # None
      BY <1>16, <2>2, CutAnswers DEF Crash
    <2>3. QED BY <2>1, <2>2
  <1>17. QED BY <1>6, <1>7, <1>8, <1>9, <1>10, <1>11, <1>12, <1>13, <1>14, <1>15, <1>16
             DEF Next, Steps

LEMMA CardInit == Init => KInv
  <1> SUFFICES ASSUME Init PROVE KInv
    OBVIOUS
  <1>1. IInv
    BY TypeInit, InvInit DEF IInv
  <1>2. \A r \in Rows : ~row[r].guarded
    BY DEF Init, NoRow
  <1>3. \A d \in Callers : job[d].at = "idle"
    BY DEF Init, Idle
  <1>4. ruling = None /\ \A c \in Cards : card[c] # "approved"
    BY DEF Init
  <1>5. QED BY <1>1, <1>2, <1>3, <1>4 DEF KInv, CardInv, CardedRows, CardsMade, CardsRuled

LEMMA CardInvStep == KInv /\ [Next]_vars => KInv'
  <1> SUFFICES ASSUME KInv, [Next]_vars PROVE KInv'
    OBVIOUS
  <1>1. IInv /\ CardedRows /\ CardsRuled /\ \A d \in Callers : CardsMade(d)
    BY DEF KInv, CardInv
  <1>2. IInv' /\ CardedRows'
    BY <1>1, TypeStep, InvStep, CardedStep DEF IInv
  <1>3. ASSUME NEW r \in Rows, Waits(r)', row'[r].guarded
        PROVE  Answers(CardOf(r))'
    <2>1. CASE Leaves(r)
      <3>1. /\ Waits(r) /\ row[r].guarded /\ row'[r].home = row[r].home
            /\ Guards(CardOf(r))
        BY <1>1, <1>3, <2>1, WaitedBefore DEF CardOf
      <3>2. Answers(CardOf(r))
        BY <3>1 DEF KInv, CardInv
      <3>3. CardOf(r) \in Cards
        BY <1>1, <3>1 DEF CardedRows, Cards, CardOf
      <3>4. PICK c \in Cards : c = CardOf(r)
        BY <3>3
      <3>5. c[1] = r /\ Guards(c) /\ Answers(c)
        BY <3>1, <3>2, <3>4 DEF CardOf
      <3>6. Answers(c)'
        BY <1>1, <1>3, <3>1, <3>5, StaysAnswerable
      <3>7. CardOf(r)' = c
        BY <3>1, <3>4 DEF CardOf
      <3>8. QED BY <3>6, <3>7 DEF Answers
    <2>2. CASE \E d \in Callers, p \in Personas : Copied(d, p, r) \/ Closed(d, p, r)
      <3>1. card'[<<r, row'[r].home>>] \in Standing
        BY <1>1, <1>3, <2>2, PutUnderCard
      <3>2. QED BY <3>1 DEF Answers, CardOf
    <2>3. QED BY <1>1, <2>1, <2>2, RowMoves
  <1>4. (\A d \in Callers : CardsMade(d)') /\ CardsRuled'
    BY <1>1, MadeStep, RuledStep
  <1>5. QED BY <1>2, <1>3, <1>4 DEF KInv, CardInv

\* Every row that waits for the owner has a card that can be decided on,
\* whatever the order of resolves, decisions, sweeps, lapses and crashes, for
\* any items, personas and drains: unless the item expired, a failed resolve
\* took the card back, or that card's own decision was cut short.
THEOREM WaitingRowsHaveCards == Spec => []WaitingRowHasItsCard
  <1>1. KInv => WaitingRowHasItsCard
    BY DEF KInv, CardInv, WaitingRowHasItsCard, Answers, CardOf
  <1>2. QED BY CardInit, CardInvStep, <1>1, PTL DEF Spec

=============================================================================
