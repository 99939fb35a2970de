-------------------------- MODULE MsgBoxRelayProofs --------------------------
(***************************************************************************)
(* Theorems about MsgBoxRelay, for every set of envelopes and sockets,     *)
(* every capacity and every bound on faults.                               *)
(***************************************************************************)
EXTENDS MsgBoxRelay, FiniteSetTheorems, TLAPS

Marks == {"none", "kept", "written"}

-----------------------------------------------------------------------------
(* Type correctness *)

\* What a delivery may change.
LEMMA DeliverFacts ==
    ASSUME TypeOK, NEW i \in Envelopes, NEW rows \in [Envelopes -> Marks],
           Deliver(i, rows)
    PROVE  /\ row' \in [Envelopes -> Marks]
           /\ \A j \in Envelopes \ {i} : row'[j] = rows[j]
           /\ row'[i] = rows[i] \/ (row'[i] # "none" /\ i \in accepted')
           /\ accepted' \in {accepted, accepted \cup {i}}
           /\ wire' \in {wire, wire \cup {i}}
           /\ i \in wire' \ wire => i \in accepted' /\ sock # None
           /\ handed' \in {handed, handed \cup {i}}
           /\ accepted' # accepted => row'[i] # "none" \/ i \in handed'
           /\ i \in handed' => i \in handed \/ (conn # None /\ ~feature[conn])
           /\ kicked \subseteq kicked' /\ (kicked' = kicked \/ kicked' = kicked \cup {conn})
           /\ kicked' # kicked => conn # None
           /\ faults' \in Nat /\ slips' \in Nat /\ (slips' = 0 => slips = 0)
           /\ slips' = 0 /\ row'[i] = "kept" /\ rows[i] # "kept" =>
                (conn = None \/ conn \in kicked') /\ wire' = wire
  <1>1. conn # None /\ Sound(conn) => sock # None
    BY DEF Sound
  <1>2. CASE conn # None /\ feature[conn] /\ Written(conn, i)
             /\ Note([rows EXCEPT ![i] = "kept"], i, "written")
             /\ accepted' = accepted \cup {i} /\ UNCHANGED handed
    BY <1>1, <1>2 DEF TypeOK, Marks, Written, Note
  <1>3. CASE NotWritten(conn) /\ row' = [rows EXCEPT ![i] = "kept"] /\ conn # None
             /\ accepted' = accepted \cup {i} /\ UNCHANGED <<handed, slips>>
    BY <1>3 DEF TypeOK, Marks, NotWritten, Fault
  <1>4. CASE conn # None /\ ~feature[conn] /\ Written(conn, i) /\ row' = rows
             /\ handed' = handed \cup {i} /\ accepted' = accepted \cup {i} /\ UNCHANGED slips
    BY <1>1, <1>4 DEF TypeOK, Marks, Written
  <1>5. CASE conn = None /\ row' = [rows EXCEPT ![i] = "kept"]
             /\ accepted' = accepted \cup {i}
             /\ UNCHANGED <<handed, slips, wire, kicked, faults>>
    BY <1>5 DEF TypeOK, Marks
  <1>6. CASE row' = rows /\ UNCHANGED <<accepted, handed, slips, wire, kicked, faults>>
    BY <1>6 DEF TypeOK, Marks
  <1>7. QED BY <1>2, <1>3, <1>4, <1>5, <1>6 DEF Deliver

\* What starting an envelope's handler may change.
LEMMA DispatchFacts ==
    ASSUME TypeOK, NEW i \in Envelopes, Dispatch(i)
    PROVE  /\ phase' \in [Envelopes -> {"idle", "asking", "running", "recording"}]
           /\ ran' \in [Envelopes -> Nat]
           /\ settled' \in {settled, settled \cup {i}}
           /\ turned' \subseteq Envelopes
           /\ \A j \in Envelopes \ {i} : phase'[j] = phase[j] /\ ran'[j] = ran[j]
           /\ phase'[i] # "asking"
           /\ ran'[i] = ran[i] \/ (ran'[i] = ran[i] + 1 /\ phase'[i] = "running")
           /\ phase'[i] = "recording" => i \in settled'
           /\ i \in settled' \ settled => phase'[i] = "recording"
  <1>1. CASE phase' = [phase EXCEPT ![i] = "recording"]
             /\ settled' = settled \cup {i} /\ UNCHANGED <<ran, turned>>
    BY <1>1 DEF TypeOK
  <1>2. CASE phase' = [phase EXCEPT ![i] = "running"]
             /\ ran' = [ran EXCEPT ![i] = @ + 1] /\ UNCHANGED <<settled, turned>>
    BY <1>2 DEF TypeOK
  <1>3. CASE phase' = [phase EXCEPT ![i] = "idle"]
             /\ turned' = turned \cup {i} /\ UNCHANGED <<settled, ran>>
    BY <1>3 DEF TypeOK
  <1>4. QED BY <1>1, <1>2, <1>3 DEF Dispatch

\* What remembering and acknowledging may change.
LEMMA RememberFacts ==
    ASSUME TypeOK, NEW i \in Envelopes, Remember(i)
    PROVE  recent' \subseteq recent \cup {i}
  BY DEF Remember

LEMMA SendAckFacts ==
    ASSUME TypeOK, NEW i \in Envelopes, SendAck(i)
    PROVE  acks' \in {acks, acks \cup {i}}
  BY DEF SendAck

\* Everything starts in shape, and every step keeps it so.
LEMMA TypeInit == Init => TypeOK
  <1> SUFFICES ASSUME Init PROVE TypeOK
    OBVIOUS
  <1>1. draining \in BOOLEAN /\ cut \in BOOLEAN /\ (draining => conn # None)
    BY DEF Init
  <1>2. feature \in [Conns -> Features] /\ durable \in [Envelopes -> BOOLEAN]
    BY DEF Init
  <1>3. QED BY <1>1, <1>2 DEF Init, TypeOK

LEMMA TypeStep == TypeOK /\ [Next]_vars => TypeOK'
  <1> SUFFICES ASSUME TypeOK, [Next]_vars PROVE TypeOK'
    OBVIOUS
  <1> USE RelayConstants DEF buffer, link, memory, told, fate, Untouched, Marks
  <1>0. CASE UNCHANGED vars
    BY <1>0 DEF vars, TypeOK
  <1>1. ASSUME NEW i \in Envelopes, Send(i) PROVE TypeOK'
    <2>1. row \in [Envelopes -> Marks] /\ Deliver(i, row)
      BY <1>1 DEF Send, TypeOK
    <2>2. QED BY <1>1, <2>1, DeliverFacts DEF Send, TypeOK, Requests
  <1>2. ASSUME NEW k \in Cancels, Cancel(k) PROVE TypeOK'
    <2>0. k \in Envelopes /\ Target[k] \in Requests /\ Target[k] \in Envelopes
      BY DEF Requests
    <2>1. [row EXCEPT ![Target[k]] = "none"] \in [Envelopes -> Marks]
      BY DEF TypeOK
    <2>2. CASE Unwritten(Target[k])
      BY <1>2, <2>0, <2>1, <2>2 DEF Cancel, TypeOK
    <2>3. CASE ~Unwritten(Target[k])
      <3> DEFINE without == [row EXCEPT ![Target[k]] = "none"]
      <3>1. Deliver(k, without) /\ UNCHANGED withdrawn
        BY <1>2, <2>3 DEF Cancel
      <3>2. without \in [Envelopes -> Marks]
        BY <2>1
      <3>3. /\ sent' = sent \cup {k} /\ cancelled' = cancelled \cup {Target[k]}
            /\ UNCHANGED <<conn, pending, pumps, grants, feature, draining, todo, over,
                           sock, cut, acks, memory, told, past>>
        BY <1>2 DEF Cancel
      <3> HIDE DEF without
      <3>4. QED BY <2>0, <3>1, <3>2, <3>3, DeliverFacts DEF TypeOK
    <2>4. QED BY <2>2, <2>3
  <1>3. ASSUME NEW c \in Conns, Register(c) PROVE TypeOK'
    BY <1>3 DEF Register, OverAge, TypeOK
  <1>4. ASSUME NEW i \in Envelopes, DrainRow(i) PROVE TypeOK'
    BY <1>4 DEF DrainRow, Written, Note, Sound, TypeOK
  <1>5. CASE DrainBreak
    <2>1. faults' \in Nat
      BY <1>5 DEF DrainBreak, NotWritten, Fault, TypeOK
    <2>2. QED BY <1>5, <2>1 DEF DrainBreak, NotWritten, TypeOK
  <1>6. CASE DrainEnd
    BY <1>6 DEF DrainEnd, TypeOK
  <1>7. ASSUME NEW c \in Conns, PumpEnds(c) PROVE TypeOK'
    BY <1>7 DEF PumpEnds, Unregistered, TypeOK
  <1>8. ASSUME NEW i \in Envelopes, AckArrives(i) \/ AckLost(i) \/ Age(i) PROVE TypeOK'
    BY <1>8 DEF AckArrives, AckLost, Age, TypeOK
  <1>9. CASE ExpireTTL
    BY <1>9 DEF ExpireTTL, TypeOK
  <1>10. CASE RelayRestart
    <2>1. faults' \in Nat
      BY <1>10 DEF RelayRestart, Fault, TypeOK
    <2>2. QED BY <1>10, <2>1 DEF RelayRestart, TypeOK
  <1>11. ASSUME NEW c \in Conns, Connect(c) PROVE TypeOK'
    BY <1>11 DEF Connect, TypeOK
  <1>12. CASE Leave \/ Cut
    <2>1. faults' \in Nat
      BY <1>12 DEF Leave, Cut, Fault, TypeOK
    <2>2. CASE Leave
      BY <2>1, <2>2 DEF Leave, TypeOK
    <2>3. CASE Cut
      BY <2>1, <2>3 DEF Cut, TypeOK
    <2>4. QED BY <1>12, <2>2, <2>3
  <1>13. CASE ClientCrash
    <2>1. faults' \in Nat
      BY <1>13 DEF ClientCrash, Fault, TypeOK
    <2>2. QED BY <1>13, <2>1 DEF ClientCrash, TypeOK
  <1>14. ASSUME NEW i \in Envelopes, Receive(i) PROVE TypeOK'
    <2>1. feature[sock] \in BOOLEAN
      BY <1>14 DEF Receive, TypeOK
    <2>2. CASE i \in recent
      BY <1>14, <2>2, SendAckFacts DEF Receive, TypeOK
    <2>3. CASE i \notin recent /\ phase[i] # "idle"
      BY <1>14, <2>3 DEF Receive, TypeOK
    <2>4. CASE i \notin recent /\ phase[i] = "idle" /\ (i \in unrecorded \/ feature[sock])
      BY <1>14, <2>1, <2>4 DEF Receive, TypeOK
    <2>5. CASE i \notin recent /\ phase[i] = "idle" /\ i \notin unrecorded /\ ~feature[sock]
      BY <1>14, <2>1, <2>5, DispatchFacts DEF Receive, TypeOK
    <2>6. QED BY <2>2, <2>3, <2>4, <2>5
  <1>15. ASSUME NEW i \in Envelopes, AskSeen(i) \/ Finish(i) PROVE TypeOK'
    BY <1>15, RememberFacts, SendAckFacts DEF AskSeen, Finish, TypeOK
  <1>16. ASSUME NEW i \in Envelopes, AskUnseen(i) PROVE TypeOK'
    BY <1>16, DispatchFacts DEF AskUnseen, TypeOK
  <1>17. ASSUME NEW i \in Envelopes,
                AskFails(i) \/ HandlerEnds(i) \/ FinishFails(i) \/ Prune(i)
         PROVE  TypeOK'
    BY <1>17 DEF AskFails, HandlerEnds, FinishFails, Prune, TypeOK
  <1>18. QED
    BY <1>0, <1>1, <1>2, <1>3, <1>4, <1>5, <1>6, <1>7, <1>8, <1>9, <1>10, <1>11,
       <1>12, <1>13, <1>14, <1>15, <1>16, <1>17
    DEF Next, RelayStep, ClientStep, Handling

-----------------------------------------------------------------------------
(* Where an envelope has been *)

\* Whatever is kept, written, handled or past was taken by the relay once.
Known ==
  /\ accepted \subseteq sent
  /\ \A i \in Envelopes : row[i] # "none" \/ phase[i] # "idle" => i \in accepted
  /\ wire \subseteq accepted /\ todo \subseteq accepted
  /\ settled \subseteq accepted /\ past \subseteq accepted
  /\ over \subseteq past

\* What is remembered, recorded or acknowledged was handled.
Handled ==
  /\ acks \subseteq settled /\ recent \subseteq settled
  /\ record \subseteq settled /\ unrecorded \subseteq settled
  /\ \A i \in Envelopes : phase[i] = "recording" => i \in settled

FlowInv == Known /\ Handled /\ NothingLost

LEMMA FlowInit == Init => FlowInv
  BY DEF Init, FlowInv, Known, Handled, NothingLost

LEMMA FlowStep == TypeOK /\ FlowInv /\ [Next]_vars => FlowInv'
  <1> SUFFICES ASSUME TypeOK, Known, Handled, NothingLost, [Next]_vars
               PROVE  Known' /\ Handled' /\ NothingLost'
    BY DEF FlowInv
  <1> USE RelayConstants DEF buffer, link, memory, told, fate, Untouched, Marks
  <1>a. accepted \subseteq Envelopes
    BY DEF TypeOK
  <1>0. CASE UNCHANGED vars
    BY <1>0 DEF vars, Known, Handled, NothingLost
  <1>1. ASSUME NEW i \in Envelopes, Send(i) PROVE Known' /\ Handled' /\ NothingLost'
    <2>1. row \in [Envelopes -> Marks] /\ Deliver(i, row)
      BY <1>1 DEF Send, TypeOK
    <2>2. Known'
      BY <1>1, <2>1, DeliverFacts DEF Send, Known
    <2>3. Handled'
      BY <1>1 DEF Send, Handled
    <2>4. NothingLost'
      BY <1>a, <1>1, <2>1, DeliverFacts DEF Send, Known, NothingLost
    <2>5. QED BY <2>2, <2>3, <2>4
  <1>2. ASSUME NEW k \in Cancels, Cancel(k) PROVE Known' /\ Handled' /\ NothingLost'
    <2> DEFINE i == Target[k]
               without == [row EXCEPT ![i] = "none"]
    <2>0. k \in Envelopes /\ i \in Envelopes /\ i # k
      BY DEF Requests
    <2>1. without \in [Envelopes -> Marks] /\ without[i] = "none"
          /\ \A j \in Envelopes \ {i} : without[j] = row[j]
      BY <2>0 DEF TypeOK
    <2>2. /\ k \notin sent /\ sent' = sent \cup {k} /\ cancelled' = cancelled \cup {i}
          /\ UNCHANGED <<conn, pending, pumps, grants, feature, draining, todo, over,
                         sock, cut, acks, memory, told, past>>
          /\ \/ row' = without /\ UNCHANGED <<accepted, handed, wire>>
             \/ Deliver(k, without)
      BY <1>2 DEF Cancel
    <2>3. Handled'
      BY <2>2 DEF Handled
    <2> HIDE DEF i, without
    <2>4. CASE row' = without /\ UNCHANGED <<accepted, handed, wire>>
      BY <1>a, <2>0, <2>1, <2>2, <2>3, <2>4 DEF Known, NothingLost
    <2>5. CASE Deliver(k, without)
      <3>1. Known'
        BY <2>0, <2>1, <2>2, <2>5, DeliverFacts DEF Known
      <3>2. NothingLost'
        BY <1>a, <2>0, <2>1, <2>2, <2>5, DeliverFacts DEF NothingLost
      <3>3. QED BY <2>3, <3>1, <3>2
    <2>6. QED BY <2>2, <2>4, <2>5
  <1>3. ASSUME NEW c \in Conns, Register(c) PROVE Known' /\ Handled' /\ NothingLost'
    BY <1>3 DEF Register, OverAge, TypeOK, Known, Handled, NothingLost
  <1>4. ASSUME NEW i \in Envelopes, DrainRow(i) PROVE Known' /\ Handled' /\ NothingLost'
    <2>1. Known' /\ Handled'
      BY <1>4 DEF DrainRow, Written, Note, Sound, TypeOK, Known, Handled
    <2>2. NothingLost'
      BY <1>4 DEF DrainRow, Note, TypeOK, Known, NothingLost
    <2>3. QED BY <2>1, <2>2
  <1>5. CASE DrainBreak \/ DrainEnd
    BY <1>5 DEF DrainBreak, DrainEnd, NotWritten, TypeOK, Known, Handled, NothingLost
  <1>6. ASSUME NEW c \in Conns, PumpEnds(c) PROVE Known' /\ Handled' /\ NothingLost'
    BY <1>6 DEF PumpEnds, Known, Handled, NothingLost
  <1>7. ASSUME NEW i \in Envelopes, AckArrives(i) PROVE Known' /\ Handled' /\ NothingLost'
    BY <1>7 DEF AckArrives, TypeOK, Known, Handled, NothingLost
  <1>8. ASSUME NEW i \in Envelopes, AckLost(i) \/ Age(i) PROVE Known' /\ Handled' /\ NothingLost'
    BY <1>8 DEF AckLost, Age, TypeOK, Known, Handled, NothingLost
  <1>9. CASE ExpireTTL
    BY <1>9 DEF ExpireTTL, TypeOK, Known, Handled, NothingLost
  <1>10. CASE RelayRestart
    BY <1>10 DEF RelayRestart, Known, Handled, NothingLost
  <1>11. ASSUME NEW c \in Conns, Connect(c) PROVE Known' /\ Handled' /\ NothingLost'
    BY <1>11 DEF Connect, Known, Handled, NothingLost
  <1>12. CASE Leave \/ Cut
    BY <1>12 DEF Leave, Cut, Known, Handled, NothingLost
  <1>13. CASE ClientCrash
    BY <1>13 DEF ClientCrash, Known, Handled, NothingLost
  <1>14. ASSUME NEW i \in Envelopes, Receive(i) PROVE Known' /\ Handled' /\ NothingLost'
    <2>1. CASE i \in recent
      BY <1>14, <2>1, SendAckFacts DEF Receive, Known, Handled, NothingLost
    <2>2. CASE i \notin recent /\ phase[i] # "idle"
      BY <1>14, <2>2 DEF Receive, Known, Handled, NothingLost
    <2>3. CASE i \notin recent /\ phase[i] = "idle" /\ (i \in unrecorded \/ feature[sock])
      BY <1>14, <2>3 DEF Receive, TypeOK, Known, Handled, NothingLost
    <2>4. CASE i \notin recent /\ phase[i] = "idle" /\ i \notin unrecorded /\ ~feature[sock]
      <3>1. /\ Dispatch(i) /\ i \in wire /\ wire' = wire \ {i}
            /\ UNCHANGED <<row, todo, over, sent, accepted, past, cancelled, handed,
                           acks, recent, record, unrecorded>>
        BY <1>14, <2>4 DEF Receive
      <3>2. QED BY <3>1, DispatchFacts DEF Known, Handled, NothingLost
    <2>5. QED BY <2>1, <2>2, <2>3, <2>4
  <1>15. ASSUME NEW i \in Envelopes, AskSeen(i) \/ Finish(i)
         PROVE  Known' /\ Handled' /\ NothingLost'
    BY <1>15, RememberFacts, SendAckFacts
    DEF AskSeen, Finish, TypeOK, Known, Handled, NothingLost
  <1>16. ASSUME NEW i \in Envelopes, AskUnseen(i) PROVE Known' /\ Handled' /\ NothingLost'
    BY <1>16, DispatchFacts DEF AskUnseen, Known, Handled, NothingLost
  <1>17. ASSUME NEW i \in Envelopes,
                AskFails(i) \/ HandlerEnds(i) \/ FinishFails(i) \/ Prune(i)
         PROVE  Known' /\ Handled' /\ NothingLost'
    BY <1>17 DEF AskFails, HandlerEnds, FinishFails, Prune, TypeOK, Known, Handled, NothingLost
  <1>18. QED
    BY <1>0, <1>1, <1>2, <1>3, <1>4, <1>5, <1>6, <1>7, <1>8, <1>9, <1>10, <1>11,
       <1>12, <1>13, <1>14, <1>15, <1>16, <1>17
    DEF Next, RelayStep, ClientStep, Handling

-----------------------------------------------------------------------------
(* Acks, records and runs, on connections that acknowledge *)

Granting == Features = {TRUE}

\* A handling begun goes on record, and so nothing is remembered or acked that
\* is not on record or past.
Recorded ==
  /\ \A i \in Envelopes : phase[i] # "idle" => durable[i]
  /\ \A i \in Envelopes : phase[i] = "asking" => i \notin unrecorded
  /\ recent \subseteq record \cup past
  /\ AckedIsRecorded

\* No copy of the envelope will reach the client any more.
Gone(i) ==
  i \in past /\ i \notin wire /\ i \notin todo \ over /\ phase[i] = "idle"

\* A run that no crash made the client forget is on record, still on its way
\* there, or no longer needs it.
Accounted(i) ==
  \/ i \in record \cup unrecorded
  \/ phase[i] \in {"running", "recording"}
  \/ Gone(i)

Once ==
  \A i \in Envelopes :
    /\ ran[i] \in {forgot[i], forgot[i] + 1}
    /\ ran[i] # forgot[i] => Accounted(i)

AckInv == Granting => Recorded /\ Once

LEMMA AckInit == Init => AckInv
  BY DEF Init, AckInv, Recorded, AckedIsRecorded, Once

\* Steps that touch neither the client's handling nor what is on its way to it,
\* but by letting envelopes age or by writing ones that were not sent before.
LEMMA Undisturbed ==
    ASSUME Recorded, Once,
           UNCHANGED <<phase, durable, recent, record, unrecorded, ran, forgot>>,
           past \subseteq past', acks' \subseteq acks,
           \A i \in past : i \in wire' => i \in wire,
           \A i \in past : i \in todo' \ over' => i \in todo \ over
    PROVE  Recorded' /\ Once'
  <1>1. Recorded'
    BY DEF Recorded, AckedIsRecorded
  <1>2. ASSUME NEW i \in Envelopes, ran'[i] # forgot'[i] PROVE Accounted(i)'
    <2>1. Accounted(i)
      BY <1>2 DEF Once
    <2>2. CASE Gone(i)
      BY <2>2 DEF Gone, Accounted
    <2>3. QED BY <2>1, <2>2 DEF Accounted
  <1>3. Once'
    BY <1>2 DEF Once
  <1>4. QED BY <1>1, <1>3

LEMMA AckStep ==
    ASSUME TypeOK, FlowInv, Granting, Recorded, Once, [Next]_vars
    PROVE  Recorded' /\ Once'
  <1> USE RelayConstants DEF buffer, link, memory, told, fate, Untouched, Marks
  <1>a. /\ past \subseteq sent /\ wire \subseteq Envelopes /\ \A c \in Conns : feature[c]
        /\ sock = None => wire = {}
        /\ sock \in Conns \cup {None}
    BY DEF TypeOK, FlowInv, Known, Granting
  <1>0. CASE UNCHANGED vars
    BY <1>0 DEF vars, Recorded, AckedIsRecorded, Once, Accounted, Gone
  <1>1. ASSUME NEW i \in Envelopes, Send(i) PROVE Recorded' /\ Once'
    <2>1. row \in [Envelopes -> Marks] /\ Deliver(i, row)
      BY <1>1 DEF Send, TypeOK
    <2>2. wire' \in {wire, wire \cup {i}} /\ i \notin past
      BY <1>a, <1>1, <2>1, DeliverFacts DEF Send
    <2>3. QED BY <1>1, <2>2, Undisturbed DEF Send
  <1>2. ASSUME NEW k \in Cancels, Cancel(k) PROVE Recorded' /\ Once'
    <2> DEFINE without == [row EXCEPT ![Target[k]] = "none"]
    <2>1. k \in Envelopes /\ without \in [Envelopes -> Marks]
      BY DEF TypeOK
    <2>2. wire' = wire \/ Deliver(k, without)
      BY <1>2 DEF Cancel
    <2> HIDE DEF without
    <2>3. wire' \in {wire, wire \cup {k}}
      BY <2>1, <2>2, DeliverFacts
    <2>4. k \notin past
      BY <1>a, <1>2 DEF Cancel
    <2>5. QED BY <1>2, <2>3, <2>4, Undisturbed DEF Cancel
  <1>3. ASSUME NEW c \in Conns, Register(c) PROVE Recorded' /\ Once'
    BY <1>3, Undisturbed DEF Register, OverAge
  <1>4. ASSUME NEW i \in Envelopes, DrainRow(i) PROVE Recorded' /\ Once'
    <2>1. i \in over \/ i \in todo \ over
      BY <1>4 DEF DrainRow
    <2>2. CASE i \in over
      BY <1>4, <2>2, Undisturbed DEF DrainRow
    <2>3. CASE i \in todo \ over
      <3>1. /\ wire' \subseteq wire \cup {i} /\ todo' = todo \ {i}
            /\ UNCHANGED <<over, acks, memory, told, past>>
        BY <1>4, <2>3 DEF DrainRow, Written
      <3>2. Recorded'
        BY <3>1 DEF Recorded, AckedIsRecorded
      <3>3. ASSUME NEW j \in Envelopes, Accounted(j) PROVE Accounted(j)'
        BY <2>3, <3>1, <3>3 DEF Accounted, Gone
      <3>4. Once'
        BY <3>1, <3>3 DEF Once
      <3>5. QED BY <3>2, <3>4
    <2>4. QED BY <2>1, <2>2, <2>3
  <1>5. CASE DrainBreak \/ DrainEnd
    BY <1>5, Undisturbed DEF DrainBreak, DrainEnd, NotWritten
  <1>6. ASSUME NEW c \in Conns, PumpEnds(c) PROVE Recorded' /\ Once'
    BY <1>6, Undisturbed DEF PumpEnds
  <1>7. ASSUME NEW i \in Envelopes, AckArrives(i) \/ AckLost(i) \/ Age(i)
        PROVE  Recorded' /\ Once'
    BY <1>7, Undisturbed DEF AckArrives, AckLost, Age
  <1>8. CASE ExpireTTL \/ RelayRestart
    BY <1>8, Undisturbed DEF ExpireTTL, RelayRestart
  <1>9. ASSUME NEW c \in Conns, Connect(c) PROVE Recorded' /\ Once'
    BY <1>9, Undisturbed DEF Connect
  <1>10. CASE Leave \/ Cut
    BY <1>10, Undisturbed DEF Leave, Cut
  <1>11. CASE ClientCrash
    <2>1. Recorded'
      BY <1>11 DEF ClientCrash, Recorded, AckedIsRecorded, TypeOK
    <2>2. ASSUME NEW i \in Envelopes
          PROVE  /\ ran'[i] \in {forgot'[i], forgot'[i] + 1}
                 /\ ran'[i] # forgot'[i] => Accounted(i)'
      <3>1. CASE i \in record
        BY <1>11, <3>1 DEF ClientCrash, Once, Accounted
      <3>2. CASE i \notin record
        BY <1>11, <3>2 DEF ClientCrash, Once, TypeOK
      <3>3. QED BY <3>1, <3>2
    <2>3. QED BY <2>1, <2>2 DEF Once
  <1>12. ASSUME NEW i \in Envelopes, Receive(i) PROVE Recorded' /\ Once'
    <2>1. feature[sock] /\ i \in wire
      BY <1>a, <1>12 DEF Receive
    <2>2. /\ \A j \in Envelopes : j # i => phase'[j] = phase[j]
          /\ ~Gone(i)
          /\ UNCHANGED <<recent, record, unrecorded, ran, forgot, past, todo, over>>
          /\ wire' \subseteq wire
      BY <1>12, <2>1 DEF Receive, Gone, TypeOK
    <2>3. phase'[i] = phase[i] \/ (phase[i] = "idle" /\ phase'[i] = "recording" /\ i \in unrecorded)
             \/ (phase[i] = "idle" /\ phase'[i] = "asking" /\ i \notin unrecorded)
      BY <1>12, <2>1 DEF Receive, TypeOK
    <2>4. Recorded'
      <3>1. CASE i \in recent
        BY <1>12, <3>1, SendAckFacts DEF Receive, Recorded, AckedIsRecorded
      <3>2. CASE i \notin recent
        BY <1>12, <2>1, <3>2 DEF Receive, Recorded, AckedIsRecorded, TypeOK
      <3>3. QED BY <3>1, <3>2
    <2>5. ASSUME NEW j \in Envelopes, Accounted(j) PROVE Accounted(j)'
      BY <2>2, <2>3, <2>5 DEF Accounted, Gone
    <2>6. QED BY <2>2, <2>4, <2>5 DEF Once
  <1>13. ASSUME NEW i \in Envelopes, AskSeen(i) \/ Finish(i) PROVE Recorded' /\ Once'
    <2>1. Recorded'
      BY <1>13, RememberFacts, SendAckFacts
      DEF AskSeen, Finish, Recorded, AckedIsRecorded, TypeOK
    <2>2. /\ \A j \in Envelopes : j # i => phase'[j] = phase[j]
          /\ i \in record' /\ record \subseteq record' /\ unrecorded \subseteq unrecorded' \cup {i}
          /\ UNCHANGED <<ran, forgot, past, todo, over, wire>>
      BY <1>13 DEF AskSeen, Finish, Recorded, TypeOK
    <2>3. ASSUME NEW j \in Envelopes, Accounted(j) PROVE Accounted(j)'
      BY <2>2, <2>3 DEF Accounted, Gone
    <2>4. QED BY <2>1, <2>2, <2>3 DEF Once
  <1>14. ASSUME NEW i \in Envelopes, AskUnseen(i) PROVE Recorded' /\ Once'
    <2>1. i \notin record /\ i \notin unrecorded /\ phase[i] = "asking" /\ Dispatch(i)
          /\ UNCHANGED <<durable, recent, record, unrecorded, forgot, past, todo, over, wire, acks>>
      BY <1>14 DEF AskUnseen, Recorded
    <2>2. ran[i] = forgot[i]
      BY <2>1 DEF Once, Accounted, Gone
    <2>3. Recorded'
      BY <2>1, DispatchFacts DEF Recorded, AckedIsRecorded
    <2>4. ASSUME NEW j \in Envelopes \ {i}, Accounted(j) PROVE Accounted(j)'
      BY <2>1, <2>4, DispatchFacts DEF Accounted, Gone
    <2>5. \A j \in Envelopes \ {i} : ran'[j] = ran[j]
      BY <2>1, DispatchFacts
    <2>6. ran'[i] = ran[i] \/ (ran'[i] = ran[i] + 1 /\ Accounted(i)')
      BY <2>1, DispatchFacts DEF Accounted
    <2>7. QED BY <2>1, <2>2, <2>3, <2>4, <2>5, <2>6 DEF Once
  <1>15. ASSUME NEW i \in Envelopes, AskFails(i) \/ HandlerEnds(i) \/ FinishFails(i)
         PROVE  Recorded' /\ Once'
    <2>1. Recorded'
      BY <1>15 DEF AskFails, HandlerEnds, FinishFails, Recorded, AckedIsRecorded, TypeOK
    <2>2. ASSUME NEW j \in Envelopes, Accounted(j) PROVE Accounted(j)'
      BY <1>15, <2>2 DEF AskFails, HandlerEnds, FinishFails, Accounted, Gone, TypeOK
    <2>3. QED BY <1>15, <2>1, <2>2 DEF AskFails, HandlerEnds, FinishFails, Once
  <1>16. ASSUME NEW i \in Envelopes, Prune(i) PROVE Recorded' /\ Once'
    <2>1. Recorded'
      BY <1>16 DEF Prune, Recorded, AckedIsRecorded, TypeOK
    <2>2. ASSUME NEW j \in Envelopes, Accounted(j) PROVE Accounted(j)'
      BY <1>16, <2>2 DEF Prune, Accounted, Gone
    <2>3. QED BY <1>16, <2>1, <2>2 DEF Prune, Once
  <1>17. QED
    BY <1>0, <1>1, <1>2, <1>3, <1>4, <1>5, <1>6, <1>7, <1>8, <1>9, <1>10, <1>11,
       <1>12, <1>13, <1>14, <1>15, <1>16
    DEF Next, RelayStep, ClientStep, Handling

-----------------------------------------------------------------------------
(* The mailbox *)

Kept == {i \in Envelopes : row[i] # "none"}

\* Steps that let go of envelopes rightly, and steps the mailbox does not see.
LEMMA Releasing ==
    ASSUME UNCHANGED <<accepted, settled, past, cancelled>>,
           Kept' \subseteq Kept, Kept \ Kept' \subseteq settled \cup past \cup cancelled
    PROVE  [Box!Next]_Box!vars
  BY DEF Kept, Box!Next, Box!Release

LEMMA Invisible ==
    ASSUME UNCHANGED <<row, accepted, settled, past, cancelled>>
    PROVE  [Box!Next]_Box!vars
  BY DEF Box!vars

LEMMA Settling ==
    ASSUME NEW i \in Envelopes, i \in accepted, settled' \in {settled, settled \cup {i}},
           UNCHANGED <<row, accepted, past, cancelled>>
    PROVE  [Box!Next]_Box!vars
  BY DEF Box!Next, Box!Settle, Box!vars

\* Under relay builds that grant acks, a delivery keeps what it takes.
LEMMA Taking ==
    ASSUME TypeOK, Granting, NEW i \in Envelopes, NEW rows \in [Envelopes -> Marks],
           i \notin accepted, Deliver(i, rows)
    PROVE  \/ row' = rows /\ accepted' = accepted
           \/ /\ accepted' = accepted \cup {i}
              /\ Kept' = {j \in Envelopes : rows[j] # "none"} \cup {i}
  <1>1. conn # None => feature[conn]
    BY DEF TypeOK, Granting
  <1>2. CASE row' = rows /\ accepted' = accepted
    BY <1>2
  <1>3. CASE /\ accepted' = accepted \cup {i}
             /\ \E m \in {"kept", "written"} :
                  \/ row' = [rows EXCEPT ![i] = m]
                  \/ row' = [[rows EXCEPT ![i] = "kept"] EXCEPT ![i] = m]
    <2>1. /\ \A j \in Envelopes \ {i} : row'[j] = rows[j]
          /\ row'[i] # "none"
      BY <1>3
    <2>2. QED BY <1>3, <2>1 DEF Kept
  <1>4. QED BY <1>1, <1>2, <1>3 DEF Deliver, Note

LEMMA BoxInit == Init => Box!Init
  BY DEF Init, Box!Init

LEMMA BoxStep ==
    ASSUME TypeOK, FlowInv, Granting, [Next]_vars
    PROVE  [Box!Next]_Box!vars
  <1> USE RelayConstants DEF buffer, link, memory, told, fate, Untouched, Marks
  <1>a. /\ accepted \subseteq sent /\ wire \subseteq accepted /\ over \subseteq past
        /\ acks \subseteq settled /\ accepted \subseteq Envelopes
        /\ \A i \in Envelopes : phase[i] # "idle" => i \in accepted
        /\ \A c \in Conns : feature[c]
    BY DEF TypeOK, FlowInv, Known, Handled, Granting
  <1>b. row \in [Envelopes -> Marks]
    BY DEF TypeOK
  <1>0. CASE UNCHANGED vars
    BY <1>0, Invisible DEF vars
  <1>1. ASSUME NEW i \in Envelopes, Send(i) PROVE [Box!Next]_Box!vars
    <2>1. i \notin accepted /\ Deliver(i, row) /\ UNCHANGED <<settled, past, cancelled>>
      BY <1>a, <1>1 DEF Send
    <2>2. CASE row' = row /\ accepted' = accepted
      BY <2>1, <2>2, Invisible
    <2>3. CASE accepted' = accepted \cup {i} /\ Kept' = Kept \cup {i}
      <3>1. Box!Accept(i)
        BY <2>1, <2>3 DEF Box!Accept, Kept
      <3>2. QED BY <3>1 DEF Box!Next
    <2>4. QED BY <1>b, <2>1, <2>2, <2>3, Taking DEF Kept
  <1>2. ASSUME NEW k \in Cancels, Cancel(k) PROVE [Box!Next]_Box!vars
    <2> DEFINE i == Target[k]
               without == [row EXCEPT ![i] = "none"]
    <2>1. k \in Envelopes /\ k \notin accepted /\ i # k
      BY <1>a, <1>2 DEF Cancel, Requests
    <2>2. /\ without \in [Envelopes -> Marks]
          /\ {j \in Envelopes : without[j] # "none"} = Kept \ {i}
      BY <1>b DEF Kept
    <2>3. /\ cancelled' = cancelled \cup {i} /\ UNCHANGED <<settled, past>>
          /\ (row' = without /\ accepted' = accepted) \/ Deliver(k, without)
      BY <1>2 DEF Cancel
    <2> HIDE DEF without
    <2>4. \/ accepted' = accepted /\ Kept' = Kept \ {i}
          \/ accepted' = accepted \cup {k} /\ Kept' = (Kept \ {i}) \cup {k}
      <3>1. CASE row' = without /\ accepted' = accepted
        BY <2>2, <3>1 DEF Kept
      <3>2. CASE Deliver(k, without)
        <4>1. \/ row' = without /\ accepted' = accepted
              \/ accepted' = accepted \cup {k} /\ Kept' = (Kept \ {i}) \cup {k}
          BY <2>1, <2>2, <3>2, Taking
        <4>2. QED BY <3>1, <4>1
      <3>3. QED BY <2>3, <3>1, <3>2
    <2>5. Box!Withdraw(k)
      BY <2>1, <2>3, <2>4 DEF Box!Withdraw, Kept
    <2>6. QED BY <2>5 DEF Box!Next, Cancels
  <1>3. ASSUME NEW c \in Conns, Register(c) \/ PumpEnds(c) \/ Connect(c)
        PROVE  [Box!Next]_Box!vars
    BY <1>3, Invisible DEF Register, PumpEnds, Connect
  <1>4. ASSUME NEW i \in Envelopes, DrainRow(i) PROVE [Box!Next]_Box!vars
    <2>1. UNCHANGED <<accepted, settled, past, cancelled>>
      BY <1>4 DEF DrainRow
    <2>2. feature[conn] = TRUE
      BY <1>4 DEF DrainRow, TypeOK, Granting
    <2>3. CASE i \in over
      <3>1. row' = [row EXCEPT ![i] = "none"]
        BY <1>4, <2>3 DEF DrainRow
      <3>2. QED BY <1>a, <1>b, <2>1, <2>3, <3>1, Releasing DEF Kept
    <2>4. CASE i \notin over
      <3>1. row' = row \/ (row[i] # "none" /\ row' = [row EXCEPT ![i] = "written"])
        BY <1>4, <2>2, <2>4 DEF DrainRow, Note
      <3>2. QED BY <1>b, <2>1, <3>1, Releasing DEF Kept
    <2>5. QED BY <2>3, <2>4
  <1>5. CASE DrainBreak \/ DrainEnd \/ RelayRestart \/ Leave \/ Cut \/ ClientCrash
    BY <1>5, Invisible DEF DrainBreak, DrainEnd, RelayRestart, Leave, Cut, ClientCrash
  <1>6. ASSUME NEW i \in Envelopes, AckArrives(i) PROVE [Box!Next]_Box!vars
    BY <1>a, <1>b, <1>6, Releasing DEF AckArrives, Kept
  <1>7. CASE ExpireTTL
    BY <1>b, <1>7, Releasing DEF ExpireTTL, Kept
  <1>8. ASSUME NEW i \in Envelopes, Age(i) PROVE [Box!Next]_Box!vars
    <2>1. Box!Lapse(i)
      BY <1>8 DEF Age, Box!Lapse
    <2>2. QED BY <2>1 DEF Box!Next
  <1>9. ASSUME NEW i \in Envelopes, Receive(i) PROVE [Box!Next]_Box!vars
    <2>1. /\ i \in accepted /\ UNCHANGED <<row, accepted, past, cancelled>>
          /\ settled' = settled \/ Dispatch(i)
      BY <1>a, <1>9 DEF Receive
    <2>2. QED BY <2>1, DispatchFacts, Settling
  <1>10. ASSUME NEW i \in Envelopes, AskUnseen(i) PROVE [Box!Next]_Box!vars
    <2>1. /\ i \in accepted /\ UNCHANGED <<row, accepted, past, cancelled>> /\ Dispatch(i)
      BY <1>a, <1>10 DEF AskUnseen
    <2>2. QED BY <2>1, DispatchFacts, Settling
  <1>11. ASSUME NEW i \in Envelopes, HandlerEnds(i) PROVE [Box!Next]_Box!vars
    BY <1>a, <1>11, Settling DEF HandlerEnds
  <1>12. ASSUME NEW i \in Envelopes,
                \/ AckLost(i) \/ AskSeen(i) \/ AskFails(i)
                \/ Finish(i) \/ FinishFails(i) \/ Prune(i)
         PROVE  [Box!Next]_Box!vars
    BY <1>12, Invisible DEF AckLost, AskSeen, AskFails, Finish, FinishFails, Prune
  <1>13. QED
    BY <1>0, <1>1, <1>2, <1>3, <1>4, <1>5, <1>6, <1>7, <1>8, <1>9, <1>10, <1>11, <1>12
    DEF Next, RelayStep, ClientStep, Handling

-----------------------------------------------------------------------------
(* The hub's connection, and envelopes never written *)

\* Only the hub's connection is open; and while every write is marked, an
\* envelope never written waits only for the drain that has read it.
HubInv ==
  /\ ~draining => todo = {}
  /\ \A c \in pumps : c # conn => c \in kicked
  /\ slips = 0 /\ conn # None /\ conn \notin kicked =>
       \A i \in Envelopes : row[i] = "kept" => i \in todo

\* While every write is marked, the client knows nothing of an envelope whose
\* copy says so, nor of a request deleted for it.
UnseenInv ==
  /\ \A i \in Envelopes : ran[i] # 0 => i \in accepted
  /\ \A i \in withdrawn : row[i] = "none" /\ i \notin todo /\ i \in sent
  /\ slips = 0 =>
       \A i \in Envelopes : row[i] = "kept" \/ i \in withdrawn =>
         ran[i] = 0 /\ i \notin wire /\ phase[i] = "idle"

LEMMA HubInit == Init => HubInv /\ UnseenInv
  BY DEF Init, HubInv, UnseenInv

\* A delivery of an envelope the relay has not taken before.
LEMMA DeliverKeepsHub ==
    ASSUME TypeOK, FlowInv, HubInv, UnseenInv, ~draining,
           NEW k \in Envelopes, NEW rows \in [Envelopes -> Marks], Deliver(k, rows),
           k \notin sent,
           \A j \in Envelopes : rows[j] \in {row[j], "none"},
           UNCHANGED <<conn, pumps, draining, todo, phase, ran, withdrawn>>,
           sent' = sent \cup {k}
    PROVE  HubInv' /\ UnseenInv'
  <1> USE DEF Marks
  <1>1. row[k] = "none" /\ rows[k] = "none" /\ ran[k] = 0 /\ phase[k] = "idle"
        /\ k \notin wire /\ k \notin withdrawn /\ accepted \subseteq accepted'
    BY DeliverFacts DEF FlowInv, Known, UnseenInv
  <1>2. /\ \A j \in Envelopes \ {k} : row'[j] \in {row[j], "none"} /\ (j \in wire' => j \in wire)
        /\ \A j \in Envelopes \ {k} : row[j] = "none" => row'[j] = "none"
    BY DeliverFacts
  <1>3. kicked \subseteq kicked' /\ (slips' = 0 => slips = 0)
    BY DeliverFacts
  <1>4. slips' = 0 /\ row'[k] = "kept" => (conn = None \/ conn \in kicked') /\ wire' = wire
    BY <1>1, DeliverFacts
  <1>5. todo = {}
    BY DEF HubInv
  <1>6. HubInv'
    BY <1>2, <1>3, <1>4, <1>5 DEF HubInv
  <1>7. withdrawn \subseteq Envelopes
    BY DEF TypeOK, Requests
  <1>8. UnseenInv'
    <2>1. \A i \in Envelopes : ran'[i] # 0 => i \in accepted'
      BY <1>1 DEF UnseenInv
    <2>2. \A i \in withdrawn' : row'[i] = "none" /\ i \notin todo' /\ i \in sent'
      BY <1>1, <1>2, <1>7 DEF UnseenInv
    <2>3. ASSUME slips' = 0, NEW i \in Envelopes, row'[i] = "kept" \/ i \in withdrawn'
          PROVE  ran'[i] = 0 /\ i \notin wire' /\ phase'[i] = "idle"
      <3>1. CASE i = k
        BY <1>1, <1>4, <2>3, <3>1
      <3>2. CASE i # k
        BY <1>2, <1>3, <2>3, <3>2 DEF UnseenInv
      <3>3. QED BY <3>1, <3>2
    <2>4. QED BY <2>1, <2>2, <2>3 DEF UnseenInv
  <1>9. QED BY <1>6, <1>8

LEMMA HubStep ==
    ASSUME TypeOK, FlowInv, HubInv, UnseenInv, [Next]_vars
    PROVE  HubInv' /\ UnseenInv'
  <1> USE RelayConstants DEF buffer, link, memory, told, fate, Untouched, Marks
  <1>a. /\ row \in [Envelopes -> Marks] /\ withdrawn \subseteq Envelopes
        /\ accepted \subseteq sent /\ wire \subseteq accepted /\ accepted \subseteq Envelopes
        /\ \A i \in Envelopes : phase[i] # "idle" => i \in accepted
        /\ todo \subseteq Envelopes /\ conn \in pumps \cup {None}
    BY DEF TypeOK, FlowInv, Known, Requests
  <1>0. CASE UNCHANGED vars
    BY <1>0 DEF vars, HubInv, UnseenInv
  <1>1. ASSUME NEW i \in Envelopes, Send(i) PROVE HubInv' /\ UnseenInv'
    BY <1>a, <1>1, DeliverKeepsHub DEF Send
  <1>2. ASSUME NEW k \in Cancels, Cancel(k) PROVE HubInv' /\ UnseenInv'
    <2> DEFINE i == Target[k]
               without == [row EXCEPT ![i] = "none"]
    <2>1. i \in Envelopes /\ k \in Envelopes
      BY DEF Requests
    <2>2. /\ without \in [Envelopes -> Marks] /\ without[i] = "none"
          /\ \A j \in Envelopes : without[j] \in {row[j], "none"}
          /\ \A j \in Envelopes \ {i} : without[j] = row[j]
      BY <1>a, <2>1
    <2>3. CASE Unwritten(i)
      <3>1. /\ row' = without /\ withdrawn' = withdrawn \cup {i} /\ row[i] = "kept"
            /\ todo = {} /\ i \in sent /\ sent \subseteq sent'
            /\ UNCHANGED <<conn, pumps, draining, todo, kicked, wire, phase, ran,
                           accepted, slips>>
        BY <1>2, <2>3 DEF Cancel, Unwritten, HubInv
      <3> HIDE DEF i, without
      <3>2. HubInv'
        BY <2>2, <3>1 DEF HubInv
      <3>3. UnseenInv'
        BY <1>a, <2>1, <2>2, <3>1 DEF UnseenInv
      <3>4. QED BY <3>2, <3>3
    <2>4. CASE ~Unwritten(i)
      <3>1. /\ Deliver(k, without) /\ k \notin sent /\ sent' = sent \cup {k} /\ ~draining
            /\ UNCHANGED <<conn, pumps, draining, todo, phase, ran, withdrawn>>
        BY <1>2, <2>4 DEF Cancel
      <3> HIDE DEF i, without
      <3>2. QED BY <2>1, <2>2, <3>1, DeliverKeepsHub
    <2>5. QED BY <2>3, <2>4
  <1>3. ASSUME NEW c \in Conns, Register(c) PROVE HubInv' /\ UnseenInv'
    <2>1. HubInv'
      <3>1. /\ draining' /\ conn' = c /\ pumps' = pumps \cup {c} /\ row' = row
            /\ todo' = {i \in Envelopes : row[i] # "none"}
        BY <1>3 DEF Register
      <3>2. \A d \in pumps' : d # conn' => d \in kicked'
        BY <1>a, <1>3, RelayConstants DEF Register, HubInv, TypeOK
      <3>3. QED BY <3>1, <3>2 DEF HubInv
    <2>2. /\ todo' = {i \in Envelopes : row[i] # "none"}
          /\ UNCHANGED <<row, wire, phase, ran, sent, accepted, withdrawn, slips>>
      BY <1>3 DEF Register
    <2>3. UnseenInv'
      BY <1>a, <2>2 DEF UnseenInv
    <2>4. QED BY <2>1, <2>3
  <1>4. ASSUME NEW i \in Envelopes, DrainRow(i) PROVE HubInv' /\ UnseenInv'
    <2>1. /\ draining /\ i \in todo /\ todo' = todo \ {i} /\ i \notin withdrawn
          /\ UNCHANGED <<conn, pumps, draining, phase, ran, sent, accepted, withdrawn>>
          /\ kicked' = kicked /\ wire' \subseteq wire \cup {i}
          /\ \A j \in Envelopes \ {i} : row'[j] = row[j]
      BY <1>a, <1>4 DEF DrainRow, Written, Note, UnseenInv
    <2>2. (slips' = 0 => slips = 0 /\ row'[i] # "kept")
      BY <1>a, <1>4 DEF DrainRow, Note, TypeOK
    <2>3. HubInv'
      BY <2>1, <2>2 DEF HubInv
    <2>4. UnseenInv'
      BY <1>a, <2>1, <2>2 DEF UnseenInv
    <2>5. QED BY <2>3, <2>4
  <1>5. CASE DrainBreak \/ DrainEnd
    BY <1>5 DEF DrainBreak, DrainEnd, NotWritten, HubInv, UnseenInv
  <1>6. ASSUME NEW c \in Conns, PumpEnds(c) PROVE HubInv' /\ UnseenInv'
    BY <1>6 DEF PumpEnds, Unregistered, HubInv, UnseenInv
  <1>7. ASSUME NEW i \in Envelopes, AckArrives(i) \/ AckLost(i) \/ Age(i)
        PROVE  HubInv' /\ UnseenInv'
    BY <1>a, <1>7 DEF AckArrives, AckLost, Age, HubInv, UnseenInv
  <1>8. CASE ExpireTTL \/ RelayRestart
    BY <1>a, <1>8 DEF ExpireTTL, RelayRestart, HubInv, UnseenInv
  <1>9. ASSUME NEW c \in Conns, Connect(c) PROVE HubInv' /\ UnseenInv'
    BY <1>a, <1>9 DEF Connect, HubInv, UnseenInv
  <1>10. CASE Leave \/ Cut \/ ClientCrash
    BY <1>10 DEF Leave, Cut, ClientCrash, HubInv, UnseenInv
  <1>11. ASSUME NEW i \in Envelopes, Receive(i) PROVE HubInv' /\ UnseenInv'
    <2>1. /\ i \in wire /\ wire' \subseteq wire
          /\ UNCHANGED <<row, conn, pumps, draining, todo, kicked, sent, accepted,
                         withdrawn, slips>>
          /\ \A j \in Envelopes \ {i} : phase'[j] = phase[j] /\ ran'[j] = ran[j]
      BY <1>11, DispatchFacts DEF Receive, TypeOK
    <2>2. HubInv' /\ i \in accepted
      BY <1>a, <2>1 DEF HubInv
    <2>3. UnseenInv'
      BY <1>a, <2>1, <2>2 DEF UnseenInv
    <2>4. QED BY <2>2, <2>3
  <1>12. ASSUME NEW i \in Envelopes,
                \/ AskSeen(i) \/ AskUnseen(i) \/ AskFails(i) \/ HandlerEnds(i)
                \/ Finish(i) \/ FinishFails(i) \/ Prune(i)
         PROVE  HubInv' /\ UnseenInv'
    <2>1. /\ UNCHANGED <<row, conn, pumps, draining, todo, kicked, wire, sent, accepted,
                         withdrawn, slips>>
          /\ \A j \in Envelopes \ {i} : phase'[j] = phase[j] /\ ran'[j] = ran[j]
          /\ phase[i] # "idle" \/ UNCHANGED <<phase, ran>>
      BY <1>12, DispatchFacts
      DEF AskSeen, AskUnseen, AskFails, HandlerEnds, Finish, FinishFails, Prune, TypeOK
    <2>2. HubInv'
      BY <2>1 DEF HubInv
    <2>3. UnseenInv'
      BY <1>a, <2>1 DEF UnseenInv
    <2>4. QED BY <2>2, <2>3
  <1>13. QED
    BY <1>0, <1>1, <1>2, <1>3, <1>4, <1>5, <1>6, <1>7, <1>8, <1>9, <1>10, <1>11, <1>12
    DEF Next, RelayStep, ClientStep, Handling

-----------------------------------------------------------------------------
(* The theorems *)

RelayInv == TypeOK /\ FlowInv /\ AckInv /\ HubInv /\ UnseenInv

\* The inductive invariant holds of every behaviour.
THEOREM Invariance == Spec => []RelayInv
  <1>1. Init => RelayInv
    BY TypeInit, FlowInit, AckInit, HubInit DEF RelayInv
  <1>2. RelayInv /\ [Next]_vars => RelayInv'
    <2> SUFFICES ASSUME RelayInv, [Next]_vars PROVE RelayInv'
      OBVIOUS
    <2>1. TypeOK' /\ FlowInv'
      BY TypeStep, FlowStep DEF RelayInv
    <2>2. AckInv'
      BY AckStep DEF RelayInv, AckInv, Granting
    <2>3. HubInv' /\ UnseenInv'
      BY HubStep DEF RelayInv
    <2>4. QED BY <2>1, <2>2, <2>3 DEF RelayInv
  <1>3. QED BY <1>1, <1>2, PTL DEF Spec

\* The buffer, the hub and the client's memory are well typed in every
\* reachable state.
THEOREM TypeCorrect == Spec => []TypeOK
  BY Invariance, PTL DEF RelayInv

\* No disconnect, crash or failing store loses an envelope the relay took.
THEOREM NothingIsLost == Spec => []NothingLost
  BY Invariance, PTL DEF RelayInv, FlowInv

\* With relays that grant acks, what is acknowledged is on record or past.
THEOREM AcksFollowRecords == ASSUME Granting PROVE Spec => []AckedIsRecorded
  <1>1. RelayInv => AckedIsRecorded
    BY DEF RelayInv, AckInv, Recorded
  <1>2. QED BY <1>1, Invariance, PTL

\* With relays that grant acks, a handler runs again only after a crash
\* between its run and its record.
THEOREM RunsOnce == ASSUME Granting PROVE Spec => []HandledOnce
  <1>1. RelayInv => HandledOnce
    BY DEF RelayInv, AckInv, Once, HandledOnce, TypeOK
  <1>2. QED BY <1>1, Invariance, PTL

\* The open socket is the hub's connection and nothing unwritten waits on it.
THEOREM NobodyWaitsOnline == Spec => []OnlineNeverWaits
  <1>1. RelayInv => OnlineNeverWaits
    <2> SUFFICES ASSUME RelayInv, sock \in pumps, Sound(sock), ~draining, slips = 0
                 PROVE  conn = sock /\ \A i \in Envelopes : row[i] # "kept"
      BY DEF OnlineNeverWaits, RelayInv, TypeOK, HubInv, Sound
    <2>1. conn = sock /\ conn # None /\ conn \notin kicked
      BY RelayConstants DEF RelayInv, TypeOK, HubInv, Sound
    <2>2. QED BY <2>1 DEF RelayInv, HubInv
  <1>2. QED BY <1>1, Invariance, PTL

\* While every write is marked, a request deleted by its cancel never runs.
THEOREM WithdrawnStaysAway == Spec => []WithdrawnNeverRuns
  <1>1. RelayInv => WithdrawnNeverRuns
    BY DEF RelayInv, UnseenInv, WithdrawnNeverRuns, TypeOK, Requests
  <1>2. QED BY <1>1, Invariance, PTL

\* With relays that grant acks, relay and client implement the mailbox.
THEOREM RelayIsMailbox == ASSUME Granting PROVE Spec => ImplementsMailbox
  <1>1. RelayInv /\ [Next]_vars => [Box!Next]_Box!vars
    BY BoxStep DEF RelayInv
  <1>2. QED BY <1>1, BoxInit, Invariance, PTL DEF Spec, ImplementsMailbox, Box!Spec

-----------------------------------------------------------------------------
(* The limits of the buffer and of the client's memory *)

\* No more copies wait for a recipient than the buffer has rows for, and no
\* more ids are remembered than the client's set has room for, whatever is
\* delivered, cancelled and drained in between.
WithinLimits ==
  /\ IsFiniteSet(Kept) /\ Cardinality(Kept) <= Capacity
  /\ IsFiniteSet(recent) /\ Cardinality(recent) <= RecentLimit

\* An envelope whose copy is gone from the buffer has no copy there again: no
\* drain, late mark or restart brings back what was acknowledged or deleted.
NoCopyReturns ==
  \A i \in accepted : row[i] = "none" => row'[i] = "none"

\* A delivery adds a row only where there is room for one.
LEMMA DeliverRoom ==
    ASSUME TypeOK, NEW i \in Envelopes, NEW rows \in [Envelopes -> Marks], Deliver(i, rows)
    PROVE  \/ row' = rows
           \/ /\ Cardinality({j \in Envelopes : rows[j] # "none"}) < Capacity
              /\ Kept' = {j \in Envelopes : rows[j] # "none"} \cup {i}
  <1>1. ASSUME Room(rows), row'[i] # "none", \A j \in Envelopes \ {i} : row'[j] = rows[j]
        PROVE  /\ Cardinality({j \in Envelopes : rows[j] # "none"}) < Capacity
               /\ Kept' = {j \in Envelopes : rows[j] # "none"} \cup {i}
    BY <1>1 DEF Room, Kept
  <1>2. \/ row' = rows
        \/ /\ Room(rows)
           /\ \E m \in {"kept", "written"} :
                \/ row' = [rows EXCEPT ![i] = m]
                \/ row' = [[rows EXCEPT ![i] = "kept"] EXCEPT ![i] = m]
    BY DEF Deliver, Note
  <1>3. \/ row' = rows
        \/ Room(rows) /\ row'[i] # "none" /\ \A j \in Envelopes \ {i} : row'[j] = rows[j]
    BY <1>2
  <1>4. QED BY <1>1, <1>3

\* What a step does to the rows: it adds one new envelope within the capacity,
\* or adds none.
LEMMA RowsMove ==
    ASSUME RelayInv, [Next]_vars
    PROVE  \/ Kept' \subseteq Kept
           \/ \E i \in Envelopes \ accepted, R \in SUBSET Kept :
                Cardinality(R) < Capacity /\ Kept' = R \cup {i}
  <1> USE RelayConstants DEF buffer, link, memory, told, fate, Untouched, Marks
  <1>a. /\ row \in [Envelopes -> Marks] /\ accepted \subseteq sent /\ TypeOK
    BY DEF RelayInv, TypeOK, FlowInv, Known
  <1>0. CASE row' = row
    BY <1>0 DEF Kept
  <1>1. ASSUME NEW i \in Envelopes, Send(i)
        PROVE  \/ Kept' \subseteq Kept
               \/ i \notin accepted /\ Cardinality(Kept) < Capacity /\ Kept' = Kept \cup {i}
    BY <1>a, <1>1, DeliverRoom DEF Send, Kept
  <1>2. ASSUME NEW k \in Cancels, Cancel(k)
        PROVE  \/ Kept' \subseteq Kept
               \/ /\ k \in Envelopes \ accepted
                  /\ \E R \in SUBSET Kept : Cardinality(R) < Capacity /\ Kept' = R \cup {k}
    <2> DEFINE without == [row EXCEPT ![Target[k]] = "none"]
               R == {j \in Envelopes : without[j] # "none"}
    <2>1. without \in [Envelopes -> Marks] /\ R \subseteq Kept
      BY <1>a DEF Kept
    <2>2. row' = without \/ Deliver(k, without)
      BY <1>2 DEF Cancel
    <2>3. k \in Envelopes \ accepted
      BY <1>a, <1>2 DEF Cancel
    <2> HIDE DEF without
    <2>4. row' = without => Kept' \subseteq Kept
      BY <2>1 DEF Kept
    <2>5. ASSUME Deliver(k, without)
          PROVE  row' = without \/ (Cardinality(R) < Capacity /\ Kept' = R \cup {k})
      <3>1. \/ row' = without
            \/ /\ Cardinality({j \in Envelopes : without[j] # "none"}) < Capacity
               /\ Kept' = {j \in Envelopes : without[j] # "none"} \cup {k}
        BY <1>a, <2>1, <2>3, <2>5, DeliverRoom
      <3>2. QED BY <3>1
    <2> HIDE DEF R
    <2>6. QED BY <2>1, <2>2, <2>3, <2>4, <2>5
  <1>3. ASSUME NEW i \in Envelopes, DrainRow(i) \/ AckArrives(i) PROVE Kept' \subseteq Kept
    <2>1. \/ row' = row \/ row' = [row EXCEPT ![i] = "none"]
          \/ row[i] # "none" /\ row' = [row EXCEPT ![i] = "written"]
      BY <1>3 DEF DrainRow, Note, AckArrives
    <2>2. QED BY <1>a, <2>1 DEF Kept
  <1>4. CASE ExpireTTL
    BY <1>a, <1>4 DEF ExpireTTL, Kept
  <1>5. ASSUME NEW i \in Envelopes,
               \/ AckLost(i) \/ Age(i) \/ Receive(i) \/ AskSeen(i) \/ AskUnseen(i)
               \/ HandlerEnds(i) \/ Finish(i) \/ AskFails(i) \/ FinishFails(i) \/ Prune(i)
        PROVE  row' = row
    BY <1>5 DEF AckLost, Age, Receive, AskSeen, AskUnseen, HandlerEnds, Finish, AskFails,
                FinishFails, Prune
  <1>6. ASSUME NEW c \in Conns, Register(c) \/ PumpEnds(c) \/ Connect(c) PROVE row' = row
    BY <1>6 DEF Register, PumpEnds, Connect
  <1>7. ASSUME \/ DrainBreak \/ DrainEnd \/ RelayRestart \/ Leave \/ Cut \/ ClientCrash
               \/ UNCHANGED vars
        PROVE  row' = row
    BY <1>7 DEF DrainBreak, DrainEnd, RelayRestart, Leave, Cut, ClientCrash, vars
  <1>8. CASE \E i \in Envelopes : Send(i)
    BY <1>1, <1>8
  <1>9. CASE \E k \in Cancels : Cancel(k)
    BY <1>2, <1>9
  <1>10. QED
    BY <1>0, <1>3, <1>4, <1>5, <1>6, <1>7, <1>8, <1>9
    DEF Next, RelayStep, ClientStep, Handling

\* What the client's memory may become.
LEMMA RecentMoves ==
    ASSUME [Next]_vars
    PROVE  recent' = recent \/ recent' = {} \/ \E i \in Envelopes : Remember(i)
  <1> USE DEF buffer, link, memory, told, fate, Untouched
  <1>1. CASE RelayStep
    BY <1>1 DEF RelayStep, Send, DrainRow, AckArrives, AckLost, Age, Cancel, Register, PumpEnds,
                DrainBreak, DrainEnd, ExpireTTL, RelayRestart
  <1>2. CASE ClientStep
    BY <1>2 DEF ClientStep, Handling, Connect, Leave, Cut, ClientCrash, Receive, AskSeen,
                AskUnseen, HandlerEnds, Finish, AskFails, FinishFails, Prune
  <1>3. QED BY <1>1, <1>2 DEF Next, vars

\* The buffer and the memory keep to their limits.
THEOREM LimitsKept == Spec => []WithinLimits
  <1>1. Init => WithinLimits
    <2> SUFFICES ASSUME Init PROVE WithinLimits
      OBVIOUS
    <2>1. Kept = {} /\ recent = {}
      BY DEF Init, Kept
    <2>2. QED BY <2>1, FS_EmptySet, RelayConstants DEF WithinLimits
  <1>2. RelayInv /\ WithinLimits /\ [Next]_vars => WithinLimits'
    <2> SUFFICES ASSUME RelayInv, WithinLimits, [Next]_vars PROVE WithinLimits'
      OBVIOUS
    <2>1. Capacity \in Nat /\ RecentLimit \in Nat /\ RecentLimit > 0
      BY RelayConstants
    <2>2. IsFiniteSet(Kept') /\ Cardinality(Kept') <= Capacity
      <3>1. CASE Kept' \subseteq Kept
        BY <2>1, <3>1, FS_Subset, FS_CardinalityType DEF WithinLimits
      <3>2. ASSUME NEW i \in Envelopes, NEW R \in SUBSET Kept,
                   Cardinality(R) < Capacity, Kept' = R \cup {i}
            PROVE  IsFiniteSet(Kept') /\ Cardinality(Kept') <= Capacity
        <4>1. IsFiniteSet(R) /\ Cardinality(R) \in Nat
          BY FS_Subset, FS_CardinalityType DEF WithinLimits
        <4>2. /\ IsFiniteSet(R \cup {i})
              /\ Cardinality(R \cup {i}) = IF i \in R THEN Cardinality(R) ELSE Cardinality(R) + 1
          BY <4>1, FS_AddElement
        <4>3. QED BY <2>1, <3>2, <4>1, <4>2
      <3>3. QED BY <3>1, <3>2, RowsMove
    <2>3. IsFiniteSet(recent') /\ Cardinality(recent') <= RecentLimit
      <3>1. CASE recent' = recent \/ recent' = {}
        BY <2>1, <3>1, FS_EmptySet DEF WithinLimits
      <3>2. ASSUME NEW i \in Envelopes, Remember(i)
            PROVE  IsFiniteSet(recent') /\ Cardinality(recent') <= RecentLimit
        <4>1. /\ IsFiniteSet(recent) /\ Cardinality(recent) \in Nat
              /\ IsFiniteSet(recent \cup {i})
              /\ Cardinality(recent \cup {i}) \in Nat
              /\ Cardinality(recent \cup {i}) <= Cardinality(recent) + 1
          <5>1. IsFiniteSet(recent) /\ Cardinality(recent) \in Nat
            BY FS_CardinalityType DEF WithinLimits
          <5>2. /\ IsFiniteSet(recent \cup {i})
                /\ Cardinality(recent \cup {i}) =
                     IF i \in recent THEN Cardinality(recent) ELSE Cardinality(recent) + 1
            BY <5>1, FS_AddElement
          <5>3. QED BY <5>1, <5>2
        <4>2. CASE recent' = recent \cup {i} /\ Cardinality(recent \cup {i}) <= RecentLimit
          BY <4>1, <4>2
        <4>3. ASSUME NEW j \in recent \cup {i}, recent' = (recent \cup {i}) \ {j}
              PROVE  IsFiniteSet(recent') /\ Cardinality(recent') <= RecentLimit
          <5>1. /\ IsFiniteSet(recent')
                /\ Cardinality(recent') = Cardinality(recent \cup {i}) - 1
            BY <4>1, <4>3, FS_RemoveElement
          <5>2. QED BY <2>1, <4>1, <5>1 DEF WithinLimits
        <4>4. QED BY <3>2, <4>2, <4>3 DEF Remember
      <3>3. QED BY <3>1, <3>2, RecentMoves
    <2>4. QED BY <2>2, <2>3 DEF WithinLimits
  <1>3. QED BY <1>1, <1>2, Invariance, PTL DEF Spec

\* What the relay has let go of stays gone, with acks or without.
THEOREM GoneStaysGone == Spec => [][NoCopyReturns]_vars
  <1>1. RelayInv /\ [Next]_vars => [NoCopyReturns]_vars
    <2> SUFFICES ASSUME RelayInv, [Next]_vars, NEW i \in accepted, row[i] = "none"
                 PROVE  row'[i] = "none"
      BY DEF NoCopyReturns
    <2>1. i \in Envelopes /\ i \notin Kept
      BY DEF RelayInv, TypeOK, Kept
    <2>2. i \notin Kept'
      BY <2>1, RowsMove
    <2>3. QED BY <2>1, <2>2 DEF Kept
  <1>2. QED BY <1>1, Invariance, PTL DEF Spec

=============================================================================
