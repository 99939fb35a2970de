------------------------- MODULE WorkflowTaskProofs -------------------------
(***************************************************************************)
(* Theorems about WorkflowTask, for every number of tasks, every set of    *)
(* agents, every retry budget and drain bound.                             *)
(***************************************************************************)
EXTENDS WorkflowTask, FiniteSetTheorems, TLAPS

-----------------------------------------------------------------------------
(* Type correctness *)

\* The states the actions write are states of the table.
LEMMA StatusFacts ==
    /\ None \in Status
    /\ "pending_approval" \in Status /\ "queued" \in Status /\ "running" \in Status
    /\ "completed" \in Ended /\ "failed" \in Ended
    /\ "cancelled" \in Ended /\ "outcome_unknown" \in Ended
    /\ \A s \in Ended : s \in Status
  BY DEF Status, Ended, None

\* Writing columns of a row leaves a row of the table's shape.
LEMMA RowUpdate ==
    ASSUME NEW r \in Row, NEW s \in Status
    PROVE  /\ [r EXCEPT !.status = s] \in Row
           /\ [r EXCEPT !.lease = "live"] \in Row
           /\ [r EXCEPT !.lease = "lapsed"] \in Row
           /\ [r EXCEPT !.overdue = TRUE] \in Row
           /\ [r EXCEPT !.backoff = FALSE] \in Row
           /\ [r EXCEPT !.closed = TRUE] \in Row
           /\ [r EXCEPT !.stale = TRUE] \in Row
  BY DEF Row

LEMMA RowOwner ==
    ASSUME NEW r \in Row, NEW s \in Status, NEW a \in Runners \cup {None}
    PROVE  [r EXCEPT !.status = s, !.agent = a] \in Row
  BY DEF Row

\* A claim leaves a row of the table's shape, and so does a lease loss.
LEMMA ClaimedRowType ==
    ASSUME TypeOK, NEW t \in Tasks, NEW a \in Runners
    PROVE  ClaimedRow(t, a) \in Row
  <1>1. task[t] \in Row /\ Len(exec[t]) + 1 \in Nat /\ task[t].attempt + 1 \in Nat
    BY DEF TypeOK, Row
  <1>2. QED BY <1>1, StatusFacts DEF ClaimedRow, Row

LEMMA SweptRowType ==
    ASSUME TypeOK, NEW t \in Tasks
    PROVE  SweptRow(t) \in Row /\ LeaseLossVerdict(t) \in {"queued", "failed", "outcome_unknown"}
  <1>1. task[t] \in Row
    BY DEF TypeOK
  <1>2. LeaseLossVerdict(t) \in {"queued", "failed", "outcome_unknown"}
    BY DEF LeaseLossVerdict
  <1>3. Plugin(t) \in BOOLEAN
    BY DEF Plugin
  <1>4. QED BY <1>1, <1>2, <1>3, StatusFacts DEF SweptRow, Row

\* Ending a row with its notice keeps both in shape.
LEMMA RowWrite ==
    ASSUME TypeOK, NEW t \in Tasks, NEW row \in Row, NEW end \in Ended,
           \/ /\ task' = [task EXCEPT ![t] = row]
              /\ notices' = [notices EXCEPT ![t] = Append(@, end)]
           \/ UNCHANGED <<task, notices>>
    PROVE  task' \in [Tasks -> Row] /\ notices' \in [Tasks -> Seq(Ended)]
  <1>1. task' \in [Tasks -> Row]
    BY DEF TypeOK
  <1>2. Append(notices[t], end) \in Seq(Ended)
    BY DEF TypeOK
  <1>3. notices' \in [Tasks -> Seq(Ended)]
    BY <1>2 DEF TypeOK
  <1>4. QED BY <1>1, <1>3

\* What a lane claim does to one row: nothing, a fresh claim of it, or a fresh
\* claim that is failed at once.
LEMMA LaneClaim ==
    ASSUME ClaimPlugin, NEW t \in Tasks
    PROVE  \/ task'[t] = task[t] /\ exec'[t] = exec[t] /\ notices'[t] = notices[t]
           \/ /\ t \in Drawn
              /\ task'[t] = ClaimedRow(t, Device) /\ notices'[t] = notices[t]
              /\ \E g \in {"drawn", "handed"} :
                    exec'[t] = Append(exec[t], [agent |-> Device, stage |-> g])
           \/ /\ t \in Drawn
              /\ task'[t] = [ClaimedRow(t, Device) EXCEPT !.status = "failed"]
              /\ exec'[t] = Append(exec[t], [agent |-> Device, stage |-> "refused"])
              /\ notices'[t] = Append(notices[t], "failed")
  BY DEF ClaimPlugin

\* Settling a claim changes its stage and nothing else.
LEMMA SettleFacts ==
    ASSUME TypeOK, NEW t \in Tasks, NEW n \in Claims(t),
           NEW g \in {"drawn", "handed", "refused"}, Settle(t, n, g)
    PROVE  /\ exec' \in [Tasks -> Seq(Execution)]
           /\ Len(exec'[t]) = Len(exec[t])
           /\ \A k \in Claims(t) : exec'[t][k].agent = exec[t][k].agent
           /\ \A u \in Tasks : u # t => exec'[u] = exec[u]
  <1> DEFINE e == [exec[t][n] EXCEPT !.stage = g]
             new == [exec[t] EXCEPT ![n] = e]
  <1>1. exec \in [Tasks -> Seq(Execution)] /\ exec[t] \in Seq(Execution)
    BY DEF TypeOK
  <1>2. n \in 1..Len(exec[t]) /\ exec[t][n] \in Execution
    BY <1>1 DEF Claims
  <1>3. e \in Execution /\ e.agent = exec[t][n].agent
    BY <1>2 DEF Execution
  <1>4. exec' = [exec EXCEPT ![t] = new]
    BY DEF Settle
  <1> HIDE DEF e
  <1>5. /\ new \in Seq(Execution) /\ Len(new) = Len(exec[t])
        /\ \A k \in 1..Len(exec[t]) : new[k].agent = exec[t][k].agent
    BY <1>1, <1>2, <1>3
  <1> HIDE DEF new
  <1>6. QED BY <1>1, <1>4, <1>5 DEF Claims

\* Reading a row for a cancel keeps the record of reads in shape.
LEMMA SeenUpdate ==
    ASSUME NEW f \in [Cancellers -> [Tasks -> Status]], NEW who \in Cancellers,
           NEW t \in Tasks, NEW s \in Status
    PROVE  [f EXCEPT ![who][t] = s] \in [Cancellers -> [Tasks -> Status]]
  <1>1. [f[who] EXCEPT ![t] = s] \in [Tasks -> Status]
    OBVIOUS
  <1>2. QED BY <1>1

\* Every row, record and pending read starts in the shape its columns allow
\* and every step keeps it.
LEMMA TypeInit == Init => TypeOK
  <1>1. NoRow \in Row
    BY DEF NoRow, Row, Status, Classes, None, Ended
  <1>2. ASSUME Init PROVE cancelSeen \in [Cancellers -> [Tasks -> Status]]
    BY <1>2, StatusFacts DEF Init
  <1>3. QED BY <1>1, <1>2 DEF Init, TypeOK, Status

LEMMA TypeStep == TypeOK /\ [Next]_vars => TypeOK'
  <1> SUFFICES ASSUME TypeOK, [Next]_vars PROVE TypeOK'
    OBVIOUS
  <1> USE StatusFacts DEF reads, history
  <1>0. CASE UNCHANGED vars
    BY <1>0 DEF vars, TypeOK
  <1>1. ASSUME NEW t \in Tasks, NEW c \in Classes,
               NEW s \in {"pending_approval", "queued"}, Create(t, c, s)
        PROVE  TypeOK'
    <2>1. task[t] \in Row /\ s \in Status
      BY DEF TypeOK
    <2>2. [task[t] EXCEPT !.status = s, !.class = c] \in Row
      BY <2>1 DEF Row
    <2>3. task' = [task EXCEPT ![t] = [task[t] EXCEPT !.status = s, !.class = c]]
      BY <1>1 DEF Create, TypeOK
    <2>4. QED BY <1>1, <2>2, <2>3 DEF Create, TypeOK
  <1>2. ASSUME NEW t \in Tasks, Approve(t) PROVE TypeOK'
    <2>1. task' = [task EXCEPT ![t] = [task[t] EXCEPT !.status = "queued"]]
      BY <1>2 DEF Approve
    <2>2. [task[t] EXCEPT !.status = "queued"] \in Row
      <3>1. task[t] \in Row
        BY DEF TypeOK
      <3>2. QED BY ONLY <3>1, StatusFacts, RowUpdate
    <2>3. QED BY <1>2, <2>1, <2>2 DEF Approve, TypeOK
  <1>3. ASSUME NEW t \in Tasks, NEW n \in Claims(t), NEW token \in Tokens,
               Heartbeat(t, n, token)
        PROVE  TypeOK'
    <2>1. task' = [task EXCEPT ![t] = [task[t] EXCEPT !.lease = "live"]]
      BY <1>3 DEF Heartbeat
    <2>2. [task[t] EXCEPT !.lease = "live"] \in Row
      <3>1. task[t] \in Row
        BY DEF TypeOK
      <3>2. QED BY ONLY <3>1, StatusFacts, RowUpdate
    <2>3. QED BY <1>3, <2>1, <2>2 DEF Heartbeat, TypeOK
  <1>4. ASSUME NEW t \in Tasks, NEW n \in Claims(t), NEW v \in Verbs,
               NEW token \in Tokens, Report(t, n, v, token)
        PROVE  TypeOK'
    <2> DEFINE end == ReportedEnd(t, v)
               row == [task[t] EXCEPT !.status = end, !.agent = exec[t][n].agent]
    <2>1. n \in Nat /\ exec[t][n] \in Execution
      <3>1. exec[t] \in Seq(Execution) /\ n \in 1..Len(exec[t])
        BY DEF Claims, TypeOK
      <3>2. QED BY <3>1
    <2>2. end \in Ended
      BY DEF ReportedEnd
    <2>3. row \in Row
      <3>1. task[t] \in Row /\ exec[t][n].agent \in Runners \cup {None} /\ end \in Status
        BY <2>1, <2>2 DEF TypeOK, Execution
      <3> HIDE DEF end
      <3>2. QED BY ONLY <3>1, RowOwner DEF row
    <2>4. \/ task' = [task EXCEPT ![t] = row] /\ notices' = [notices EXCEPT ![t] = Append(@, end)]
          \/ UNCHANGED <<task, notices>>
      BY <1>4 DEF Report
    <2>5. task' \in [Tasks -> Row] /\ notices' \in [Tasks -> Seq(Ended)]
      <3> HIDE DEF end, row
      <3>1. QED BY <2>2, <2>3, <2>4, RowWrite
    <2>6. /\ told' = [told EXCEPT ![t] = @ \cup {n}]
          /\ applied' = [applied EXCEPT ![t] = n] \/ UNCHANGED applied
          /\ late' = [late EXCEPT ![t] = @ \cup {n}] \/ UNCHANGED late
          /\ UNCHANGED <<install, reads, exec, listed>>
      BY <1>4, Zenon DEF Report
    <2>7. told[t] \cup {n} \in SUBSET Nat /\ late[t] \cup {n} \in SUBSET Nat
      BY <2>1 DEF TypeOK
    <2>8. /\ told' \in [Tasks -> SUBSET Nat] /\ late' \in [Tasks -> SUBSET Nat]
          /\ applied' \in [Tasks -> Nat]
      BY <2>1, <2>6, <2>7 DEF TypeOK
    <2>9. QED BY <2>5, <2>6, <2>8 DEF TypeOK
  <1>5. ASSUME NEW t \in Tasks, NEW v \in Verbs, OwnerReport(t, v)
        PROVE  TypeOK'
    <2> DEFINE end == ReportedEnd(t, v)
               row == [task[t] EXCEPT !.status = end,
                          !.agent = IF end = "outcome_unknown" THEN @ ELSE None]
    <2>1. end \in Ended
      BY DEF ReportedEnd
    <2>2. row \in Row
      <3> DEFINE agent == IF end = "outcome_unknown" THEN task[t].agent ELSE None
      <3>1. task[t] \in Row /\ end \in Status
        BY <2>1 DEF TypeOK
      <3>2. task[t].agent \in Runners \cup {None}
        BY ONLY <3>1 DEF Row
      <3>3. agent \in Runners \cup {None}
        BY ONLY <3>2
      <3> HIDE DEF end, agent
      <3>4. [task[t] EXCEPT !.status = end, !.agent = agent] \in Row
        BY ONLY <3>1, <3>3, RowOwner
      <3>5. QED BY ONLY <3>4 DEF row, agent
    <2>3. \/ task' = [task EXCEPT ![t] = row] /\ notices' = [notices EXCEPT ![t] = Append(@, end)]
          \/ UNCHANGED <<task, notices>>
      BY <1>5 DEF OwnerReport
    <2>4. task' \in [Tasks -> Row] /\ notices' \in [Tasks -> Seq(Ended)]
      <3> HIDE DEF end, row
      <3>1. QED BY <2>1, <2>2, <2>3, RowWrite
    <2>5. UNCHANGED <<install, reads, exec, applied, told, listed>>
      BY <1>5 DEF OwnerReport
    <2>6. late' \in [Tasks -> SUBSET Nat]
      <3>1. late' = [late EXCEPT ![t] = @ \cup {0}] \/ UNCHANGED late
        BY <1>5, Zenon DEF OwnerReport
      <3>2. late[t] \cup {0} \in SUBSET Nat
        BY DEF TypeOK
      <3>3. QED BY <3>1, <3>2 DEF TypeOK
    <2>7. QED BY <2>4, <2>5, <2>6 DEF TypeOK
  <1>6. ASSUME NEW t \in Tasks, NEW who \in Cancellers,
               CancelRead(t, who) \/ CancelMiss(t, who)
        PROVE  TypeOK'
    <2>1. PICK s \in Status : cancelSeen' = [cancelSeen EXCEPT ![who][t] = s]
      <3>1. task[t].status \in Status
        BY DEF TypeOK, Row
      <3>2. QED BY <1>6, <3>1 DEF CancelRead, CancelMiss
    <2>2. cancelSeen' \in [Cancellers -> [Tasks -> Status]]
      BY <2>1, SeenUpdate DEF TypeOK
    <2>3. QED BY <1>6, <2>2 DEF CancelRead, CancelMiss, TypeOK
  <1>7. ASSUME NEW t \in Tasks,
               Cancel(t) \/ \E who \in Cancellers : CancelWrite(t, who)
        PROVE  TypeOK'
    <2>1. PICK end \in Ended : End(t, end) \/ UNCHANGED <<task, notices>>
      <3>1. \A seen : CancelledTo(t, seen) \in Ended
        BY DEF CancelledTo
      <3>2. QED BY <1>7, <3>1 DEF CancelWrite, Cancel
    <2>2. [task[t] EXCEPT !.status = end] \in Row
      <3>1. task[t] \in Row /\ end \in Status
        BY DEF TypeOK
      <3>2. QED BY ONLY <3>1, RowUpdate
    <2>3. \/ /\ task' = [task EXCEPT ![t] = [task[t] EXCEPT !.status = end]]
             /\ notices' = [notices EXCEPT ![t] = Append(@, end)]
          \/ UNCHANGED <<task, notices>>
      BY <2>1 DEF End
    <2>4. task' \in [Tasks -> Row] /\ notices' \in [Tasks -> Seq(Ended)]
      BY <2>2, <2>3, RowWrite
    <2>5. cancelSeen' \in [Cancellers -> [Tasks -> Status]] /\ cut' \in SUBSET Tasks
      <3>1. CASE Cancel(t)
        BY <3>1 DEF Cancel, TypeOK
      <3>2. ASSUME NEW who \in Cancellers, CancelWrite(t, who)
            PROVE  cancelSeen' \in [Cancellers -> [Tasks -> Status]] /\ cut' \in SUBSET Tasks
        <4>1. cancelSeen' = [cancelSeen EXCEPT ![who][t] = None]
          BY <3>2 DEF CancelWrite
        <4>2. cut' = cut \/ cut' = cut \ {t}
          BY <3>2 DEF CancelWrite
        <4>3. QED BY <4>1, <4>2, SeenUpdate DEF TypeOK
      <3>3. QED BY <1>7, <3>1, <3>2
    <2>6. UNCHANGED <<install, expireSeen, exec, applied, told, late, listed>>
      BY <1>7 DEF CancelWrite, Cancel
    <2>7. QED BY <2>4, <2>5, <2>6 DEF TypeOK
  <1>8. ASSUME NEW t \in Tasks,
               LapseLease(t) \/ PassDeadline(t) \/ EndBackoff(t) \/ CloseWindow(t)
        PROVE  TypeOK'
    <2>1. PICK row \in {[task[t] EXCEPT !.lease = "lapsed"],
                        [task[t] EXCEPT !.overdue = TRUE],
                        [task[t] EXCEPT !.backoff = FALSE],
                        [task[t] EXCEPT !.closed = TRUE]} :
                 task' = [task EXCEPT ![t] = row]
      <3>1. CASE LapseLease(t)
        BY <3>1 DEF LapseLease
      <3>2. CASE PassDeadline(t)
        BY <3>2 DEF PassDeadline
      <3>3. CASE EndBackoff(t)
        BY <3>3 DEF EndBackoff
      <3>4. CASE CloseWindow(t)
        BY <3>4 DEF CloseWindow
      <3>5. QED BY <1>8, <3>1, <3>2, <3>3, <3>4
    <2>2. row \in Row
      <3>1. task[t] \in Row
        BY DEF TypeOK
      <3>2. QED BY <3>1, StatusFacts, RowUpdate
    <2>3. task' \in [Tasks -> Row]
      BY <2>1, <2>2 DEF TypeOK
    <2>4. QED
      BY <1>8, <2>3 DEF LapseLease, PassDeadline, EndBackoff, CloseWindow, TypeOK
  <1>9. ASSUME NEW a \in Agents, ClaimGeneric(a) PROVE TypeOK'
    <2>1. PICK t \in Tasks :
             /\ task' = [task EXCEPT ![t] = ClaimedRow(t, a)]
             /\ exec' = [exec EXCEPT ![t] = Append(@, [agent |-> a, stage |-> "handed"])]
      BY <1>9 DEF ClaimGeneric
    <2>2. ClaimedRow(t, a) \in Row /\ [agent |-> a, stage |-> "handed"] \in Execution
      BY ClaimedRowType DEF Runners, Execution
    <2>3. task' \in [Tasks -> Row] /\ exec' \in [Tasks -> Seq(Execution)]
      BY <2>1, <2>2 DEF TypeOK
    <2>4. QED BY <1>9, <2>3 DEF ClaimGeneric, TypeOK
  <1>10. ASSUME ClaimPlugin PROVE TypeOK'
    <2>1. \A t \in Tasks : task'[t] \in Row
      <3> TAKE t \in Tasks
      <3>1. ClaimedRow(t, Device) \in Row
        BY ClaimedRowType DEF Runners
      <3>2. [ClaimedRow(t, Device) EXCEPT !.status = "failed"] \in Row
        BY ONLY <3>1, StatusFacts, RowUpdate
      <3>3. task[t] \in Row
        BY DEF TypeOK
      <3>4. QED BY <1>10, <3>1, <3>2, <3>3, LaneClaim
    <2>2. \A t \in Tasks : exec'[t] \in Seq(Execution)
      <3> TAKE t \in Tasks
      <3>1. exec[t] \in Seq(Execution)
        BY DEF TypeOK
      <3>2. ASSUME NEW g \in {"drawn", "handed", "refused"}
            PROVE  Append(exec[t], [agent |-> Device, stage |-> g]) \in Seq(Execution)
        <4>1. [agent |-> Device, stage |-> g] \in Execution
          BY DEF Execution, Runners
        <4>2. QED BY <3>1, <4>1
      <3>3. \/ exec'[t] = exec[t]
            \/ \E g \in {"drawn", "handed", "refused"} :
                  exec'[t] = Append(exec[t], [agent |-> Device, stage |-> g])
        BY <1>10, LaneClaim
      <3>4. QED BY <3>1, <3>2, <3>3
    <2>3. \A t \in Tasks : notices'[t] \in Seq(Ended)
      <3> TAKE t \in Tasks
      <3>1. notices[t] \in Seq(Ended) /\ Append(notices[t], "failed") \in Seq(Ended)
        BY DEF TypeOK, Ended
      <3>2. QED BY <1>10, <3>1, LaneClaim
    <2>4. QED BY <1>10, <2>1, <2>2, <2>3 DEF ClaimPlugin, TypeOK
  <1>20. ASSUME DrawPlugin PROVE TypeOK'
    <2>1. PICK t \in Tasks :
             /\ task' = [task EXCEPT ![t] = ClaimedRow(t, Device)]
             /\ exec' = [exec EXCEPT ![t] = Append(@, [agent |-> Device, stage |-> "drawn"])]
      BY <1>20 DEF DrawPlugin, Lane
    <2>2. ClaimedRow(t, Device) \in Row /\ [agent |-> Device, stage |-> "drawn"] \in Execution
      BY ClaimedRowType DEF Runners, Execution
    <2>3. task' \in [Tasks -> Row] /\ exec' \in [Tasks -> Seq(Execution)]
      BY <2>1, <2>2 DEF TypeOK
    <2>4. QED BY <1>20, <2>3 DEF DrawPlugin, TypeOK
  <1>21. ASSUME NEW t \in Tasks, NEW n \in Claims(t), HandOver(t, n) PROVE TypeOK'
    <2>1. exec' \in [Tasks -> Seq(Execution)]
      BY <1>21, SettleFacts DEF HandOver
    <2>2. QED BY <1>21, <2>1 DEF HandOver, TypeOK
  <1>22. ASSUME NEW t \in Tasks, NEW n \in Claims(t), FailStale(t, n) PROVE TypeOK'
    <2>1. exec' \in [Tasks -> Seq(Execution)]
      BY <1>22, SettleFacts DEF FailStale
    <2>2. [task[t] EXCEPT !.status = "failed"] \in Row
      BY RowUpdate DEF TypeOK
    <2>3. \/ /\ task' = [task EXCEPT ![t] = [task[t] EXCEPT !.status = "failed"]]
             /\ notices' = [notices EXCEPT ![t] = Append(@, "failed")]
          \/ UNCHANGED <<task, notices>>
      BY <1>22 DEF FailStale
    <2>4. task' \in [Tasks -> Row] /\ notices' \in [Tasks -> Seq(Ended)]
      BY <2>2, <2>3, RowWrite
    <2>5. late' \in [Tasks -> SUBSET Nat]
      <3>1. late' = [late EXCEPT ![t] = @ \cup {n}] \/ UNCHANGED late
        BY <1>22, Zenon DEF FailStale
      <3>2. late[t] \cup {n} \in SUBSET Nat
        BY DEF TypeOK, Claims
      <3>3. QED BY <3>1, <3>2 DEF TypeOK
    <2>6. QED BY <1>22, <2>1, <2>4, <2>5 DEF FailStale, TypeOK
  <1>11. ASSUME Revoke PROVE TypeOK'
    <2>1. \A t \in Tasks : CancelledTo(t, task[t].status) \in Ended
      BY DEF CancelledTo
    <2>2. \A t \in Tasks :
            task'[t] \in {task[t], [task[t] EXCEPT !.status = CancelledTo(t, task[t].status)]}
      BY <1>11 DEF Revoke
    <2>3. \A t \in Tasks : [task[t] EXCEPT !.status = CancelledTo(t, task[t].status)] \in Row
      BY <2>1, RowUpdate DEF TypeOK
    <2>4. \A t \in Tasks : task[t] \in Row
      BY DEF TypeOK
    <2>5. \A t \in Tasks : notices'[t] \in Seq(Ended)
      <3> TAKE t \in Tasks
      <3>1. notices'[t] \in {notices[t], Append(notices[t], CancelledTo(t, task[t].status))}
        BY <1>11 DEF Revoke
      <3>2. notices[t] \in Seq(Ended) /\ CancelledTo(t, task[t].status) \in Ended
        BY <2>1 DEF TypeOK
      <3>3. Append(notices[t], CancelledTo(t, task[t].status)) \in Seq(Ended)
        BY <3>2
      <3>4. QED BY <3>1, <3>2, <3>3
    <2>6. /\ task' = [t \in Tasks |-> task'[t]] /\ notices' = [t \in Tasks |-> notices'[t]]
          /\ cut' \in SUBSET Tasks
      BY <1>11 DEF Revoke, InFlight
    <2>7. task' \in [Tasks -> Row] /\ notices' \in [Tasks -> Seq(Ended)]
      BY <2>2, <2>3, <2>4, <2>5, <2>6
    <2>8. QED BY <1>11, <2>6, <2>7 DEF Revoke, TypeOK
  <1>23. ASSUME CloseLane \/ ListInFlight PROVE TypeOK'
    BY <1>23 DEF CloseLane, ListInFlight, InFlight, TypeOK
  <1>12. ASSUME Pause \/ Resume PROVE TypeOK'
    BY <1>12 DEF Pause, Resume, TypeOK
  <1>13. ASSUME LoseAuthority PROVE TypeOK'
    <2>1. PICK riding \in SUBSET Tasks :
            task' = [t \in Tasks |-> IF t \in riding
                       THEN [task[t] EXCEPT !.stale = TRUE] ELSE task[t]]
      BY <1>13 DEF LoseAuthority
    <2>2. \A t \in Tasks : [task[t] EXCEPT !.stale = TRUE] \in Row
      BY RowUpdate DEF TypeOK
    <2>3. task' \in [Tasks -> Row]
      BY <2>1, <2>2 DEF TypeOK
    <2>4. QED BY <1>13, <2>3 DEF LoseAuthority, TypeOK, reads, history
  <1>14. ASSUME SweepLeases PROVE TypeOK'
    BY <1>14, SweptRowType DEF SweepLeases, TypeOK, Ended
  <1>15. ASSUME NEW seen \in [Tasks -> Status], ExpireRows(seen)
         PROVE  task' \in [Tasks -> Row] /\ notices' \in [Tasks -> Seq(Ended)]
    <2>1. \A t \in Tasks : ExpiredTo(t, seen[t]) \in Ended
      BY DEF ExpiredTo
    <2>2. task' \in [Tasks -> Row]
      <3>1. \A t \in Tasks : [task[t] EXCEPT !.status = ExpiredTo(t, seen[t])] \in Row
        BY <2>1, RowUpdate DEF TypeOK
      <3>2. QED BY <1>15, <3>1 DEF ExpireRows, TypeOK
    <2>3. notices' \in [Tasks -> Seq(Ended)]
      BY <1>15, <2>1 DEF ExpireRows, TypeOK
    <2>4. QED BY <2>2, <2>3
  <1>16. /\ Candidates \in [Tasks -> Status] /\ NoCandidates \in [Tasks -> Status]
         /\ NoReads \in [Cancellers -> [Tasks -> Status]]
    BY DEF Candidates, NoCandidates, NoReads, TypeOK, Row, None
  <1>17. ASSUME ExpireRead \/ Crash PROVE TypeOK'
    BY <1>16, <1>17 DEF ExpireRead, Crash, TypeOK, Status
  <1>18. ASSUME ExpireWrite \/ SweepExpired PROVE TypeOK'
    BY <1>15, <1>16, <1>18 DEF ExpireWrite, SweepExpired, TypeOK
  <1>19. QED
    BY <1>0, <1>1, <1>2, <1>3, <1>4, <1>5, <1>6, <1>7, <1>8, <1>9, <1>10,
       <1>11, <1>12, <1>13, <1>14, <1>17, <1>18, <1>20, <1>21, <1>22, <1>23
    DEF Next, TaskStep

\* Type correctness: every row, pending read and record keeps its shape.
THEOREM TypeCorrect == Spec => []TypeOK
  BY TypeInit, TypeStep, PTL DEF Spec

-----------------------------------------------------------------------------
(* What one step does to one row: the seven ways, whatever the action *)

SameClaims(t) ==
    /\ task'[t].class = task[t].class /\ task'[t].attempt = task[t].attempt
    /\ Len(exec'[t]) = Len(exec[t])
    /\ \A n \in Claims(t) : exec'[t][n].agent = exec[t][n].agent
    /\ SingleCore => exec'[t] = exec[t]

Silent(t) == applied'[t] = applied[t] /\ notices'[t] = notices[t]

Kept(t) ==
    /\ task'[t].status = task[t].status /\ task'[t].claim = task[t].claim
    /\ task'[t].agent = task[t].agent
    /\ SameClaims(t) /\ Silent(t)

Made(t) ==
    /\ task[t].status = None
    /\ task'[t].status \in {"pending_approval", "queued"}
    /\ SingleCore /\ task'[t].class # "agent" => install = "active"
    /\ task'[t].claim = task[t].claim /\ task'[t].attempt = task[t].attempt
    /\ exec'[t] = exec[t] /\ Silent(t)

Approved(t) ==
    /\ task[t].status = "pending_approval" /\ task'[t].status = "queued"
    /\ task'[t].claim = task[t].claim
    /\ SameClaims(t) /\ Silent(t)

Minted(t) ==
    /\ task[t].status = "queued"
    /\ \E a \in Runners, g \in {"drawn", "handed"} :
          /\ task'[t] = ClaimedRow(t, a)
          /\ exec'[t] = Append(exec[t], [agent |-> a, stage |-> g])
    /\ Silent(t)

Refused(t) ==
    /\ task[t].status = "queued" /\ Plugin(t)
    /\ task'[t].status = "failed" /\ task'[t].class = task[t].class
    /\ task'[t].attempt = task[t].attempt + 1
    /\ exec'[t] = Append(exec[t], [agent |-> Device, stage |-> "refused"])
    /\ applied'[t] = applied[t]
    /\ notices'[t] = Append(notices[t], "failed")

Returned(t) ==
    /\ Running(t) /\ (Plugin(t) => MayRetry(t))
    /\ task'[t].status = "queued" /\ task'[t].claim = 0
    /\ SameClaims(t) /\ Silent(t)

Ends(t) ==
    /\ Open(t) /\ task'[t].status \in Ended
    /\ SameClaims(t)
    /\ notices'[t] = Append(notices[t], task'[t].status)
    /\ task'[t].status = "outcome_unknown" => Running(t)
    /\ SingleCore /\ Running(t) /\ task[t].class = "effect"
          => task'[t].status \in {"completed", "outcome_unknown"}
    /\ \/ applied'[t] = applied[t]
       \/ /\ Handed(t, applied'[t])
          /\ Plugin(t) => Running(t) /\ task[t].claim = applied'[t]

StepKind(t) ==
    \/ Kept(t) \/ Made(t) \/ Approved(t) \/ Minted(t)
    \/ Refused(t) \/ Returned(t) \/ Ends(t)

\* Under a single connection no read is ever left pending, and no task listed
\* for a cancel of its own.
NothingPending ==
    SingleCore => cancelSeen = NoReads /\ expireSeen = NoCandidates /\ listed = {}

LEMMA UntouchedRow ==
    ASSUME NEW t \in Tasks, task'[t] = task[t], exec'[t] = exec[t],
           applied'[t] = applied[t], notices'[t] = notices[t]
    PROVE  Kept(t)
  BY DEF Kept, SameClaims, Silent

LEMMA RowSteps ==
    ASSUME TypeOK, NothingPending, [Next]_vars
    PROVE  \A u \in Tasks : StepKind(u)
  <1> SUFFICES ASSUME NEW u \in Tasks PROVE StepKind(u)
    OBVIOUS
  <1> USE DEF reads, history
  <1>0. /\ task \in [Tasks -> Row] /\ task[u] \in Row
        /\ exec \in [Tasks -> Seq(Execution)] /\ applied \in [Tasks -> Nat]
        /\ notices \in [Tasks -> Seq(Ended)]
    BY DEF TypeOK
  <1>1. CASE UNCHANGED vars
    BY <1>1, UntouchedRow DEF vars, StepKind
  <1>2. ASSUME NEW t \in Tasks, NEW c \in Classes,
               NEW s \in {"pending_approval", "queued"}, Create(t, c, s)
        PROVE  StepKind(u)
    <2>1. CASE u = t
      BY <1>0, <1>2, <2>1 DEF Create, StepKind, Made, Silent, Row
    <2>2. CASE u # t
      BY <1>0, <1>2, <2>2, UntouchedRow DEF Create, StepKind
    <2>3. QED BY <2>1, <2>2
  <1>3. ASSUME NEW t \in Tasks, Approve(t) PROVE StepKind(u)
    <2>1. CASE u = t
      BY <1>0, <1>3, <2>1 DEF Approve, StepKind, Approved, SameClaims, Silent, Row
    <2>2. CASE u # t
      BY <1>0, <1>3, <2>2, UntouchedRow DEF Approve, StepKind
    <2>3. QED BY <2>1, <2>2
  <1>4. ASSUME NEW t \in Tasks,
               \/ LapseLease(t) \/ PassDeadline(t) \/ EndBackoff(t) \/ CloseWindow(t)
               \/ \E n \in Claims(t), token \in Tokens : Heartbeat(t, n, token)
        PROVE  StepKind(u)
    <2>1. UNCHANGED <<exec, applied, notices>>
      BY <1>4 DEF LapseLease, PassDeadline, EndBackoff, CloseWindow, Heartbeat
    <2>2. \/ task' = [task EXCEPT ![t].lease = "lapsed"]
          \/ task' = [task EXCEPT ![t].overdue = TRUE]
          \/ task' = [task EXCEPT ![t].backoff = FALSE]
          \/ task' = [task EXCEPT ![t].closed = TRUE]
          \/ task' = [task EXCEPT ![t].lease = "live"]
      BY <1>4 DEF LapseLease, PassDeadline, EndBackoff, CloseWindow, Heartbeat
    <2>3. /\ task'[u].status = task[u].status /\ task'[u].claim = task[u].claim
          /\ task'[u].agent = task[u].agent /\ task'[u].class = task[u].class
          /\ task'[u].attempt = task[u].attempt
      <3>1. CASE u # t
        BY <1>0, <2>2, <3>1
      <3>2. CASE u = t
        BY <1>0, <2>2, <3>2 DEF Row
      <3>3. QED BY <3>1, <3>2
    <2>4. QED BY <2>1, <2>3 DEF StepKind, Kept, SameClaims, Silent
  <1>5. ASSUME NEW t \in Tasks, NEW n \in Claims(t), NEW v \in Verbs,
               NEW token \in Tokens, Report(t, n, v, token)
        PROVE  StepKind(u)
    <2> DEFINE end == ReportedEnd(t, v)
    <2>1. CASE UNCHANGED <<task, notices, applied>>
      BY <1>5, <2>1, UntouchedRow DEF Report, StepKind
    <2>2. CASE /\ ReportLands(t, n, token)
               /\ task' = [task EXCEPT ![t].status = end, ![t].agent = exec[t][n].agent]
               /\ notices' = [notices EXCEPT ![t] = Append(@, end)]
               /\ applied' = [applied EXCEPT ![t] = n]
      <3>1. exec' = exec
        BY <1>5 DEF Report
      <3>2. CASE u # t
        BY <1>0, <2>2, <3>1, <3>2, UntouchedRow DEF StepKind
      <3>3. CASE u = t
        <4>1. /\ task'[u].status = end /\ task'[u].class = task[u].class
              /\ task'[u].attempt = task[u].attempt
              /\ notices'[u] = Append(notices[u], end) /\ applied'[u] = n
          BY <1>0, <2>2, <3>3 DEF Row
        <4>2. Handed(u, n) /\ (Plugin(u) => Running(u) /\ task[u].claim = n)
          BY <1>5, <2>2, <3>3 DEF Report, ReportLands
        <4>3. Open(u) /\ (Effectful(u) => Running(u))
          BY <1>5, <2>2, <3>3, <4>2 DEF Report, ReportLands, Open, Running, Ended, None,
             Effectful, Plugin
        <4>4. /\ end \in Ended /\ (end = "outcome_unknown" => Effectful(u))
              /\ task[u].class = "effect" => end \in {"completed", "outcome_unknown"}
          BY <3>3 DEF ReportedEnd, Ended, Effectful
        <4>5. QED
          BY <3>1, <4>1, <4>2, <4>3, <4>4 DEF StepKind, Ends, SameClaims
      <3>4. QED BY <3>2, <3>3
    <2>3. QED BY <1>5, <2>1, <2>2 DEF Report
  <1>6. ASSUME NEW t \in Tasks, NEW v \in Verbs, OwnerReport(t, v)
        PROVE  StepKind(u)
    <2> DEFINE end == ReportedEnd(t, v)
    <2>1. UNCHANGED <<exec, applied>>
      BY <1>6 DEF OwnerReport
    <2>2. CASE UNCHANGED <<task, notices>>
      BY <2>1, <2>2, UntouchedRow DEF StepKind
    <2>3. CASE /\ IF end = "outcome_unknown" THEN Running(t) ELSE ~Plugin(t)
               /\ task' = [task EXCEPT ![t].status = end,
                      ![t].agent = IF end = "outcome_unknown" THEN @ ELSE None]
               /\ notices' = [notices EXCEPT ![t] = Append(@, end)]
      <3>1. CASE u # t
        BY <1>0, <2>1, <2>3, <3>1, UntouchedRow DEF StepKind
      <3>2. CASE u = t
        <4>1. /\ task'[u].status = end /\ task'[u].class = task[u].class
              /\ task'[u].attempt = task[u].attempt
              /\ notices'[u] = Append(notices[u], end)
          BY <1>0, <2>3, <3>2 DEF Row
        <4>2. Open(u)
          BY <1>6, <3>2 DEF OwnerReport
        <4>3. /\ end \in Ended
              /\ task[u].class = "effect" => end \in {"completed", "outcome_unknown"}
          BY <3>2 DEF ReportedEnd, Ended, Effectful
        <4>4. end = "outcome_unknown" => Running(u)
          BY <2>3, <3>2
        <4>5. QED BY <2>1, <4>1, <4>2, <4>3, <4>4 DEF StepKind, Ends, SameClaims
      <3>3. QED BY <3>1, <3>2
    <2>4. QED BY <1>6, <2>2, <2>3 DEF OwnerReport
  <1>7. ASSUME NEW t \in Tasks, NEW who \in Cancellers,
               CancelRead(t, who) \/ CancelMiss(t, who)
        PROVE  StepKind(u)
    BY <1>7, UntouchedRow DEF CancelRead, CancelMiss, StepKind
  <1>8. ASSUME NEW t \in Tasks, NEW who \in Cancellers, CancelWrite(t, who) \/ Cancel(t)
        PROVE  StepKind(u)
    <2>1. UNCHANGED <<exec, applied>>
      BY <1>8 DEF CancelWrite, Cancel
    <2>2. CASE UNCHANGED <<task, notices>>
      BY <2>1, <2>2, UntouchedRow DEF StepKind
    <2>3. ASSUME NEW seen \in Status, Open(t), End(t, CancelledTo(t, seen)),
                 SingleCore => seen = task[t].status,
                 seen = "running" /\ Effectful(t) => Running(t)
          PROVE  StepKind(u)
      <3> DEFINE end == CancelledTo(t, seen)
      <3>1. CASE u # t
        BY <1>0, <2>1, <2>3, <3>1, UntouchedRow DEF End, StepKind
      <3>2. CASE u = t
        <4>1. /\ task'[u].status = end /\ task'[u].class = task[u].class
              /\ task'[u].attempt = task[u].attempt
              /\ notices'[u] = Append(notices[u], end)
          BY <1>0, <2>3, <3>2 DEF End, Row
        <4>2. end \in Ended /\ (end = "outcome_unknown" => Running(u))
          BY <2>3, <3>2 DEF CancelledTo, Ended
        <4>3. SingleCore /\ Running(u) /\ task[u].class = "effect" => end = "outcome_unknown"
          BY <2>3, <3>2 DEF CancelledTo, Running, Effectful
        <4>4. QED
          BY <2>1, <2>3, <3>2, <4>1, <4>2, <4>3 DEF StepKind, Ends, SameClaims
      <3>3. QED BY <3>1, <3>2
    <2>4. CASE Cancel(t)
      <3>1. task[t].status \in Status /\ Open(t) /\ End(t, CancelledTo(t, task[t].status))
        BY <2>4 DEF Cancel, TypeOK, Row
      <3>2. QED BY <2>3, <3>1 DEF Running
    <2>5. CASE CancelWrite(t, who)
      <3>1. ~SingleCore /\ cancelSeen[who][t] \in Status
        BY <2>5 DEF CancelWrite, NothingPending, NoReads, TypeOK
      <3>2. CASE Open(t)
        BY <2>3, <2>5, <3>1, <3>2 DEF CancelWrite, Missed
      <3>3. CASE ~Open(t)
        BY <2>2, <2>5, <3>3 DEF CancelWrite
      <3>4. QED BY <3>2, <3>3
    <2>6. QED BY <1>8, <2>4, <2>5
  <1>10. ASSUME NEW a \in Agents, ClaimGeneric(a) PROVE StepKind(u)
    <2>1. PICK t \in Tasks :
             /\ Eligible(t)
             /\ task' = [task EXCEPT ![t] = ClaimedRow(t, a)]
             /\ exec' = [exec EXCEPT ![t] = Append(@, [agent |-> a, stage |-> "handed"])]
             /\ UNCHANGED <<applied, notices>>
      BY <1>10 DEF ClaimGeneric
    <2>2. CASE u # t
      BY <1>0, <2>1, <2>2, UntouchedRow DEF StepKind
    <2>3. CASE u = t
      <3>1. task'[u] = ClaimedRow(u, a)
        BY <1>0, <2>1, <2>3
      <3>2. exec'[u] = Append(exec[u], [agent |-> a, stage |-> "handed"])
        BY <1>0, <2>1, <2>3
      <3>3. task[u].status = "queued" /\ a \in Runners /\ Silent(u)
        BY <2>1, <2>3 DEF Eligible, Runners, Silent
      <3>4. QED BY <3>1, <3>2, <3>3 DEF StepKind, Minted
    <2>4. QED BY <2>2, <2>3
  <1>11. CASE ClaimPlugin
    <2>1. ASSUME u \in Drawn PROVE task[u].status = "queued" /\ Plugin(u)
      BY <2>1 DEF Drawn, Lane, Eligible
    <2>2. applied' = applied
      BY <1>11 DEF ClaimPlugin
    <2>3. CASE task'[u] = task[u] /\ exec'[u] = exec[u] /\ notices'[u] = notices[u]
      BY <2>2, <2>3, UntouchedRow DEF StepKind
    <2>4. CASE /\ u \in Drawn
               /\ task'[u] = ClaimedRow(u, Device) /\ notices'[u] = notices[u]
               /\ \E g \in {"drawn", "handed"} :
                    exec'[u] = Append(exec[u], [agent |-> Device, stage |-> g])
      BY <2>1, <2>2, <2>4 DEF StepKind, Minted, Silent, Runners
    <2>5. CASE /\ u \in Drawn
               /\ task'[u] = [ClaimedRow(u, Device) EXCEPT !.status = "failed"]
               /\ exec'[u] = Append(exec[u], [agent |-> Device, stage |-> "refused"])
               /\ notices'[u] = Append(notices[u], "failed")
      <3>1. /\ task'[u].status = "failed" /\ task'[u].class = task[u].class
            /\ task'[u].attempt = task[u].attempt + 1
        BY <1>0, <2>5 DEF ClaimedRow, Row
      <3>2. QED BY <2>1, <2>2, <2>5, <3>1 DEF StepKind, Refused
    <2>6. QED BY <1>11, <2>3, <2>4, <2>5, LaneClaim
  <1>19. CASE DrawPlugin
    <2>1. PICK t \in Lane :
             /\ task' = [task EXCEPT ![t] = ClaimedRow(t, Device)]
             /\ exec' = [exec EXCEPT ![t] = Append(@, [agent |-> Device, stage |-> "drawn"])]
      BY <1>19 DEF DrawPlugin
    <2>2. CASE u # t
      BY <1>0, <1>19, <2>1, <2>2, UntouchedRow DEF DrawPlugin, StepKind
    <2>3. CASE u = t
      <3>1. /\ task'[u] = ClaimedRow(u, Device)
            /\ exec'[u] = Append(exec[u], [agent |-> Device, stage |-> "drawn"])
        BY <1>0, <2>1, <2>3
      <3>2. task[u].status = "queued" /\ Silent(u)
        BY <1>19, <2>1, <2>3 DEF DrawPlugin, Lane, Eligible, Silent
      <3>3. QED BY <3>1, <3>2 DEF StepKind, Minted, Runners
    <2>4. QED BY <2>2, <2>3
  <1>20. ASSUME NEW t \in Tasks, NEW n \in Claims(t), HandOver(t, n) PROVE StepKind(u)
    <2>1. CASE u # t
      BY <1>20, <2>1, SettleFacts, UntouchedRow DEF HandOver, StepKind
    <2>2. CASE u = t
      BY <1>20, <2>2, SettleFacts DEF HandOver, StepKind, Kept, SameClaims, Silent
    <2>3. QED BY <2>1, <2>2
  <1>21. ASSUME NEW t \in Tasks, NEW n \in Claims(t), FailStale(t, n) PROVE StepKind(u)
    <2>1. /\ ~SingleCore /\ applied' = applied
          /\ Len(exec'[t]) = Len(exec[t])
          /\ \A k \in Claims(t) : exec'[t][k].agent = exec[t][k].agent
          /\ u # t => exec'[u] = exec[u]
      BY <1>21, SettleFacts DEF FailStale
    <2>2. CASE UNCHANGED <<task, notices>>
      <3>1. CASE u # t
        BY <2>1, <2>2, <3>1, UntouchedRow DEF StepKind
      <3>2. CASE u = t
        BY <2>1, <2>2, <3>2 DEF StepKind, Kept, SameClaims, Silent
      <3>3. QED BY <3>1, <3>2
    <2>3. CASE /\ Running(t) /\ task' = [task EXCEPT ![t].status = "failed"]
               /\ notices' = [notices EXCEPT ![t] = Append(@, "failed")]
      <3>1. CASE u # t
        BY <1>0, <2>1, <2>3, <3>1, UntouchedRow DEF StepKind
      <3>2. CASE u = t
        <4>1. /\ task'[u].status = "failed" /\ task'[u].class = task[u].class
              /\ task'[u].attempt = task[u].attempt
              /\ notices'[u] = Append(notices[u], "failed")
          BY <1>0, <2>3, <3>2 DEF Row
        <4>2. Open(u) /\ "failed" \in Ended
          BY <2>3, <3>2 DEF Open, Running, Ended, None
        <4>3. QED BY <2>1, <3>2, <4>1, <4>2 DEF StepKind, Ends, SameClaims
      <3>3. QED BY <3>1, <3>2
    <2>4. QED BY <1>21, <2>2, <2>3 DEF FailStale
  <1>12. CASE Revoke
    <2> DEFINE end == CancelledTo(u, task[u].status)
    <2>1. UNCHANGED <<exec, applied>>
      BY <1>12 DEF Revoke
    <2>2. \/ task'[u] = task[u] /\ notices'[u] = notices[u]
          \/ /\ Open(u)
             /\ task'[u] = [task[u] EXCEPT !.status = end]
             /\ notices'[u] = Append(notices[u], end)
      BY <1>12 DEF Revoke, InFlight
    <2>3. CASE task'[u] = task[u] /\ notices'[u] = notices[u]
      BY <2>1, <2>3, UntouchedRow DEF StepKind
    <2>4. CASE /\ Open(u)
               /\ task'[u] = [task[u] EXCEPT !.status = end]
               /\ notices'[u] = Append(notices[u], end)
      <3>1. /\ task'[u].status = end /\ task'[u].class = task[u].class
            /\ task'[u].attempt = task[u].attempt
        BY <1>0, <2>4 DEF Row
      <3>2. /\ end \in Ended /\ (end = "outcome_unknown" => Running(u))
            /\ Running(u) /\ task[u].class = "effect" => end = "outcome_unknown"
        BY DEF CancelledTo, Ended, Running, Effectful
      <3>3. QED BY <2>1, <2>4, <3>1, <3>2 DEF StepKind, Ends, SameClaims
    <2>5. QED BY <2>2, <2>3, <2>4
  <1>13. CASE Pause \/ Resume \/ ExpireRead \/ Crash \/ CloseLane \/ ListInFlight
    BY <1>13, UntouchedRow DEF Pause, Resume, ExpireRead, Crash, CloseLane, ListInFlight,
       StepKind
  <1>14. CASE LoseAuthority
    <2>1. /\ task'[u] \in {task[u], [task[u] EXCEPT !.stale = TRUE]}
          /\ UNCHANGED history
      <3>1. PICK riding \in SUBSET Tasks :
              task' = [t \in Tasks |-> IF t \in riding
                         THEN [task[t] EXCEPT !.stale = TRUE] ELSE task[t]]
        BY <1>14 DEF LoseAuthority
      <3>2. QED BY <1>14, <3>1 DEF LoseAuthority
    <2>2. QED BY <1>0, <2>1 DEF StepKind, Kept, SameClaims, Silent, Row, history
  <1>15. CASE SweepLeases
    <2>1. CASE ~LeaseLapsed(u)
      BY <1>15, <2>1, UntouchedRow DEF SweepLeases, StepKind
    <2>2. CASE LeaseLapsed(u)
      <3>1. /\ task'[u] = SweptRow(u) /\ UNCHANGED <<exec, applied>>
            /\ LeaseLossVerdict(u) = "queued" => notices'[u] = notices[u]
            /\ LeaseLossVerdict(u) # "queued"
                 => notices'[u] = Append(notices[u], LeaseLossVerdict(u))
        BY <1>15, <2>2 DEF SweepLeases
      <3>2. Running(u) /\ Open(u)
        BY <2>2 DEF LeaseLapsed, Running, Open, Ended, None
      <3>3. CASE LeaseLossVerdict(u) = "queued"
        <4>1. /\ task'[u].status = "queued" /\ task'[u].claim = 0
              /\ task'[u].class = task[u].class /\ task'[u].attempt = task[u].attempt
          BY <1>0, <3>1, <3>3 DEF SweptRow, Row
        <4>2. Plugin(u) => MayRetry(u)
          BY <3>3 DEF LeaseLossVerdict
        <4>3. QED BY <3>1, <3>2, <3>3, <4>1, <4>2 DEF StepKind, Returned, SameClaims, Silent
      <3>4. CASE LeaseLossVerdict(u) # "queued"
        <4>1. /\ task'[u].status = LeaseLossVerdict(u)
              /\ task'[u].class = task[u].class /\ task'[u].attempt = task[u].attempt
          BY <1>0, <3>1, <3>4 DEF SweptRow, Row
        <4>2. /\ LeaseLossVerdict(u) \in Ended
              /\ task[u].class = "effect" => LeaseLossVerdict(u) = "outcome_unknown"
          BY <3>4 DEF LeaseLossVerdict, Ended, Effectful
        <4>3. QED BY <3>1, <3>2, <3>4, <4>1, <4>2 DEF StepKind, Ends, SameClaims
      <3>5. QED BY <3>3, <3>4
    <2>3. QED BY <2>1, <2>2
  <1>16. ASSUME NEW seen \in [Tasks -> Status], ExpireRows(seen), UNCHANGED <<exec, applied>>,
                SingleCore => seen[u] \in {None, task[u].status}
         PROVE  StepKind(u)
    <2>1. CASE ~(seen[u] # None /\ StillExpirable(u, seen[u]))
      BY <1>16, <2>1, UntouchedRow DEF ExpireRows, StepKind
    <2>2. CASE seen[u] # None /\ StillExpirable(u, seen[u])
      <3> DEFINE end == ExpiredTo(u, seen[u])
      <3>1. /\ task'[u] = [task[u] EXCEPT !.status = end]
            /\ notices'[u] = Append(notices[u], end)
        BY <1>16, <2>2 DEF ExpireRows
      <3>2. /\ task'[u].status = end /\ task'[u].class = task[u].class
            /\ task'[u].attempt = task[u].attempt
        BY <1>0, <3>1 DEF Row
      <3>3. /\ end \in Ended /\ Open(u) /\ (end = "outcome_unknown" => Running(u))
        BY <2>2 DEF StillExpirable, ExpiredTo, Ended, Open, Running, None
      <3>4. SingleCore /\ Running(u) /\ task[u].class = "effect" => end = "outcome_unknown"
        BY <1>16, <2>2 DEF ExpiredTo, Running, Effectful
      <3>5. QED BY <1>16, <3>1, <3>2, <3>3, <3>4 DEF StepKind, Ends, SameClaims
    <2>3. QED BY <2>1, <2>2
  <1>17. CASE ExpireWrite \/ SweepExpired
    <2>1. CASE ExpireWrite
      BY <1>16, <2>1 DEF ExpireWrite, NothingPending, TypeOK
    <2>2. CASE SweepExpired
      <3>1. /\ Candidates \in [Tasks -> Status]
            /\ Candidates[u] \in {None, task[u].status}
        BY DEF Candidates, TypeOK, Row, None, Status
      <3>2. QED BY <1>16, <2>2, <3>1 DEF SweepExpired
    <2>3. QED BY <1>17, <2>1, <2>2
  <1>18. ASSUME NEW t \in Tasks, TaskStep(t) PROVE StepKind(u)
    <2>1. "owner" \in Cancellers
      BY DEF Cancellers
    <2>2. QED
      BY <1>2, <1>3, <1>4, <1>5, <1>6, <1>7, <1>8, <1>18, <1>20, <1>21, <2>1 DEF TaskStep
  <1>22. QED
    BY <1>1, <1>10, <1>11, <1>12, <1>13, <1>14, <1>15, <1>17, <1>18, <1>19 DEF Next

-----------------------------------------------------------------------------
(* The inductive invariant *)

\* A running row names the newest claim minted for it, on one Core never one
\* that was refused, and an open row that is not running names none.
NewestClaim(t) ==
    /\ Running(t) => /\ task[t].claim = Len(exec[t]) /\ task[t].claim \in Claims(t)
                     /\ task[t].agent = exec[t][task[t].claim].agent
                     /\ SingleCore => exec[t][task[t].claim].stage # "refused"
    /\ task[t].status \in {None, "pending_approval", "queued"} => task[t].claim = 0

\* The attempt counter counts the claims, and plugin work waits for a claim
\* only while it is unclaimed or the contract still allows a retry.
Budget(t) ==
    /\ task[t].attempt = Len(exec[t])
    /\ task[t].status \in {None, "pending_approval"} => task[t].attempt = 0
    /\ Plugin(t) => task[t].attempt <= IF Idempotent(t) THEN MaxAttempts ELSE 1
    /\ Plugin(t) /\ task[t].status = "queued" =>
          task[t].attempt = 0 \/ (Idempotent(t) /\ task[t].attempt < MaxAttempts)

\* What an ending says: who caused it, that it was announced, that something
\* was started if it is unknown, and that nothing was if it is denied.
Ending(t) ==
    /\ applied[t] # 0 => Terminal(t) /\ (Plugin(t) => applied[t] = Len(exec[t]))
    /\ notices[t] = IF Terminal(t) THEN <<task[t].status>> ELSE <<>>
    /\ task[t].status = "outcome_unknown" =>
          \E n \in Claims(t) : SingleCore => exec[t][n].stage # "refused"
    /\ SingleCore /\ task[t].class = "effect" /\ HandedClaims(t) # {} /\ Terminal(t)
          => task[t].status \in {"completed", "outcome_unknown"}

RowInv(t) == NewestClaim(t) /\ Budget(t) /\ Ending(t)

IInv == TypeOK /\ NothingPending /\ \A t \in Tasks : RowInv(t)

\* What minting a claim does to the record of claims.
LEMMA MintedClaims ==
    ASSUME TypeOK, NEW t \in Tasks, NEW a \in Runners,
           NEW h \in {"drawn", "handed", "refused"},
           exec'[t] = Append(exec[t], [agent |-> a, stage |-> h])
    PROVE  /\ Len(exec[t]) \in Nat /\ Len(exec'[t]) = Len(exec[t]) + 1
           /\ exec'[t][Len(exec[t]) + 1].agent = a
           /\ exec'[t][Len(exec[t]) + 1].stage = h
           /\ \A n \in 1..Len(exec[t]) : exec'[t][n] = exec[t][n]
  <1>1. exec[t] \in Seq(Execution) /\ [agent |-> a, stage |-> h] \in Execution
    BY DEF TypeOK, Execution
  <1>2. QED BY <1>1

LEMMA NewestClaimStep ==
    ASSUME TypeOK, NEW t \in Tasks, NewestClaim(t), StepKind(t)
    PROVE  NewestClaim(t)'
  <1>1. CASE Kept(t)
    BY <1>1 DEF Kept, SameClaims, NewestClaim, Running, Claims
  <1>4. CASE Made(t) \/ Approved(t) \/ Returned(t)
    BY <1>4 DEF Made, Approved, Returned, NewestClaim, Running, None
  <1>2. CASE Refused(t) \/ Ends(t)
    BY <1>2 DEF Refused, Ends, NewestClaim, Running, Ended, None
  <1>3. CASE Minted(t)
    <2>1. PICK a \in Runners, g \in {"drawn", "handed"} :
             task'[t] = ClaimedRow(t, a) /\ exec'[t] = Append(exec[t], [agent |-> a, stage |-> g])
      BY <1>3 DEF Minted
    <2>2. task[t] \in Row
      BY DEF TypeOK
    <2>3. /\ task'[t].status = "running" /\ task'[t].agent = a
          /\ task'[t].claim = Len(exec[t]) + 1
      BY <2>1, <2>2 DEF ClaimedRow, Row
    <2>4. QED BY <2>1, <2>3, MintedClaims DEF NewestClaim, Running, Claims, None
  <1>5. QED BY <1>1, <1>2, <1>3, <1>4 DEF StepKind

LEMMA BudgetStep ==
    ASSUME TypeOK, NEW t \in Tasks, Budget(t), StepKind(t)
    PROVE  Budget(t)'
  <1>0. task[t] \in Row /\ task[t].attempt \in Nat /\ MaxAttempts \in Nat \ {0}
    BY ConstantsAssumption DEF TypeOK, Row
  <1>1. CASE Kept(t) \/ Approved(t)
    BY <1>0, <1>1 DEF Kept, Approved, SameClaims, Budget, Plugin, Idempotent, None
  <1>2. CASE Made(t)
    BY <1>0, <1>2 DEF Made, Budget, Plugin, Idempotent, None
  <1>3. CASE Returned(t)
    BY <1>0, <1>3 DEF Returned, SameClaims, Budget, Plugin, Idempotent, MayRetry, None
  <1>4. CASE Ends(t)
    BY <1>0, <1>4 DEF Ends, SameClaims, Budget, Plugin, Idempotent, Ended, None
  <1>5. CASE Minted(t)
    <2>1. PICK a \in Runners, g \in {"drawn", "handed"} :
             task'[t] = ClaimedRow(t, a) /\ exec'[t] = Append(exec[t], [agent |-> a, stage |-> g])
      BY <1>5 DEF Minted
    <2>2. /\ task'[t].status = "running" /\ task'[t].class = task[t].class
          /\ task'[t].attempt = task[t].attempt + 1
      BY <1>0, <2>1 DEF ClaimedRow, Row
    <2>3. task[t].status = "queued"
      BY <1>5 DEF Minted
    <2>4. QED BY <1>0, <2>1, <2>2, <2>3, MintedClaims DEF Budget, Plugin, Idempotent, None
  <1>6. CASE Refused(t)
    <2>1. Len(exec'[t]) = Len(exec[t]) + 1
      BY <1>6, MintedClaims DEF Refused, Runners
    <2>2. QED BY <1>0, <1>6, <2>1 DEF Refused, Budget, Plugin, Idempotent, None
  <1>7. QED BY <1>1, <1>2, <1>3, <1>4, <1>5, <1>6 DEF StepKind

LEMMA EndingStep ==
    ASSUME TypeOK, NEW t \in Tasks, RowInv(t), StepKind(t)
    PROVE  Ending(t)'
  <1>0. /\ task[t] \in Row /\ exec[t] \in Seq(Execution) /\ applied[t] \in Nat
        /\ task[t].status \in Status
    BY DEF TypeOK, Row
  <1>1. CASE Kept(t)
    <2>1. HandedClaims(t)' = HandedClaims(t) \/ ~SingleCore
      BY <1>1 DEF Kept, SameClaims, HandedClaims, Handed
    <2>2. \A n \in Claims(t) : SingleCore => exec'[t][n] = exec[t][n]
      BY <1>1 DEF Kept, SameClaims
    <2>3. QED
      BY <1>1, <2>1, <2>2 DEF Kept, SameClaims, Silent, RowInv, Ending, Terminal, Plugin, Claims
  <1>2. CASE Made(t) \/ Approved(t) \/ Returned(t)
    BY <1>2 DEF Made, Approved, Returned, SameClaims, Silent, RowInv, Ending,
       Terminal, Running, Ended, None
  <1>3. CASE Minted(t)
    <2>1. task'[t].status = "running"
      BY <1>0, <1>3 DEF Minted, ClaimedRow, Row
    <2>2. QED BY <1>3, <2>1 DEF Minted, Silent, RowInv, Ending, Terminal, Ended
  <1>4. CASE Refused(t)
    <2>1. applied'[t] = 0 /\ notices'[t] = <<"failed">>
      <3>1. applied[t] = 0 /\ notices[t] = <<>>
        BY <1>4 DEF Refused, RowInv, Ending, Terminal, Ended
      <3>2. Append(<<>>, "failed") = <<"failed">>
        OBVIOUS
      <3>3. QED BY <1>4, <3>1, <3>2 DEF Refused
    <2>2. ASSUME task[t].class = "effect" PROVE HandedClaims(t)' = {}
      <3>1. Plugin(t) /\ ~Idempotent(t)
        BY <2>2 DEF Plugin, Idempotent
      <3>2. Len(exec[t]) = 0
        BY <1>4, <3>1 DEF Refused, RowInv, Budget
      <3>3. /\ Len(exec'[t]) = 1 /\ exec'[t][1].stage = "refused"
        BY <1>4, <3>2, MintedClaims DEF Refused, Runners
      <3>4. QED BY <3>3 DEF HandedClaims, Handed
    <2>3. task'[t].status = "failed" /\ task'[t].class = task[t].class
      BY <1>4 DEF Refused
    <2>4. QED BY <2>1, <2>2, <2>3 DEF Ending, Terminal, Ended
  <1>5. CASE Ends(t)
    <2>1. Terminal(t)' /\ ~Terminal(t) /\ applied[t] = 0 /\ notices[t] = <<>>
      BY <1>5 DEF Ends, Open, RowInv, Ending, Terminal
    <2>2. notices'[t] = <<task'[t].status>>
      <3>1. Append(<<>>, task'[t].status) = <<task'[t].status>>
        OBVIOUS
      <3>2. QED BY <1>5, <2>1, <3>1 DEF Ends
    <2>3. Plugin(t)' /\ applied'[t] # 0 => applied'[t] = Len(exec'[t])
      BY <1>5, <2>1 DEF Ends, SameClaims, Plugin, RowInv, NewestClaim
    <2>4. Running(t) => \E n \in Claims(t)' : SingleCore => exec'[t][n].stage # "refused"
      BY <1>5 DEF Ends, SameClaims, RowInv, NewestClaim, Claims
    <2>5. ASSUME SingleCore, task'[t].class = "effect", HandedClaims(t)' # {}
          PROVE  task'[t].status \in {"completed", "outcome_unknown"}
      <3>1. task[t].class = "effect" /\ Plugin(t) /\ ~Idempotent(t) /\ exec'[t] = exec[t]
        BY <1>5, <2>5 DEF Ends, SameClaims, Plugin, Idempotent
      <3>2. Len(exec[t]) # 0
        BY <1>0, <2>5, <3>1 DEF HandedClaims, Handed
      <3>3. Running(t)
        BY <1>0, <1>5, <3>1, <3>2 DEF Ends, Open, RowInv, Budget, Running, Status
      <3>4. QED BY <1>5, <2>5, <3>1, <3>3 DEF Ends
    <2>6. QED BY <1>5, <2>1, <2>2, <2>3, <2>4, <2>5 DEF Ends, Ending
  <1>6. QED BY <1>1, <1>2, <1>3, <1>4, <1>5 DEF StepKind

\* Under a single connection no step leaves a read pending.
LEMMA NothingPendingStep ==
    ASSUME NothingPending, [Next]_vars
    PROVE  NothingPending'
  <1> SUFFICES ASSUME SingleCore PROVE UNCHANGED <<cancelSeen, expireSeen, listed>>
    BY DEF NothingPending, NoCandidates, NoReads
  <1> USE DEF reads, history
  <1>1. /\ ~ListInFlight
        /\ \A t \in Tasks, who \in Cancellers :
             ~CancelRead(t, who) /\ ~CancelMiss(t, who) /\ ~CancelWrite(t, who)
        /\ ~ExpireRead /\ ~ExpireWrite /\ ~Crash
        /\ \A t \in Tasks : \A n \in Claims(t) : ~HandOver(t, n) /\ ~FailStale(t, n)
    BY DEF NothingPending, NoReads, None, CancelRead, CancelMiss, CancelWrite, Missed,
       ExpireRead, ExpireWrite, Crash, HandOver, FailStale, ListInFlight
  <1>2. ASSUME NEW t \in Tasks, TaskStep(t) PROVE UNCHANGED <<cancelSeen, expireSeen, listed>>
    BY <1>1, <1>2 DEF TaskStep, Create, Approve, Heartbeat, Report, OwnerReport, Cancel,
       LapseLease, PassDeadline, EndBackoff, CloseWindow
  <1>3. ASSUME NEW a \in Agents, ClaimGeneric(a) PROVE UNCHANGED <<cancelSeen, expireSeen, listed>>
    BY <1>3 DEF ClaimGeneric
  <1>4. CASE ClaimPlugin \/ DrawPlugin \/ Revoke \/ CloseLane \/ Pause
             \/ Resume \/ LoseAuthority \/ SweepLeases \/ SweepExpired
    BY <1>4 DEF ClaimPlugin, DrawPlugin, Revoke, CloseLane, Pause, Resume,
       LoseAuthority, SweepLeases, SweepExpired
  <1>5. CASE UNCHANGED vars
    BY <1>5 DEF vars
  <1>6. QED BY <1>1, <1>2, <1>3, <1>4, <1>5 DEF Next

\* The inductive invariant holds in every reachable state.
THEOREM Invariance == Spec => []IInv
  <1>1. Init => IInv
    <2>1. ASSUME Init PROVE NothingPending /\ \A t \in Tasks : RowInv(t)
      BY <2>1, ConstantsAssumption DEF Init, NothingPending, NoCandidates, NoReads, RowInv,
         NewestClaim, Handed,
         Budget, Ending, NoRow, Running, Terminal, Plugin, Idempotent, HandedClaims,
         Ended, None
    <2>2. QED BY <2>1, TypeInit DEF IInv
  <1>2. IInv /\ [Next]_vars => IInv'
    <2> SUFFICES ASSUME IInv, [Next]_vars PROVE IInv'
      OBVIOUS
    <2>1. TypeOK'
      BY TypeStep DEF IInv
    <2>2. NothingPending'
      BY NothingPendingStep DEF IInv
    <2>3. \A t \in Tasks : RowInv(t)'
      BY RowSteps, NewestClaimStep, BudgetStep, EndingStep DEF IInv, RowInv
    <2>4. QED BY <2>1, <2>2, <2>3 DEF IInv
  <1>3. QED BY <1>1, <1>2, PTL DEF Spec

-----------------------------------------------------------------------------
(* The properties *)

\* No report but the newest claim's ever ends a plugin task.
THEOREM NewestReportOnly == Spec => []StaleNeverApplied
  <1>1. IInv => StaleNeverApplied
    BY DEF IInv, RowInv, Ending, StaleNeverApplied
  <1>2. QED BY <1>1, Invariance, PTL

\* Every ending is announced once and as it happened, and nothing else is.
THEOREM AnnouncedOnce == Spec => []OneTerminalNotice
  <1>1. IInv => OneTerminalNotice
    BY DEF IInv, RowInv, Ending, OneTerminalNotice
  <1>2. QED BY <1>1, Invariance, PTL

\* An unknown outcome is only ever said of work that was claimed, and on one
\* Core never of a claim the guard refused.
THEOREM UnknownIsEarned == Spec => []UnknownMeansClaimed
  <1>1. IInv => UnknownMeansClaimed
    BY DEF IInv, RowInv, Ending, UnknownMeansClaimed
  <1>2. QED BY <1>1, Invariance, PTL

\* The running row names the newest claim and its holder.
THEOREM HolderIsNewest == Spec => []ClaimIsNewest
  <1>1. IInv => ClaimIsNewest
    BY DEF IInv, RowInv, NewestClaim, Claims, ClaimIsNewest
  <1>2. QED BY <1>1, Invariance, PTL

\* With one synchronous Core, started effectful work without the idempotency
\* contract is never said not to have happened.
THEOREM StartedIsNeverDenied == ASSUME SingleCore PROVE Spec => []StartedEffectKept
  <1>1. IInv => StartedEffectKept
    BY DEF IInv, RowInv, Ending, StartedEffectKept
  <1>2. QED BY <1>1, Invariance, PTL

\* The size of an initial segment.
LEMMA FirstNumbers ==
    ASSUME NEW k \in Nat
    PROVE  IsFiniteSet(1..k) /\ Cardinality(1..k) = k
  <1>1. 1 \in Int /\ k \in Int
    OBVIOUS
  <1>2. IsFiniteSet(1..k) /\ Cardinality(1..k) = IF 1 > k THEN 0 ELSE k - 1 + 1
    BY ONLY <1>1, FS_Interval, Zenon
  <1>3. QED BY <1>2

\* Plugin work is handed out at most once without the idempotency contract
\* and at most MaxAttempts times with it.
THEOREM RedispatchBounded == Spec => []NoBlindRedispatch
  <1>1. ASSUME IInv, NEW t \in Tasks, Plugin(t)
        PROVE  Cardinality(HandedClaims(t)) <= IF Idempotent(t) THEN MaxAttempts ELSE 1
    <2>1. /\ Len(exec[t]) \in Nat /\ task[t].attempt = Len(exec[t])
          /\ task[t].attempt <= IF Idempotent(t) THEN MaxAttempts ELSE 1
      BY <1>1 DEF IInv, TypeOK, RowInv, Budget
    <2>2. /\ IsFiniteSet(1..Len(exec[t])) /\ Cardinality(1..Len(exec[t])) = Len(exec[t])
      BY <2>1, FirstNumbers
    <2>3. HandedClaims(t) \subseteq 1..Len(exec[t])
      BY DEF HandedClaims
    <2>4. /\ IsFiniteSet(HandedClaims(t))
          /\ Cardinality(HandedClaims(t)) <= Cardinality(1..Len(exec[t]))
      BY <2>2, <2>3, FS_Subset
    <2>5. Cardinality(HandedClaims(t)) \in Nat
      BY <2>4, FS_CardinalityType
    <2>6. MaxAttempts \in Nat
      BY ConstantsAssumption
    <2>7. QED BY <2>1, <2>2, <2>4, <2>5, <2>6
  <1>2. IInv => NoBlindRedispatch
    BY <1>1 DEF NoBlindRedispatch
  <1>3. QED BY <1>2, Invariance, PTL

\* Once a task has ended nothing moves it, reclaims it or replaces its winner.
THEOREM EndsForGood == Spec => EndingIsFinal
  <1>1. IInv /\ [Next]_vars =>
          [\A t \in Tasks : Terminal(t) =>
             /\ task'[t].status = task[t].status
             /\ applied'[t] = applied[t]
             /\ Len(exec'[t]) = Len(exec[t])]_vars
    <2> SUFFICES ASSUME IInv, [Next]_vars, NEW t \in Tasks, Terminal(t)
                 PROVE  /\ task'[t].status = task[t].status
                        /\ applied'[t] = applied[t]
                        /\ Len(exec'[t]) = Len(exec[t])
      OBVIOUS
    <2>1. Kept(t)
      BY RowSteps DEF IInv, StepKind, Made, Approved, Minted, Refused, Returned, Ends,
         Running, Open, Terminal, Ended, None
    <2>2. QED BY <2>1 DEF Kept, SameClaims, Silent
  <1>2. QED BY <1>1, Invariance, PTL DEF Spec, EndingIsFinal

\* The sweeps and the lane's claim leave every row with a live lease alone.
THEOREM LiveExecutorKept == Spec => LiveExecutorGrace
  <1>1. TypeOK => [SweepExpired \/ SweepLeases \/ ClaimPlugin \/ DrawPlugin =>
                     \A t \in Tasks : LeaseLive(t) => UNCHANGED task[t]]_vars
    <2> SUFFICES ASSUME TypeOK, NEW t \in Tasks, LeaseLive(t),
                        SweepExpired \/ SweepLeases \/ ClaimPlugin \/ DrawPlugin
                 PROVE  task'[t] = task[t]
      OBVIOUS
    <2>1. CASE SweepExpired
      <3>1. Candidates[t] = None
        BY DEF Candidates, Overdue
      <3>2. QED BY <2>1, <3>1 DEF SweepExpired, ExpireRows
    <2>2. CASE SweepLeases
      BY <2>2 DEF SweepLeases, LeaseLapsed, LeaseLive
    <2>3. CASE ClaimPlugin
      <3>1. t \notin Drawn
        BY DEF Drawn, Lane, Eligible, LeaseLive, Running
      <3>2. QED BY <2>3, <3>1, LaneClaim
    <2>4. CASE DrawPlugin
      <3>1. t \notin Lane
        BY DEF Lane, Eligible, LeaseLive, Running
      <3>2. QED BY <2>4, <3>1 DEF DrawPlugin, TypeOK
    <2>5. QED BY <2>1, <2>2, <2>3, <2>4
  <1>2. QED BY <1>1, TypeCorrect, PTL DEF LiveExecutorGrace

\* What an uninstall has listed is plugin work, and what it has listed and is
\* through with has ended.  On one Core the whole lane has ended once the
\* teardown is over.
LaneShut ==
    \A t \in Tasks :
        /\ task[t].status = None => ~Plugin(t)
        /\ t \in listed => Plugin(t) /\ task[t].status # None
        /\ Uninstalled(t) => Terminal(t)

\* Who moves an uninstall: nothing reopens the lane, on one Core the work left
\* over is counted by Revoke alone, and a listed task is struck off only by a
\* cancel that has found it ended or ended it.
LEMMA UninstallSteps ==
    ASSUME [Next]_vars
    PROVE  \/ UNCHANGED <<cut, listed>> /\ (SingleCore /\ install' = "revoked" => install = "revoked")
           \/ Revoke \/ ListInFlight
           \/ /\ listed' = listed /\ UNCHANGED install
              /\ \E t \in Tasks, who \in Cancellers : CancelWrite(t, who)
  <1> USE DEF reads, history
  <1>1. CASE UNCHANGED vars
    BY <1>1 DEF vars
  <1>2. ASSUME NEW t \in Tasks, TaskStep(t),
               \A who \in Cancellers : ~CancelWrite(t, who)
        PROVE  UNCHANGED <<cut, listed, install>>
    BY <1>2 DEF TaskStep, Create, Approve, Heartbeat, Report, OwnerReport, CancelRead,
       CancelMiss, HandOver, FailStale, Cancel, LapseLease, PassDeadline, EndBackoff, CloseWindow
  <1>3. ASSUME NEW t \in Tasks, NEW who \in Cancellers, CancelWrite(t, who)
        PROVE  listed' = listed /\ UNCHANGED install
    BY <1>3 DEF CancelWrite
  <1>4. CASE \/ \E a \in Agents : ClaimGeneric(a)
             \/ ClaimPlugin \/ DrawPlugin \/ LoseAuthority \/ SweepLeases
             \/ ExpireRead \/ ExpireWrite \/ SweepExpired \/ Crash
    BY <1>4 DEF ClaimGeneric, ClaimPlugin, DrawPlugin, LoseAuthority, SweepLeases, ExpireRead,
       ExpireWrite, SweepExpired, Crash
  <1>5. CASE Pause \/ Resume \/ CloseLane
    BY <1>5 DEF Pause, Resume, CloseLane
  <1>6. QED BY <1>1, <1>2, <1>3, <1>4, <1>5 DEF Next

\* A row that has ended stays so, one that is born stays born, and its class is
\* that it was born with.
LEMMA RowsLast ==
    ASSUME IInv, [Next]_vars, NEW t \in Tasks
    PROVE  /\ Terminal(t) => Kept(t)
           /\ task[t].status # None => task'[t].status # None /\ task'[t].class = task[t].class
           /\ task'[t].status = None => Kept(t)
           /\ task[t].status = None => Kept(t) \/ Made(t)
  <1>1. /\ task[t] \in Row /\ StepKind(t)
        /\ \A a \in Runners : ClaimedRow(t, a).status = "running"
                              /\ ClaimedRow(t, a).class = task[t].class
    BY RowSteps DEF IInv, TypeOK, ClaimedRow, Row
  <1>2. QED
    BY <1>1 DEF StepKind, Kept, Made, Approved, Minted, Refused, Returned, Ends, SameClaims,
       Running, Open, Terminal, Ended, None

LEMMA LaneShutStep ==
    ASSUME IInv, LaneShut, [Next]_vars
    PROVE  LaneShut'
  <1>0. /\ task \in [Tasks -> Row] /\ cut \subseteq Tasks /\ listed \subseteq Tasks
    BY DEF IInv, TypeOK
  <1>1. ASSUME NEW t \in Tasks, task'[t].status = None PROVE task'[t].class = "agent"
    BY <1>1, RowsLast DEF Kept, SameClaims, LaneShut, Plugin
  <1>2. ASSUME NEW t \in Tasks, Terminal(t) PROVE Terminal(t)'
    BY <1>2, RowsLast DEF Kept, Terminal
  <1>3. ASSUME NEW t \in Tasks, t \in listed PROVE Plugin(t)' /\ task'[t].status # None
    BY <1>3, RowsLast DEF LaneShut, Plugin
  <1>4. ASSUME NEW t \in Tasks, task[t].status # None, ~Open(t) PROVE Terminal(t)
    BY <1>4 DEF Open, Terminal
  <1>5. CASE UNCHANGED <<cut, listed>> /\ (SingleCore /\ install' = "revoked" => install = "revoked")
    <2>1. ASSUME NEW t \in Tasks, SingleCore, install' = "revoked", cut' = {}, Plugin(t)'
          PROVE  Terminal(t)'
      <3>1. install = "revoked" /\ cut = {}
        BY <1>5, <2>1
      <3>2. Plugin(t)
        BY <2>1, <3>1, RowsLast DEF Plugin, Kept, Made, SameClaims
      <3>3. QED BY <1>2, <2>1, <3>1, <3>2 DEF LaneShut, Uninstalled
    <2>2. QED BY <1>1, <1>2, <1>3, <1>5, <2>1 DEF LaneShut, Uninstalled, Plugin
  <1>6. CASE Revoke
    <2>1. PICK done \in SUBSET InFlight :
            /\ cut' = InFlight \ done
            /\ task' = [t \in Tasks |-> IF t \in done
                  THEN [task[t] EXCEPT !.status = CancelledTo(t, task[t].status)] ELSE task[t]]
      BY <1>6 DEF Revoke
    <2>2. SingleCore /\ listed' = listed
      BY <1>6 DEF Revoke
    <2>3. ASSUME NEW t \in Tasks, cut' = {}, Plugin(t)' PROVE Terminal(t)'
      <3>1. task'[t].class = task[t].class
        BY <1>0, <2>1 DEF Row
      <3>2. Plugin(t) /\ task[t].status # None
        BY <2>3, <3>1 DEF Plugin, LaneShut
      <3>3. CASE Open(t)
        <4>1. t \in done
          BY <2>1, <2>3, <3>2, <3>3 DEF InFlight
        <4>2. task'[t].status = CancelledTo(t, task[t].status)
          BY <1>0, <2>1, <4>1 DEF Row
        <4>3. QED BY <4>2 DEF CancelledTo, Terminal, Ended
      <3>4. CASE ~Open(t)
        BY <1>2, <1>4, <3>2, <3>4
      <3>5. QED BY <3>3, <3>4
    <2>4. ASSUME NEW t \in Tasks, t \in listed PROVE Terminal(t)'
      BY <2>2, <2>4 DEF IInv, NothingPending
    <2>5. QED BY <1>1, <1>3, <2>2, <2>3, <2>4 DEF LaneShut, Uninstalled, Plugin
  <1>7. CASE ListInFlight
    <2>1. /\ ~SingleCore /\ task' = task
          /\ cut' = InFlight /\ listed' = listed \cup InFlight
      BY <1>7 DEF ListInFlight
    <2>2. ASSUME NEW t \in Tasks, t \in listed' PROVE Plugin(t) /\ task[t].status # None
      BY <2>1, <2>2 DEF LaneShut, InFlight, Open, None
    <2>3. ASSUME NEW t \in Tasks, t \in listed' \ cut' PROVE Terminal(t)
      BY <1>4, <2>1, <2>2, <2>3 DEF InFlight
    <2>4. QED BY <1>1, <2>1, <2>2, <2>3 DEF LaneShut, Uninstalled, Plugin, Terminal
  <1>8. ASSUME listed' = listed, NEW u \in Tasks, NEW who \in Cancellers, CancelWrite(u, who)
        PROVE  LaneShut'
    <2>1. ~SingleCore
      BY <1>8 DEF IInv, NothingPending, NoReads, CancelWrite
    <2>2. cut \ {u} \subseteq cut'
      BY <1>8 DEF CancelWrite
    <2>3. ASSUME u \in listed PROVE Terminal(u)'
      <3>1. task[u].status # None
        BY <2>3 DEF LaneShut
      <3>2. CASE Open(u)
        <4>1. task'[u].status = CancelledTo(u, cancelSeen[who][u])
          BY <1>0, <1>8, <3>2 DEF CancelWrite, End, Row
        <4>2. QED BY <4>1 DEF CancelledTo, Terminal, Ended
      <3>3. CASE ~Open(u)
        BY <1>2, <1>4, <3>1, <3>3
      <3>4. QED BY <3>2, <3>3
    <2>4. ASSUME NEW t \in Tasks, t \in listed \ cut' PROVE Terminal(t)'
      BY <1>2, <2>2, <2>3, <2>4 DEF LaneShut, Uninstalled
    <2>5. QED BY <1>1, <1>3, <1>8, <2>1, <2>4 DEF LaneShut, Uninstalled, Plugin
  <1>9. QED BY <1>5, <1>6, <1>7, <1>8, UninstallSteps

\* Once an uninstall is through with a task, none of its results is applied and
\* no claim of it minted: on one Core the whole lane once the teardown is over,
\* with several workers every task the teardown has listed and cancelled.
THEOREM RevokedIsSilent == Spec => NothingAppliedAfterRevoke
  <1>1. Init => LaneShut
    BY DEF Init, LaneShut, NoRow, Plugin, Uninstalled
  <1>2. IInv /\ LaneShut /\ [Next]_vars =>
          [\A t \in Tasks : Uninstalled(t) =>
             applied'[t] = applied[t] /\ Len(exec'[t]) = Len(exec[t])]_vars
    <2> SUFFICES ASSUME IInv, LaneShut, [Next]_vars, NEW t \in Tasks, Uninstalled(t)
                 PROVE  applied'[t] = applied[t] /\ Len(exec'[t]) = Len(exec[t])
      OBVIOUS
    <2>1. Terminal(t)
      BY DEF LaneShut
    <2>2. QED BY <2>1, RowsLast DEF Kept, SameClaims, Silent
  <1>3. IInv /\ LaneShut /\ [Next]_vars => LaneShut'
    BY LaneShutStep
  <1>4. QED BY <1>1, <1>2, <1>3, Invariance, PTL DEF Spec, NothingAppliedAfterRevoke

-----------------------------------------------------------------------------
(* The task contract *)

\* The phase of a row, by its state, before and after a step.
LEMMA PhaseOf ==
    ASSUME NEW t \in Tasks
    PROVE  /\ task[t].status = None => Phase(t) = "unborn"
           /\ task[t].status \in {"pending_approval", "queued"} => Phase(t) = "waiting"
           /\ task[t].status = "running" => Phase(t) = "working"
           /\ task[t].status \in Ended => Phase(t) = task[t].status
           /\ task'[t].status \in {"pending_approval", "queued"} => Phase(t)' = "waiting"
           /\ task'[t].status = "running" => Phase(t)' = "working"
           /\ task'[t].status \in Ended => Phase(t)' = task'[t].status
           /\ task'[t].status = task[t].status => Phase(t)' = Phase(t)
  BY DEF Phase, None, Ended

\* Each way a step moves a row is a step of the contract, or a stutter.
LEMMA StepKindMaps ==
    ASSUME TypeOK, TypeOK', NEW t \in Tasks, RowInv(t), StepKind(t)
    PROVE  \/ Contract!Same(t) \/ Contract!Born(t) \/ Contract!Dispatch(t)
           \/ Contract!GiveBack(t) \/ Contract!Finish(t)
  <1>0. /\ task[t] \in Row /\ task[t].status \in Status
        /\ exec[t] \in Seq(Execution) /\ Len(exec[t]) \in Nat
    BY DEF TypeOK, Row
  <1>1. CASE Kept(t)
    BY <1>1, PhaseOf DEF Kept, SameClaims, Silent, Plugin, Contract!Same
  <1>2. CASE Made(t)
    BY <1>2, PhaseOf DEF Made, Silent, Contract!Born
  <1>3. CASE Approved(t)
    BY <1>3, PhaseOf DEF Approved, SameClaims, Silent, Plugin, Contract!Same
  <1>4. CASE Minted(t)
    <2>1. PICK a \in Runners, g \in {"drawn", "handed"} :
             task'[t] = ClaimedRow(t, a) /\ exec'[t] = Append(exec[t], [agent |-> a, stage |-> g])
      BY <1>4 DEF Minted
    <2>2. task'[t].status = "running" /\ task'[t].class = task[t].class
      BY <1>0, <2>1 DEF ClaimedRow, Row
    <2>3. Len(exec'[t]) = Len(exec[t]) + 1
      BY <2>1, MintedClaims
    <2>4. QED BY <1>4, <2>2, <2>3, PhaseOf DEF Minted, Silent, Plugin, Contract!Dispatch
  <1>5. CASE Refused(t)
    <2>1. Len(exec'[t]) = Len(exec[t]) + 1
      BY <1>5, MintedClaims DEF Refused, Runners
    <2>2. Phase(t) = "waiting" /\ Phase(t)' = "failed"
      BY <1>5, PhaseOf DEF Refused, Ended
    <2>3. QED
      BY <1>5, <2>1, <2>2 DEF Refused, Plugin, Ended, Contract!Finish, Contract!Pending
  <1>6. CASE Returned(t)
    BY <1>6, PhaseOf DEF Returned, Running, SameClaims, Silent, Plugin, Contract!GiveBack
  <1>7. CASE Ends(t)
    <2>1. Phase(t) \in {"waiting", "working"} /\ (Running(t) => Phase(t) = "working")
      BY <1>0, <1>7, PhaseOf DEF Ends, Open, Running, Status
    <2>2. Phase(t)' = task'[t].status /\ Phase(t)' \in Ended
      BY <1>7, PhaseOf DEF Ends
    <2>3. \/ applied'[t] = applied[t]
          \/ ~Plugin(t) /\ applied'[t] \in 1..Len(exec[t])
          \/ Plugin(t) /\ Phase(t) = "working" /\ applied'[t] = Len(exec[t])
      BY <1>7, <2>1 DEF Ends, Handed, RowInv, NewestClaim
    <2>4. QED
      BY <1>7, <2>1, <2>2, <2>3
      DEF Ends, SameClaims, Plugin, Contract!Finish, Contract!Pending, Contract!Winners
  <1>8. QED BY <1>1, <1>2, <1>3, <1>4, <1>5, <1>6, <1>7 DEF StepKind

\* The rows, claims, reports and sweeps implement the task contract.
THEOREM Implementation == Spec => ImplementsContract
  <1>1. Init => Contract!Init
    <2> SUFFICES ASSUME Init PROVE Contract!Init
      OBVIOUS
    <2>1. ASSUME NEW t \in Tasks
          PROVE  /\ task[t].status = None /\ task[t].class = "agent"
                 /\ exec[t] = <<>> /\ applied[t] = 0 /\ notices[t] = <<>>
      BY <2>1 DEF Init, NoRow
    <2>2. ASSUME NEW t \in Tasks
          PROVE  Phase(t) = "unborn" /\ Plugin(t) = FALSE /\ Len(exec[t]) = 0
      BY <2>1, <2>2, PhaseOf DEF Plugin
    <2>3. /\ applied = [t \in Tasks |-> 0] /\ notices = [t \in Tasks |-> <<>>]
      BY DEF Init
    <2>4. /\ [t \in Tasks |-> Phase(t)] = [t \in Tasks |-> "unborn"]
          /\ [t \in Tasks |-> Len(exec[t])] = [t \in Tasks |-> 0]
      BY <2>2
    <2>5. [t \in Tasks |-> Plugin(t)] = [t \in Tasks |-> FALSE]
      BY <2>2, Zenon
    <2>6. QED BY <2>3, <2>4, <2>5, Zenon DEF Contract!Init
  <1>2. IInv /\ IInv' /\ [Next]_vars => [Contract!Next]_(Contract!vars)
    BY RowSteps, StepKindMaps DEF IInv, Contract!Next
  <1>3. QED
    BY <1>1, <1>2, Invariance, PTL DEF Spec, ImplementsContract, Contract!Spec

=============================================================================
