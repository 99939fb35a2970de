---------------------------- MODULE WorkflowTask ----------------------------
(***************************************************************************)
(* The durable delegation task of Dina Core: the rows of workflow_tasks,   *)
(* the claims handed to out-of-process runners, and the verbs that move a  *)
(* row (packages/core/src/workflow/{domain,repository,service}.ts, the     *)
(* HTTP guards of server/routes/workflow.ts and the plugin claim guard of  *)
(* plugins/claim_guard.ts).                                                *)
(*                                                                         *)
(* Clocks are abstracted to what the code compares them with: a lease is   *)
(* live or lapsed, a deadline ahead or passed, a retry backoff running or  *)
(* over, the 24 h retry window open or over.  Reports of a runner travel   *)
(* over a network and are never cancelled, so any claim that was ever      *)
(* handed out may report at any later time, any number of times.           *)
(*                                                                         *)
(* On one synchronous Core nothing comes between the statements of a call, *)
(* but the process may die between two transactions of one.  With several  *)
(* workers each read and each transaction is a step, and a call may go on  *)
(* with what it has read long after that is so no more.                    *)
(***************************************************************************)
EXTENDS Integers, Sequences, FiniteSets

CONSTANTS
    NTasks,        \* tasks are 1..NTasks, numbered in the order of created_at
    Agents,        \* paired generic agents; the plugin lane has its one device
    Device,        \* the device the plugin install is bound to
    MaxAttempts,   \* PLUGIN_RETRY.MAX_ATTEMPTS
    MaxClaims,     \* bound: claims explored per generic task (unbounded in code)
    MaxDrain,      \* MAX_TERMINALIZE_PER_CLAIM
    SingleCore     \* TRUE: one synchronous connection; FALSE: several Core workers

ASSUME ConstantsAssumption ==
    /\ NTasks \in Nat \ {0}
    /\ Device \notin Agents
    /\ MaxAttempts \in Nat \ {0}
    /\ MaxClaims \in Nat \ {0}
    /\ MaxDrain \in Nat \ {0}
    /\ SingleCore \in BOOLEAN

VARIABLES
    task,        \* the workflow_tasks rows
    install,     \* status of the plugin install that owns the plugin lane
    cancelSeen,  \* a cancel's getById, read before its UPDATE, by canceller
    expireSeen,  \* the expiry sweep's candidate SELECT, read before its UPDATEs
    cut,         \* in-flight tasks an uninstall has listed and not yet cancelled
    \* observability
    exec,        \* per task, the claims minted for it, oldest first
    applied,     \* per task, the claim whose report ended it (0: none)
    told,        \* per task, the claims whose runner has reported an ending
    late,        \* per task, the claims whose refused report was retained
    notices,     \* per task, the terminal events queued for delivery
    listed       \* the tasks an uninstall among several workers has ever listed

reads == <<cancelSeen, expireSeen, cut>>
history == <<exec, applied, told, late, notices, listed>>
vars == <<task, install, reads, history>>

-----------------------------------------------------------------------------
(* The rows *)

Tasks == 1..NTasks
Runners == Agents \cup {Device}
None == "none"

\* Without a plugin envelope, or a plugin's capability by declared action
\* class (read / effectful) and consented idempotency.
Classes == {"agent", "read", "readIdem", "effect", "effectIdem"}
Plugin(t) == task[t].class # "agent"
Effectful(t) == task[t].class \in {"effect", "effectIdem"}
Idempotent(t) == task[t].class \in {"readIdem", "effectIdem"}

Ended == {"completed", "failed", "cancelled", "outcome_unknown"}
Status == {None, "pending_approval", "queued", "running"} \cup Ended
Terminal(t) == task[t].status \in Ended
Open(t) == task[t].status \notin Ended \cup {None}
Running(t) == task[t].status = "running"

Row == [status: Status, class: Classes, agent: Runners \cup {None},
        claim: Nat, lease: {None, "live", "lapsed"}, attempt: Nat,
        backoff: BOOLEAN, overdue: BOOLEAN, closed: BOOLEAN, stale: BOOLEAN]

NoRow == [status |-> None, class |-> "agent", agent |-> None, claim |-> 0,
          lease |-> None, attempt |-> 0, backoff |-> FALSE, overdue |-> FALSE,
          closed |-> FALSE, stale |-> FALSE]

\* A claim is drawn from the table, then handed to its runner or refused.
Execution == [agent: Runners, stage: {"drawn", "handed", "refused"}]

\* Who calls cancel: the owner, or the teardown of an uninstall.
Cancellers == {"owner", "teardown"}

LeaseLive(t) == Running(t) /\ task[t].lease = "live"
LeaseLapsed(t) == Running(t) /\ task[t].lease = "lapsed"

Init ==
    /\ task = [t \in Tasks |-> NoRow]
    /\ install = "active"
    /\ cancelSeen = [who \in Cancellers |-> [t \in Tasks |-> None]]
    /\ expireSeen = [t \in Tasks |-> None]
    /\ cut = {}
    /\ exec = [t \in Tasks |-> <<>>]
    /\ applied = [t \in Tasks |-> 0]
    /\ told = [t \in Tasks |-> {}]
    /\ late = [t \in Tasks |-> {}]
    /\ notices = [t \in Tasks |-> <<>>]
    /\ listed = {}

-----------------------------------------------------------------------------
(* Creation and the owner's decision *)

\* WorkflowService.create with the two states a delegation is born in; a
\* plugin task is created by a call that has read its install as active.
Create(t, class, status) ==
    /\ task[t].status = None
    /\ \A u \in Tasks : u < t => task[u].status # None
    /\ SingleCore /\ class # "agent" => install = "active"
    /\ task' = [task EXCEPT ![t].status = status, ![t].class = class]
    /\ UNCHANGED <<install, reads, history>>

Approve(t) ==
    /\ task[t].status = "pending_approval"
    /\ task' = [task EXCEPT ![t].status = "queued"]
    /\ UNCHANGED <<install, reads, history>>

-----------------------------------------------------------------------------
(* Claims *)

Eligible(t) ==
    /\ task[t].status = "queued"
    /\ ~task[t].overdue
    /\ ~task[t].backoff

\* The row as a claim leaves it: a fresh claim_id and one more attempt.
ClaimedRow(t, a) ==
    [task[t] EXCEPT !.status = "running", !.agent = a, !.lease = "live",
                    !.claim = Len(exec[t]) + 1, !.attempt = @ + 1]

\* claimDelegationTask for a generic agent: the oldest eligible untagged task.
ClaimGeneric(a) ==
    \E t \in Tasks :
        /\ ~Plugin(t) /\ Eligible(t)
        /\ \A u \in Tasks : u < t => Plugin(u) \/ ~Eligible(u)
        /\ task[t].attempt < MaxClaims
        /\ task' = [task EXCEPT ![t] = ClaimedRow(t, a)]
        /\ exec' = [exec EXCEPT ![t] = Append(@, [agent |-> a, stage |-> "handed"])]
        /\ UNCHANGED <<install, reads, applied, told, late, notices, listed>>

Lane == {t \in Tasks : Plugin(t) /\ Eligible(t)}

\* Mutant of Drawn: a stale row is skipped instead of failed and stays oldest.
DrawnOldestValid ==
    {t \in Lane : ~task[t].stale /\ \A u \in Lane : t <= u}

\* The rows one claimPluginTask call draws from the lane: it takes the oldest
\* eligible one, fails it and draws again while what it drew is stale.
Drawn ==
    {t \in Lane : LET older == {u \in Lane : u < t}
                  IN  /\ \A u \in older : task[u].stale
                      /\ Cardinality(older) < MaxDrain}

\* claimPluginTask on one Core: the stale rows it draws are claimed and failed as
\* stale_authority, the first valid one is handed to the runner.  Core may die
\* on the way, and leave the last row it drew claimed by nobody.
ClaimPlugin ==
    /\ SingleCore /\ install = "active"
    /\ \E last \in Drawn, dies \in BOOLEAN :
        LET met == {t \in Drawn : t <= last}
            left == {t \in met : dies /\ t = last}
            refused == {t \in met \ left : task[t].stale}
            stage(t) == IF t \in left THEN "drawn"
                        ELSE IF t \in refused THEN "refused" ELSE "handed"
        IN  /\ task' = [t \in Tasks |->
                          IF t \notin met THEN task[t]
                          ELSE IF t \in refused
                               THEN [ClaimedRow(t, Device) EXCEPT !.status = "failed"]
                               ELSE ClaimedRow(t, Device)]
            /\ exec' = [t \in Tasks |->
                          IF t \notin met THEN exec[t]
                          ELSE Append(exec[t], [agent |-> Device, stage |-> stage(t)])]
            /\ notices' = [t \in Tasks |->
                             IF t \in refused THEN Append(notices[t], "failed")
                             ELSE notices[t]]
    /\ UNCHANGED <<install, reads, applied, told, late, listed>>

\* Its claim in a transaction of its own, by a call that has read the install as
\* active, maybe long ago.
DrawPlugin ==
    /\ ~SingleCore
    /\ \E t \in Lane :
        /\ \A u \in Lane : t <= u
        /\ task' = [task EXCEPT ![t] = ClaimedRow(t, Device)]
        /\ exec' = [exec EXCEPT ![t] = Append(@, [agent |-> Device, stage |-> "drawn"])]
    /\ UNCHANGED <<install, reads, applied, told, late, notices, listed>>

Settle(t, n, stage) == exec' = [exec EXCEPT ![t] = [@ EXCEPT ![n].stage = stage]]

\* The checks pass, on an install and grants that may have changed since.
HandOver(t, n) ==
    /\ ~SingleCore /\ exec[t][n].stage = "drawn"
    /\ Settle(t, n, "handed")
    /\ UNCHANGED <<task, install, reads, applied, told, late, notices, listed>>

\* failStale: the transaction that fails a claim whose pins are stale; it misses
\* when the row has gone to another claim or another state.
FailStale(t, n) ==
    /\ ~SingleCore /\ exec[t][n].stage = "drawn" /\ task[t].stale
    /\ Settle(t, n, "refused")
    /\ IF Running(t) /\ task[t].claim = n
       THEN /\ task' = [task EXCEPT ![t].status = "failed"]
            /\ notices' = [notices EXCEPT ![t] = Append(@, "failed")]
            /\ UNCHANGED late
       ELSE /\ late' = [late EXCEPT ![t] = @ \cup {n}]
            /\ UNCHANGED <<task, notices>>
    /\ UNCHANGED <<install, reads, applied, told, listed>>

-----------------------------------------------------------------------------
(* The executing runner *)

\* Claim n of task t reached a runner.
Handed(t, n) == n \in 1..Len(exec[t]) /\ exec[t][n].stage = "handed"
HandedClaims(t) == {n \in 1..Len(exec[t]) : Handed(t, n)}

\* A request carries the claim token of its claim or, from an agent that
\* predates tokens, none.
Tokens == {"claim_id", "none"}

HoldsTask(t, n) == Running(t) /\ task[t].agent = exec[t][n].agent

\* Heartbeat: the lease is renewed even when it has lapsed unswept.
Heartbeat(t, n, token) ==
    /\ Handed(t, n) /\ HoldsTask(t, n)
    /\ token = "claim_id" => task[t].claim = n
    /\ task' = [task EXCEPT ![t].lease = "live"]
    /\ UNCHANGED <<install, reads, history>>

\* The state a report asks for: a declared-effectful plugin task never ends
\* failed on its runner's word.
ReportedEnd(t, verb) ==
    IF verb = "complete" THEN "completed"
    ELSE IF Effectful(t) THEN "outcome_unknown" ELSE "failed"

End(t, status) ==
    /\ task' = [task EXCEPT ![t].status = status]
    /\ notices' = [notices EXCEPT ![t] = Append(@, status)]

\* Mutants of ReportLands: the compare-and-swap forgets the claim token, or
\* the state (an ended row keeps its claim_id).
ReportLandsAnyClaim(t, n, token) == IF token = "claim_id" THEN Running(t) ELSE Open(t)
ReportLandsAnyState(t, n, token) == IF token = "claim_id" THEN task[t].claim = n ELSE Open(t)

\* The UPDATE's guard: with a claim token a compare-and-swap on
\* (running, claim_id), without one any nonterminal state.
ReportLands(t, n, token) ==
    IF token = "claim_id" THEN Running(t) /\ task[t].claim = n ELSE Open(t)

\* /complete and /fail from the runner of claim n: refused by
\* agentCompletionGuard, or applied, or kept as late-report evidence when
\* the UPDATE misses.  The guard runs on an earlier read of the row, which
\* under a single connection is the row itself.
Report(t, n, verb, token) ==
    /\ Handed(t, n)
    /\ Plugin(t) => token = "claim_id"
    /\ verb = "malformed" => Plugin(t)
    /\ told' = [told EXCEPT ![t] = @ \cup {n}]
    /\ \/ /\ ~HoldsTask(t, n)
          /\ UNCHANGED <<task, notices, applied, late>>
       \/ /\ SingleCore => HoldsTask(t, n)
          /\ ReportLands(t, n, token)
          /\ task' = [task EXCEPT ![t].status = ReportedEnd(t, verb),
                                  ![t].agent = exec[t][n].agent]
          /\ notices' = [notices EXCEPT ![t] = Append(@, ReportedEnd(t, verb))]
          /\ applied' = [applied EXCEPT ![t] = n]
          /\ UNCHANGED late
       \/ /\ SingleCore => HoldsTask(t, n)
          /\ token = "claim_id" /\ ~ReportLands(t, n, token)
          /\ late' = [late EXCEPT ![t] = @ \cup {n}]
          /\ UNCHANGED <<task, notices, applied>>
    /\ UNCHANGED <<install, reads, exec, listed>>

\* Some read of the row by this request found it running.
SeenRunning(t) == IF SingleCore THEN Running(t) ELSE exec[t] # <<>>

\* The same verbs from an owner surface, which holds no claim (claim 0).  A
\* plugin task is only ever parked this way, never completed or failed.
OwnerReport(t, verb) ==
    LET end == ReportedEnd(t, verb)
        lands == IF end = "outcome_unknown" THEN Running(t) ELSE ~Plugin(t)
    IN  /\ Open(t)
        /\ verb = "malformed" => Plugin(t)
        /\ \/ SeenRunning(t)
           \/ task[t].status = "pending_approval" /\ end = "failed"
        /\ \/ /\ lands
              /\ task' = [task EXCEPT ![t].status = end,
                     ![t].agent = IF end = "outcome_unknown" THEN @ ELSE None]
              /\ notices' = [notices EXCEPT ![t] = Append(@, end)]
              /\ UNCHANGED late
           \/ /\ ~lands /\ end # "outcome_unknown"
              /\ late' = [late EXCEPT ![t] = @ \cup {0}]
              /\ UNCHANGED <<task, notices>>
        /\ UNCHANGED <<install, reads, exec, applied, told, listed>>

-----------------------------------------------------------------------------
(* Cancellation and revocation *)

\* Mutant of CancelledTo: without the effectful special case.
CancelledToPlain(t, saw) == "cancelled"

\* repository.cancel, given the status its getById returned.
CancelledTo(t, seen) ==
    IF seen = "running" /\ Effectful(t) THEN "outcome_unknown" ELSE "cancelled"

CancelRead(t, who) ==
    /\ ~SingleCore
    /\ IF who = "owner" THEN Open(t) ELSE t \in cut
    /\ cancelSeen[who][t] = None
    /\ cancelSeen' = [cancelSeen EXCEPT ![who][t] = task[t].status]
    /\ UNCHANGED <<task, install, expireSeen, cut, history>>

Missed(t, who) ==
    cancelSeen[who][t] = "running" /\ Effectful(t) /\ ~Running(t)

\* Mutant of CancelMiss: a cancel whose parking missed is over.
CancelMissGivesUp(t, who) ==
    /\ Missed(t, who)
    /\ cancelSeen' = [cancelSeen EXCEPT ![who][t] = None]
    /\ cut' = IF who = "teardown" THEN cut \ {t} ELSE cut
    /\ UNCHANGED <<task, install, expireSeen, history>>

\* The parking UPDATE misses a task that left running since the read; the
\* cancel then goes on as if it had read a task that is not running.
CancelMiss(t, who) ==
    /\ Missed(t, who)
    /\ cancelSeen' = [cancelSeen EXCEPT ![who][t] = "queued"]
    /\ UNCHANGED <<task, install, expireSeen, cut, history>>

CancelWrite(t, who) ==
    /\ cancelSeen[who][t] # None /\ ~Missed(t, who)
    /\ IF Open(t) THEN End(t, CancelledTo(t, cancelSeen[who][t]))
                  ELSE UNCHANGED <<task, notices>>
    /\ cancelSeen' = [cancelSeen EXCEPT ![who][t] = None]
    /\ cut' = IF who = "teardown" THEN cut \ {t} ELSE cut
    /\ UNCHANGED <<install, expireSeen, exec, applied, told, late, listed>>

Cancel(t) ==
    /\ SingleCore /\ Open(t)
    /\ End(t, CancelledTo(t, task[t].status))
    /\ UNCHANGED <<install, reads, exec, applied, told, late, listed>>

\* listNonTerminalByRunner
InFlight == {t \in Tasks : Plugin(t) /\ Open(t)}

\* Uninstall on one Core: the lane is closed (pause, then markRevoked), then
\* terminateInstallInFlight cancels what is in flight, oldest first.  Core may
\* die on the way; the uninstall may be asked for again.
Revoke ==
    /\ SingleCore
    /\ install # "revoked" \/ cut # {}
    /\ install' = "revoked"
    /\ \E done \in SUBSET InFlight :
        LET to(t) == CancelledTo(t, task[t].status)
        IN  /\ \A t \in done, u \in InFlight : u < t => u \in done
            /\ cut' = InFlight \ done
            /\ task' = [t \in Tasks |-> IF t \in done
                          THEN [task[t] EXCEPT !.status = to(t)] ELSE task[t]]
            /\ notices' = [t \in Tasks |-> IF t \in done
                             THEN Append(notices[t], to(t)) ELSE notices[t]]
    /\ UNCHANGED <<cancelSeen, expireSeen, exec, applied, told, late, listed>>

\* With several workers the lane is closed first,
CloseLane ==
    /\ ~SingleCore /\ install # "revoked" /\ install' = "revoked"
    /\ UNCHANGED <<task, reads, history>>

\* then read, and each task read is cancelled as the owner cancels one.
ListInFlight ==
    /\ ~SingleCore /\ install = "revoked"
    /\ \A t \in Tasks : cancelSeen["teardown"][t] = None
    /\ InFlight # cut
    /\ cut' = InFlight /\ listed' = listed \cup InFlight
    /\ UNCHANGED <<task, install, cancelSeen, expireSeen, exec, applied, told, late, notices>>

Pause ==
    /\ install = "active" /\ install' = "paused"
    /\ UNCHANGED <<task, reads, history>>

Resume ==
    /\ install = "paused" /\ install' = "active"
    /\ UNCHANGED <<task, reads, history>>

\* A new config revision, scope hash or manifest makes the pins of every open
\* plugin task stale, a revoked or expired grant those of the tasks riding it:
\* they will never match the install again.
LoseAuthority ==
    /\ install # "revoked"
    /\ \E riding \in SUBSET {t \in Tasks : Plugin(t) /\ Open(t)} :
        /\ \E t \in riding : ~task[t].stale
        /\ task' = [t \in Tasks |-> IF t \in riding
                       THEN [task[t] EXCEPT !.stale = TRUE] ELSE task[t]]
    /\ UNCHANGED <<install, reads, history>>

-----------------------------------------------------------------------------
(* The two sweeps *)

\* Mutant of MayRetry: one attempt more.
MayRetryOnceMore(t) ==
    Idempotent(t) /\ task[t].attempt <= MaxAttempts /\ ~task[t].closed

\* mayAutoRetry
MayRetry(t) ==
    /\ Idempotent(t)
    /\ task[t].attempt < MaxAttempts
    /\ ~task[t].closed

\* classifyLeaseLoss
LeaseLossVerdict(t) ==
    IF ~Plugin(t) \/ MayRetry(t) THEN "queued"
    ELSE IF Effectful(t) THEN "outcome_unknown" ELSE "failed"

\* The row after the lease sweep: a requeue forgets the claim, an ending
\* keeps it for the record.
SweptRow(t) ==
    IF LeaseLossVerdict(t) = "queued"
    THEN [task[t] EXCEPT !.status = "queued", !.agent = None, !.lease = None,
                         !.claim = 0, !.backoff = Plugin(t)]
    ELSE [task[t] EXCEPT !.status = LeaseLossVerdict(t)]

\* expireLeasedTasks: every lapsed lease in one transaction.
SweepLeases ==
    LET lost == {t \in Tasks : LeaseLapsed(t)}
    IN  /\ lost # {}
        /\ task' = [t \in Tasks |-> IF t \in lost THEN SweptRow(t) ELSE task[t]]
        /\ notices' = [t \in Tasks |->
                         IF t \in lost /\ LeaseLossVerdict(t) # "queued"
                         THEN Append(notices[t], LeaseLossVerdict(t)) ELSE notices[t]]
        /\ UNCHANGED <<install, reads, exec, applied, told, late, listed>>

\* The candidate SELECT of expireTasks, with its grace for a live executor.
Overdue(t) == Open(t) /\ task[t].overdue /\ ~LeaseLive(t)

\* Mutant of ExpiredTo: the ending is decided by the class alone.
ExpiredToByClass(t, saw) == IF Effectful(t) THEN "outcome_unknown" ELSE "failed"

\* The ending expireTasks decides from the status its SELECT saw.
ExpiredTo(t, seen) ==
    IF seen = "running" /\ Effectful(t) THEN "outcome_unknown" ELSE "failed"

\* Mutant of StillExpirable: the affected-row count is not looked at.
StillExpirableUnchecked(t, saw) == TRUE

\* Which candidates the per-row UPDATE still moves.
StillExpirable(t, seen) ==
    IF ExpiredTo(t, seen) = "outcome_unknown" THEN Running(t) ELSE Open(t)

ExpireRows(seen) ==
    LET hit == {t \in Tasks : seen[t] # None /\ StillExpirable(t, seen[t])}
    IN  /\ task' = [t \in Tasks |-> IF t \in hit
                       THEN [task[t] EXCEPT !.status = ExpiredTo(t, seen[t])]
                       ELSE task[t]]
        /\ notices' = [t \in Tasks |-> IF t \in hit
                          THEN Append(notices[t], ExpiredTo(t, seen[t]))
                          ELSE notices[t]]

Candidates == [t \in Tasks |-> IF Overdue(t) THEN task[t].status ELSE None]
NoCandidates == [t \in Tasks |-> None]

ExpireRead ==
    /\ ~SingleCore
    /\ expireSeen = NoCandidates /\ Candidates # NoCandidates
    /\ expireSeen' = Candidates
    /\ UNCHANGED <<task, install, cancelSeen, cut, history>>

ExpireWrite ==
    /\ expireSeen # NoCandidates
    /\ ExpireRows(expireSeen)
    /\ expireSeen' = NoCandidates
    /\ UNCHANGED <<install, cancelSeen, cut, exec, applied, told, late, listed>>

SweepExpired ==
    /\ SingleCore /\ Candidates # NoCandidates
    /\ ExpireRows(Candidates)
    /\ UNCHANGED <<install, reads, exec, applied, told, late, listed>>

-----------------------------------------------------------------------------
(* Time *)

LapseLease(t) ==
    /\ LeaseLive(t)
    /\ task' = [task EXCEPT ![t].lease = "lapsed"]
    /\ UNCHANGED <<install, reads, history>>

PassDeadline(t) ==
    /\ Open(t) /\ ~task[t].overdue
    /\ task' = [task EXCEPT ![t].overdue = TRUE]
    /\ UNCHANGED <<install, reads, history>>

EndBackoff(t) ==
    /\ task[t].status = "queued" /\ task[t].backoff
    /\ task' = [task EXCEPT ![t].backoff = FALSE]
    /\ UNCHANGED <<install, reads, history>>

\* RETRY_WINDOW_MS since first_claimed_at is over.
CloseWindow(t) ==
    /\ Running(t) /\ Idempotent(t) /\ ~task[t].closed
    /\ task' = [task EXCEPT ![t].closed = TRUE]
    /\ UNCHANGED <<install, reads, history>>

NoReads == [who \in Cancellers |-> [t \in Tasks |-> None]]

\* A Core worker stops between a read and its write; rows are durable.
Crash ==
    /\ ~SingleCore
    /\ expireSeen # NoCandidates \/ cancelSeen # NoReads
    /\ cancelSeen' = NoReads
    /\ expireSeen' = NoCandidates
    /\ UNCHANGED <<task, install, cut, history>>

Verbs == {"complete", "malformed", "fail"}
Claims(t) == 1..Len(exec[t])

TaskStep(t) ==
    \/ \E c \in Classes, s \in {"pending_approval", "queued"} : Create(t, c, s)
    \/ Approve(t)
    \/ \E n \in Claims(t), token \in Tokens : Heartbeat(t, n, token)
    \/ \E n \in Claims(t), v \in Verbs, token \in Tokens : Report(t, n, v, token)
    \/ \E v \in Verbs : OwnerReport(t, v)
    \/ \E n \in Claims(t) : HandOver(t, n) \/ FailStale(t, n)
    \/ \E who \in Cancellers : CancelRead(t, who) \/ CancelMiss(t, who) \/ CancelWrite(t, who)
    \/ Cancel(t)
    \/ LapseLease(t) \/ PassDeadline(t) \/ EndBackoff(t) \/ CloseWindow(t)

Next ==
    \/ \E t \in Tasks : TaskStep(t)
    \/ \E a \in Agents : ClaimGeneric(a)
    \/ ClaimPlugin \/ DrawPlugin
    \/ Revoke \/ CloseLane \/ ListInFlight
    \/ Pause \/ Resume \/ LoseAuthority
    \/ SweepLeases
    \/ ExpireRead \/ ExpireWrite \/ SweepExpired
    \/ Crash

Spec == Init /\ [][Next]_vars

\* The sweepers are interval timers that run while Core is up; no executor,
\* owner or deadline is obliged to do anything.
Fairness ==
    /\ WF_vars(SweepLeases)
    /\ WF_vars(SweepExpired)

\* A connected plugin runner polls its lane, and backoffs come due.
Polling ==
    /\ WF_vars(ClaimPlugin)
    /\ \A t \in Tasks : WF_vars(EndBackoff(t))

FairSpec == Spec /\ Fairness /\ Polling

-----------------------------------------------------------------------------
(* Properties *)

\* Every row, pending read and record has the shape the columns allow.
TypeOK ==
    /\ task \in [Tasks -> Row]
    /\ install \in {"active", "paused", "revoked"}
    /\ cancelSeen \in [Cancellers -> [Tasks -> Status]]
    /\ expireSeen \in [Tasks -> Status]
    /\ exec \in [Tasks -> Seq(Execution)]
    /\ applied \in [Tasks -> Nat]
    /\ told \in [Tasks -> SUBSET Nat]
    /\ late \in [Tasks -> SUBSET Nat]
    /\ notices \in [Tasks -> Seq(Ended)]
    /\ cut \in SUBSET Tasks /\ listed \in SUBSET Tasks

\* A plugin task that a report ended was ended by the newest claim minted for
\* it: a stale execution loses the compare-and-swap, whatever requeues,
\* reclaims and second reports lie between.
StaleNeverApplied ==
    \A t \in Tasks : Plugin(t) /\ applied[t] # 0 => applied[t] = Len(exec[t])

\* A task that ended is announced exactly once, under the state it ended in,
\* and a task that has not ended is not announced: the sweeps, the verbs and
\* the claim guard's drain never emit a terminal event for a lost transition.
OneTerminalNotice ==
    \A t \in Tasks :
        notices[t] = IF Terminal(t) THEN <<task[t].status>> ELSE <<>>

\* Once claimed, plugin work is dispatched again only under a consented
\* idempotency contract and never beyond the attempt budget.
NoBlindRedispatch ==
    \A t \in Tasks : Plugin(t) =>
        Cardinality(HandedClaims(t)) <= IF Idempotent(t) THEN MaxAttempts ELSE 1

\* A declared-effectful task without the idempotency contract whose execution
\* started ends completed or outcome_unknown: no cancel, revoke, expiry, lease
\* loss, malformed result or reconfiguration says that nothing happened.
StartedEffectKept ==
    \A t \in Tasks :
        task[t].class = "effect" /\ HandedClaims(t) # {} /\ Terminal(t)
            => task[t].status \in {"completed", "outcome_unknown"}

\* outcome_unknown is said only of a task that was claimed, and on one Core only
\* of one that reached its runner or whose claimer died before handing it over,
\* never of one the claim guard refused.
UnknownMeansClaimed ==
    \A t \in Tasks : task[t].status = "outcome_unknown" =>
        \E n \in Claims(t) : SingleCore => exec[t][n].stage # "refused"

\* The running row names the newest claim and the runner that holds it, and
\* no other row is held.
ClaimIsNewest ==
    \A t \in Tasks :
        /\ Running(t) => /\ task[t].claim = Len(exec[t])
                         /\ task[t].claim # 0
                         /\ task[t].agent = exec[t][task[t].claim].agent
        /\ task[t].status \in {None, "pending_approval", "queued"} => task[t].claim = 0

\* The task contract, seen through the rows: waiting is for a decision or for
\* a claim, and only the report of a plugin must carry its claim token.
Phase(t) ==
    CASE task[t].status = None -> "unborn"
      [] task[t].status \in {"pending_approval", "queued"} -> "waiting"
      [] task[t].status = "running" -> "working"
      [] OTHER -> task[t].status

Contract == INSTANCE TaskContract WITH
    Task <- Tasks, Endings <- Ended,
    phase <- [t \in Tasks |-> Phase(t)],
    tokened <- [t \in Tasks |-> Plugin(t)],
    minted <- [t \in Tasks |-> Len(exec[t])],
    winner <- applied,
    announced <- notices

\* The rows, the claims, the reports and the two sweeps together implement
\* the task contract.
ImplementsContract == Contract!Spec

\* An ending is final: no later claim, report, cancel or sweep moves the row
\* or replaces the report that was applied.
EndingIsFinal ==
    [][\A t \in Tasks : Terminal(t) =>
          /\ task'[t].status = task[t].status
          /\ applied'[t] = applied[t]
          /\ Len(exec'[t]) = Len(exec[t])]_vars

\* A task whose uninstall is through with it: it was listed and cancelled; on
\* one Core, any task of the lane once the teardown has ended.
Uninstalled(t) ==
    \/ t \in listed \ cut
    \/ SingleCore /\ install = "revoked" /\ cut = {} /\ Plugin(t)

\* Once an uninstall is through with a task no result of it is applied and no
\* claim of it is minted, however claims, reports and sweeps of other workers
\* fell between the closing of the lane, its listing and each cancel.
NothingAppliedAfterRevoke ==
    [][\A t \in Tasks : Uninstalled(t) =>
          applied'[t] = applied[t] /\ Len(exec'[t]) = Len(exec[t])]_vars

\* No timer and no claimer takes a task from an executor whose lease is live,
\* however late its deadline and whatever became of its authority: it stops
\* only by its report or by the owner.
LiveExecutorGrace ==
    [][SweepExpired \/ SweepLeases \/ ClaimPlugin \/ DrawPlugin =>
          \A t \in Tasks : LeaseLive(t) => UNCHANGED task[t]]_vars

\* Past its deadline a task ends, unless a live lease keeps it open: with the
\* runner silent the two sweeps together leave nothing behind.
OverdueEnds ==
    \A t \in Tasks : Open(t) /\ task[t].overdue ~> Terminal(t) \/ LeaseLive(t)

\* A valid plugin task is not starved by dead or retried work queued before
\* it: while the lane stays open it is handed out, or its deadline passes.
LaneNeverStarves ==
    \A t \in Tasks :
        task[t].status = "queued" /\ Plugin(t) ~>
            \/ task[t].status # "queued"
            \/ task[t].stale \/ task[t].overdue
            \/ install # "active"

=============================================================================
