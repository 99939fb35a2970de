# Formal verification of Dina

Dina is a personal AI node: an encrypted *Core* (state, authority, messaging), a *Brain* (reasoning), paired agents
and plugins that execute work outside the node, a store-and-forward relay (*MsgBox*) between nodes, and a public
index (*AppView*). This directory holds TLA+ models of the parts whose correctness depends on the order in which
several actors act, the TLC configurations that check them on small instances, and TLAPS proofs of what should hold
for every instance.

Contents: 1 inventory, 2 plan, 3 how the models relate to the code, 4 the modules, 5 the runs and their bounds,
6 fairness, 7 what is proved, 8 what the checks found, 9 what is not modelled.

## 1. Inventory

Paths are relative to the repository. "Hard" names the behaviour that makes the component difficult to test.

### Core (`packages/core/src`)

| Component | State | Operations | Talks to | Hard | What makes it correct |
|---|---|---|---|---|---|
| Workflow tasks `workflow/` | `workflow_tasks`, `workflow_events` rows: state, claim token, lease, attempt, deadline, backoff | create, approve, claim, heartbeat, complete, fail, cancel, mark unknown, lease sweep, expiry sweep | runners over HTTP, plugin claim guard, response bridge, Brain event consumer | stale runners, lapsed leases, reads outside the write's transaction, crash between them | one ending, announced once; only the newest claim's report counts; a started effect is never reported as not done |
| Plugin host `plugins/` | installs (status, manifest, config revision), grants and their uses, drain authorizations | install, pause, resume, revoke, update/rebind, invoke, claim guard, host operations | workflow tasks, grants, runner devices | authority changes under queued and running work | nothing is dispatched or applied under authority that is gone; lanes do not starve |
| Response bridge `workflow/service.ts`, `workflow/bridge_pending_sweeper.ts` | `internal_stash`, in-memory fallback, in-flight and delivered-awaiting-clear sets | bridge on complete/fail, stage, release, retry sweep, clear | workflow tasks, D2D send | crash between send and clear, storage write failures, send timeouts that do not cancel | an answered query is eventually sent; an answer is not re-sent once its clear is known |
| Staging inbox `staging/` | `staging_inbox` rows: status, lease, retries | ingest, claim, resolve, fail, extend lease, sweep, drain pending unlock | connectors, Brain enrichment, vault personas | lease expiry under a slow Brain, locked personas, retry and dead letter | a memory enters a vault only where its persona is open or the owner granted it; none is reported stored and dropped |
| D2D `d2d/`, `transport/` | `d2d_outbox` rows: state, attempts, lease, expiry; nonce/replay caches, quarantine | sign, send, enqueue, claim, redeliver with backoff, recover on boot, receive pipeline, quarantine, dedup | relay, contacts, gatekeeper | posts whose answer is lost, drainers of an earlier session that run on, throws and restarts between claim and mark | callers are told the truth; one drainer has a row; a queued message is retried to an ending |
| Relay client `relay/` | socket, pending RPCs, idempotency cache | connect, authenticate, forward, RPC dispatch and reply, cancel | MsgBox, Core router | reconnects, replays after reconnect, cancel racing the handler | one handler run per request id, an ack only for what was taken |
| Interactive runs `run/` | `interactive_runs`, `run_reservations`, `run_messages` rows, staged copies of answers for a locked persona, dispatch outbox | reserve, ingest, hold, replay, skip, decide, barrier, terminate; classify, dispatch, complete | D2D queries, payload store, watch | slots fetched ahead, answers late and twice, locked personas, barriers that meet answers in flight, crashes inside a replay | positions reach the owner in order and each once; count and queue hold; a barrier stands; a run ends |
| Coordination `coordination/` | group plans, spokes, disclosures, bookings | open, fan out, fold, settle, widen, abandon | D2D, workflow approvals, reminders | late and changed answers of guests, settle then widen | both sides hold the same booking |
| Commitment kernel `commitment/` | value models, options, agreements, evidence chain | propose, revise, agree, attest | D2D, reminders | concurrent revisions | an agreement binds the revision both signed |
| Review publishing `review/` | `publish_jobs`: status, lease, attempts | enqueue, claim, write, reconcile, backoff, reclaim | PDS writer | crash after an external write | one record published per job |
| Watches `watch/` | `watch` tasks: `next_run_at`, filter | create, pause, resume, cancel, poll sweep | workflow repository, service queries | missed intervals, pause racing a tick | one fire per due time |
| Pairing, devices, sessions `pairing/`, `devices/`, `session/` | pending codes, device registry, sessions and grants | generate, complete, revoke, start, renew, end | auth, workflow claims | code reuse and brute force, restart | a code pairs once; an ended session grants nothing |
| Agent authority `agent/`, `gatekeeper/`, `approval/` | grants, gating policy, approvals | ask, approve, deny, consume, expire | workflow approvals | single-use consumption | authority is consumed once and never after revocation |
| A2A `a2a/`, `packages/a2a` | cards, permits, inbound children, dispatch bindings | accept, dispatch, settle, rotate keys | workflow tasks, gateway | effectful permits and lease loss | a permit is consumed once |
| Reasoning broker `reasoning/` | backends, contexts, jobs | register, select, claim, commit, revoke | workflow tasks | backend loss mid-job | one commit per job |
| Reminders, sync, services `reminders/`, `sync/`, `service/` | due rows, cursors, service configuration, windows | fire, snooze, pull, dedup, fail over | Brain, D2D | timers across restart, failover racing a late answer | one fire per occurrence |
| Vault, persona, memory, people, contacts, conversation, scratchpad | encrypted stores and their indexes | unlock, lock, store, query, merge | staging, gatekeeper | lock during use | data stays in its persona |
| Commerce `commerce/`, `packages/ucp`, `packages/commerce-protocol` | orders, quotes, tenders, ledgers | negotiate, order, settle, dispute | plugins, D2D | long-lived order life cycles | money and goods state agree |
| HTTP server, auth `server/`, `auth/` | nonce cache, rate limits, caller types | verify, route | all of the above | nonce reuse | a signed request acts once |

### Around Core

| Component | State | Operations | Hard |
|---|---|---|---|
| MsgBox relay `msgbox/internal` (Go) | per-recipient connection, SQLite buffer, nonce cache | register, route, deliver, buffer, drain, ack, cancel, expire | disconnect during drain, duplicate adds, cancel racing delivery |
| Brain `packages/brain`, `apps/home-node-lite/brain-server` | conversation turns, tool loops, staging processing | reason, delegate, consume events | retries of model calls |
| Home node composition `packages/home-node`, `apps/home-node-lite` | process wiring, sweepers | start, stop | start and stop order |
| AppView `appview` | `ingester_cursor`, the bounded queue and its pins, the spool, service and presence records, scores | receive, queue, handle, retry, spool, replay, save the cursor, score, query | events twice and out of order, saves that overtake each other, backpressure, a crash with events in flight |
| Mobile `apps/mobile` | screens, background sync | user interface | background limits of the platform |
| Agent daemon, CLI `cli` (Python) | claimed tasks, sessions | claim, execute, report, retry | network loss |
| Grants service `apps/grants-service`, PLC `services/plc` | accounts, quotas | issue, verify | - |
| Platform adapters `packages/{crypto,fs,keystore,net,storage}-*` | - | I/O | - |

## 2. Plan

Order of work, most important behaviour first.

| | Module | What it adds | Abstract specification | Proof |
|---|---|---|---|---|
| A1 | `WorkflowTask` (done) | the task life cycle under stale runners, sweeps, revocation and several Core workers | `TaskContract` (done) | invariants and refinement (done) |
| A2 | `ResponseBridge` (done) | the answer of a completed query: stash, send, retry, crash | `Reply` (done) | invariants and refinement (done) |
| B | `MsgBoxRelay` (done) | the relay and the recipient's connection: buffer, drain, ack, record, cancel | `Mailbox` (done) | invariants and refinement (done) |
| C | `StagingInbox` (done) | the way into the vaults: leases, retries, locked personas, the owner's cards | `VaultGate` (done) | invariants and refinement (done) |
| D | `D2DOutbox` (done), receiver | the sender's retry (done); the receive pipeline and its dedup over `Mailbox` | `Post` (done) | invariants and refinement (done) |
| E | `RunAdmission` (done), `RunDispatch` | a run's slots, answers, holds and end (done); risk gate, dispatch and completion of an approved action | `PositionLog` (done) | invariants and refinement (done) |
| F | `PublishJob` | write, crash, reconcile | publish-once | safety |
| G | `Ingester` of AppView (done) | cursor, queue, spool and record order | `ListingIndex` (done) | invariants and refinement (done) |
| H | `PluginGrant`, `Session` | single-use consumption, revocation | - | safety |
| I | `Pairing` | code life cycle | - | safety |
| J | `GroupPlan`, `Watch`, `Failover` | coordination and timers | - | - |

How the rest builds on what is there. The receiver of D composes `Post` and `Mailbox`: what the outbox may post more
than once, and the relay may hand over more than once, must act once. `RunDispatch` takes over a message where
`RunAdmission` settles it. F stands alone; it is another life cycle
of claim, external write and reconcile, for which `D2DOutbox` is the pattern. H refines the authority that A1
abstracts to one bit per task (`stale`), and composes with it. Each module is written without RECURSIVE operators so
that its invariants can be proved.

## 3. How the models relate to the code

A module has one variable per piece of state its properties can tell apart and one action per handler, statement or
turn that the scheduler can separate. What is one step in a model is one step in the code:

* Core runs on one event loop. Code between two awaits is one action; a call that awaits is split there
  (`ResponseBridge`: the send, each attempt to clear; `D2DOutbox`: each post; `StagingInbox`: between plan and
  resolve). SQLite transactions are one action. A read that precedes the transaction that uses it is a separate action
  when another connection may write in between (`WorkflowTask` with `SingleCore = FALSE`).
* A call of the staging service makes several writes in one turn. They are one action each, because each commits on its
  own and a crash may come between; no other call does (`Busy`, `TurnOf`).
* The relay serialises each recipient by its connection's lock, so a delivery, a cancel and an ack are one action; a
  drain holds the lock for many writes and is many actions with `draining` as the lock. The background sweep and the
  end of a read loop take no lock and interleave with it.
* The handlers of the ingester run in one database transaction under a lock per operator, so handling an event is one
  action, which may commit although the handler then throws.
* A replay of held answers is one turn of several transactions (`RunAdmission`): each row is an action, nothing but a
  crash or the clock comes between them (`Idle`), and the writes around a row's transaction may be cut off.
* Clocks become the comparisons the code makes of them: a lease is live or lapsed, an envelope is past its age or not.
  Time is an action that may happen whenever the comparison may change.
* Payloads, identifiers and texts are members of small sets. An envelope of the relay is its identity; an answer of
  the bridge is the task it answers; an event of the stream is its place, which orders time and revision alike.
* Some variables exist for the properties only and are grouped apart: `exec`, `applied`, `told`, `late`, `notices` in
  `WorkflowTask`; `known`, `forgotten`, `settled` in `ResponseBridge`; `settled`, `ran`, `forgot`, `handed`, `sent`,
  `accepted`, `cancelled`, `withdrawn` in `MsgBoxRelay`; `posts`, `taken`, `tries`, `overrun` in `D2DOutbox`; `applied`,
  `lost`, `unpinned` in `Ingester`; `torn` in `StagingInbox`; `twins` in `RunAdmission`; `listed` in `WorkflowTask`. No guard of an action reads them, with exceptions that stand for facts about the world: only an
  envelope that was sent can be cancelled or age, a claim that was minted (`exec`) is one that can report, and only a
  copy that was posted can arrive.

The definitions called "Mutant of ..." stand next to the definition they deviate from and are never used by it: they
are the plausible mistakes against which each property was tried.

## 4. The modules

| Module | Models | Code |
|---|---|---|
| `WorkflowTask` | rows of `workflow_tasks`, claims, reports, cancel, revoke, the lease and the expiry sweep | `workflow/{domain,repository,service}.ts`, `server/routes/workflow.ts`, `plugins/claim_guard.ts`, `plugins/install_service.ts` |
| `TaskContract` | what a delegated task promises, whoever executes it | abstract |
| `WorkflowTaskProofs` | theorems about the two | |
| `ResponseBridge` | recording, sending, clearing and retrying the answer of a query | `workflow/service.ts`, `workflow/bridge_pending_sweeper.ts`, `coordination/disclosure_egress.ts`, `reasoning/broker.ts` |
| `Reply` | what a node promises of the answers it owes | abstract |
| `ResponseBridgeProofs` | theorems about the two | |
| `MsgBoxRelay` | the relay's hub and buffer and one recipient's connection, memory and durable records | `msgbox/internal/{hub,buffer,handler}.go`, `packages/core/src/relay/msgbox_ws.ts` |
| `Mailbox` | an at-least-once mailbox | abstract |
| `MsgBoxRelayProofs` | theorems about the two | |
| `StagingInbox` | the staging inbox, Brain's drain of it and the owner's cards | `staging/{service,repository,state_machine}.ts`, `packages/brain/src/staging/drain.ts`, `server/routes/workflow.ts` |
| `VaultGate` | who lets a memory into a vault | abstract |
| `StagingInboxProofs` | theorems about the two | |
| `StagingCardProofs` | the theorem that every waiting row has its card | |
| `D2DOutbox` | sending to another Dina: the call, the outbox table and its drainers | `d2d/send.ts`, `transport/{outbox_repository,outbox,retry,delivery}.ts`, `packages/home-node/src/send_d2d.ts`, `apps/mobile/src/{services/boot_capabilities,storage/init}.ts` |
| `Post` | what a sender's outbox promises its callers | abstract |
| `D2DOutboxProofs` | theorems about the two | |
| `Ingester` | AppView's ingester: queue, cursor, spool, connection, and the handlers of service records | `appview/src/ingester/{bounded-queue,jetstream-consumer,service-liveness-ingest}.ts`, `handlers/service-profile.ts` |
| `ListingIndex` | an index that takes a record's revisions forward only | abstract |
| `IngesterProofs` | theorems about the two | |
| `RunAdmission` | an interactive run that pulls: slots, answers, holds and replays, losses, decisions, barriers | `run/{admission,ingest,held_replay,reservation,repository,service,domain,termination,message,plane,engine,locked_arrival}.ts`, `server/routes/run.ts` |
| `PositionLog` | positions delivered in order, each once, until the log is closed | abstract |
| `RunAdmissionProofs` | theorems about the two | |
| `MC...` | small instances of each | |

**WorkflowTask.** `task` is a row: status, class (what kind of runner, declared effects, consented idempotency),
holder, claim token, lease, attempt count, backoff, and three bits for clocks and authority (`overdue`, `closed`,
`stale`). Tasks are numbered in the order of `created_at`, which is the order claims draw in. Claim tokens are the
number of the claim, `Len(exec[t])`; a runner is whoever holds a token, and may report with it at any later time and
any number of times. `ClaimPlugin` is one Core's claim of the lane, with the rows it fails on the way; Core may die in
it. With several workers it is three transactions: the claim (`DrawPlugin`), whose caller read the install earlier,
and what the checks after it decide (`HandOver`, `FailStale`). An uninstall is `Revoke` on one Core, cut short by a
death or not, and `CloseLane`, `ListInFlight` and a cancel per listed task (`cut`) with several.
`Report` has the three outcomes of the route: refused by the guard, landed by compare-and-swap, or kept as late.

**ResponseBridge.** `answer` says where a task's answer is: none, due, or handed to the bridge. `bridging` is a turn
of the event loop that has committed an ending and not yet reached the record, so that a crash can fall in between.
`detached` is the first send of each task, `tick` the running pass of the sweeper with the rows it listed (`todo`).
Both use the same `OpStep`: send, then clear in up to `MaxClears` attempts. `pin` is `tickInFlight`, with the
promise it holds: the pass's own or the one of the call around it, which is what the code's comparison depends on.
`Withhold` and `StageWithheld` are the answers that the transformer or the egress gate keeps back without a card, by
throwing or by its verdict. Seen as `Reply`, a delegation's answer is owed while it is due or kept, on record or in the process, and frail while
only the process has it: between its ending and its record (`bridging`), and when no record could be made (`fallback`).

**MsgBoxRelay.** A row of the buffer is `none`, `kept` (no `delivered_at`) or `written`. A socket is `pending` after
its handshake, then in `pumps` while its read loop runs; `conn` is the one the hub knows; `kicked` are those the
relay closed. `sock` is the client's, `cut` says that it is half-open. `wire` holds what was written to the current
socket, `acks` what the client acked. An envelope in the client is `idle`, `asking` the durable store, `running` its
handler or `recording`. A *slip* is a write whose mark or delete is not made, because the store failed or the relay
died. A *fault* is a disconnect, a cut, a failed write, a crash or a restart. `turned` are the envelopes the client
left to the relay until the next connect. `Features` says whether the relay builds in play grant acknowledgements.

**StagingInbox.** A row of an item is `<<i, Own>>`, a copy that waits for a locked secondary persona `<<i, p>>`; a card
is named by row and persona, as `stagingApprovalId` names it. `parked` stands for `pending_unlock` and
`pending_approval`; which of the two it is, is `guarded`, whether `approval_id` is set. A caller (a drain of Brain, or
the connected brain's request `Door`) has a `job`: planned, writing, or thrown. A resolve is the set `todo` of its
writes, taken in the code's order; each may fail, and what then happens is the error path of that write: a vault that
rejects is noted, a card that is over throws, a copy that cannot be persisted first takes its cards back. Neither
resolve nor fail asks whose claim it is, so a drain whose lease lapsed acts on the row another holds; the model
leaves that open. `ruling` is the owner's decision on a card, in the order of the route: approve, claim, drain, mark,
complete; or cancel and deny. A *fault* is a crash, or a write of a row or of a decided card that throws; cards whose
decision it cut short are remembered in `torn`. A sweep is three statements, of which a death may leave the last undone.

**D2DOutbox.** `told` is what the caller of `sendD2D` knows. A post and its answer are separate steps, so that a copy
reaches the relay although its sender was told otherwise or died (`Straggles`). A drain has claimed rows it has not
begun (`batch`, as it read them) and the one it tries (`at`). A drainer that is stopped goes on with its drain: after
`Reboot` two may run. Posts have no timeout, so that a drain may outlast the minute of its rows' leases: an `Unlock`
beside it may reclaim rows it has in hand, which are then remembered in `overrun`. What a drain writes down of such a
row later asks neither its state nor its count (`Updated`); only the index on active keys may refuse it (`Refused`).

**Ingester.** The cursor in memory, saves on their way (`saving`, which land in any order) and `saved` are three things.
An event is pinned by the queue, by `inFlight` or by `failed`; the code keeps sets of times, so that the `finally` of
a failed attempt also clears the pin its own retry has just set, and the model does the same. Drain starts at once on
a push when it is not running, and polls otherwise. The spool is written when the queue is full and read only by the
next start. `lost` is what the code gives up: events dead-lettered, over the spool's quota or age, or in a spool line
that failed. The cleanup that forgets failures older than an hour gives nothing up: an event that it leaves without any
pin while its retry runs is remembered in `unpinned`.

**RunAdmission.** A slot is a row of `run_reservations` for its whole life (`res`), with the message that came of it
(`msg`: none, waiting for the owner, or past that). `staged` is the sealed copy of a held answer, which may spoil.
`Commit` is the transaction both handlers share: the guard of the cursor, the loss at this position that it makes up
for, the positions beyond it that were given up, the pause, the message, and the barrier of the count. `Barrier` is the
other one: it closes the slots (`Closed`) and, if fencing, ends what waits (`Fenced`). `pass` are the rows the running
replay still has to visit. `KeyOf` says which message ids are copies of one message; `twins` are the slots that held such
a copy when the owner got the message under another id. The staged copies of slots that a
barrier closed stay until `Sweep`. Positions need no bound of their own, as a slot is needed to pass one.

## 5. The runs and their bounds

| Run | Question | Bounds | States |
|---|---|---|---|
| `wf_workers` | safety, action properties and the contract with several Core workers, whose reads and writes interleave | 1 task of any class, 2 agents, 3 attempts, 3 claims | 1.2 million |
| `wf_silent` | does everything overdue end, does the lane move, on one Core whose runners never report | 2 tasks of two plugin classes, 2 attempts, 1 drained row per claim, a Core that may die in a claim or an uninstall | WFS |
| `rb_bridge` | safety of the bridge, the promise of an answer, and whether a recorded answer is sent again by a host that starts its sweeper | a delegated and a reasoning task, 2 clearing attempts, any store failure, crashes | 294 thousand |
| `mb_acking` | safety of relay and client, and the mailbox | a request without `expires_at` and its cancel, 2 sockets, 2 faults, 1 slip, 1 remembered envelope | 1.5 million |
| `mb_live` | does the buffer drain | a request and a message in a buffer of one row, 2 sockets, 1 fault, both kinds of relay build | 268 thousand |
| `st_inbox` | the gate and the cards | 1 item of two kinds, 2 personas, a drain and the exact-row request, 1 retry, 1 fault, any failing write of a vault, copy or new card | 2.1 million |
| `st_settles` | do endings stand, does an item end or fail without a sweep | 1 persona, 2 drains and the request, 2 retries, 1 fault, 2 lapses under a drain | 101 thousand |
| `dd_outbox` | one drainer per row, no unbounded resends, the promise to callers, and whether rows end | 2 calls of one key, 2 drainers, batches of 2, 2 attempts, 1 restart or unlock, 1 re-boot or throw | 941 thousand |
| `ig_ingest` | cursor, index and settling | 3 events, 2 slots, a queue of 1, 2 tries, 1 event of overshoot, 1 fault | 1.4 million |
| `ra_admit` | safety of a run and its log | 3 slots, a message under two ids and another, caps of 1 and 2, 2 messages counted as produced | 1.8 million |
| `ra_ends` | does the run end, are staged copies destroyed | 2 slots, a message under two ids and another, 1 message counted as decided | 140 thousand |
| `rb_sweeper` | does a started sweeper retry (no: section 8) | 1 task, 1 clearing attempt | |

Why these bounds are enough to be interesting. Three claims of one task are the least with which a stale runner can
report between two newer ones, and the attempt budget of three is the code's. One task suffices for safety because
no row's transition looks at another row except the order of claims, which is what `wf_silent` uses two tasks for:
one at the head of the lane and one behind it, with a drain of one row per claim, so that the limit is reached. In
the bridge the passes meet the first send with one task and sends of other tasks with two; two clearing attempts
separate the first failure from the last. In the relay two sockets are an old and a new connection, and a socket that
nothing refers to any more is used again for the next; two faults are enough for a crash of one side and a disconnect
or restart in recovery; a memory of one envelope is full with the second; a request
without `expires_at`, which the envelope's type allows, is one that only the relay's time to live ends, so that a late
copy of it would run, while its cancel is one that the client drops when late; a buffer of one row refuses. In the
inbox two personas are a primary and a secondary one, either of them open or not; rows of different items never meet,
so that the interesting pair is two callers of one item, and two lapses let the row pass between them and back; one
fault is enough, since the next resolve or decision starts from what it left. In the
outbox two attempts separate a failure from the last one, one restart leaves a drain's rows behind and one re-boot a
drainer. In the ingester a queue of one is full with the second event and resumes at zero, the third event overtakes
the retry of the first, and streams put, delete and put again, or announce and withdraw. In a run three
slots are one at the cursor, one ahead and one that fetches again what the first lost, and a count of two is reached by
a slot that is ahead; two ids of one message beside another one let a copy be held while the other is admitted.
The theorems of section 7 hold without these bounds; type correctness is left to them and listed
by no run. `CHECK_DEADLOCK FALSE` is set where the system may come to rest: all tasks,
items or rows ended, or all envelopes or events handled and no fault left. Symmetry is used for agents, sockets,
personas, slots and the two ids of one message only, in runs without liveness properties.

Each property of a passing run was also tried against a mutant of the code, listed in `PROJECT.json`.

What the passing runs show, beyond the absence of an error: that a report which lost its lease never lands, whoever
claimed in between (`StaleNeverApplied`); that the four writers of endings announce one ending, the committed one
(`OneTerminalNotice`); that nothing is dispatched again that its owner did not consent to (`NoBlindRedispatch`); that
the two sweeps, one of which spares live leases and the other of which requeues lapsed ones, leave no overdue task
(`OverdueEnds`); that an answer is recorded before it is sent and a pass that lists afresh repeats no delivery that
was over (`FreshScanNeverResends`), an answer that is struck is not owed again and one that crashes take was in memory
only (`ImplementsReply`); that no disconnect, cut, crash, failing store or full buffer loses an envelope
(`NothingLost`), makes its handler run twice without a crash of the client in between (`HandledOnce`), or lets the
relay forget it before the record is durable (`AckedIsRecorded`). That a memory is written where its persona is open at
that moment or the owner granted it, however stale the caller's view and wherever a call is cut off
(`ImplementsGate`), that the only way from a card to a vault is its approval (`ApprovalAloneFrees`), and that a late
call of a lapsed claim takes up nothing that has ended (`EndingIsFinal`); that a row waits for the owner under a card
that stands, unless a fault cut its own decision short (`WaitingRowHasItsCard`), and that an item needs no sweep to
come to its end or to a failure (`NeedsNoSweep`). That the drain a re-boot leaves behind never shares a row with the new
one, unless an unlock takes a row from a drain that has it (`OneHolder`), that such a row is tried no more than its
tries over again (`ResendsBounded`), and that callers of `sendD2D` are told the truth through crashes, throws,
unlocks and lost answers alike (`ImplementsPost`). That an uninstall is final for each task it has listed and
cancelled, wherever other workers' claims and reports fall (`NothingAppliedAfterRevoke`). That a message the owner has
is turned away when it comes again, under its id or another (`RepeatsTurnedAway`). That retries, spool and saves out of order move no
cursor past what is still owed (`CursorNeverPasses`), and events in any order, some twice, bring no record back
(`ImplementsIndex`). That a run's positions reach the owner in order and each once, although they are fetched ahead,
held, lost, repaired and skipped in any order (`ImplementsLog`), that slots, holds and messages share one budget
(`CountBudget`), and that a paused, locked or undecided run still ends (`RunEnds`).

## 6. Fairness

* `WorkflowTask`: the two sweeps are interval timers that run while Core is up, so both are weakly fair. A connected
  plugin runner polls and backoffs end (`Polling`). No runner, owner, clock or authority change is obliged to act:
  `wf_silent` even forbids reports (an action constraint, which cuts only steps no fairness condition mentions), and
  lets leases and deadlines pass or not.
* `ResponseBridge`: a running process continues its turns, a send settles by `BRIDGE_SEND_TIMEOUT_MS`, a clear is one
  of finitely many attempts (`Turns`). `Start` and `Interval` are weakly fair (`Passes`), since every host starts the
  sweeper when it comes up (`packages/home-node/src/workflow_plane.ts:336`, `apps/mobile/src/services/bootstrap.ts:1790`);
  nobody is obliged to drain by hand, as only tests do. Crashes may come, but not for ever: `RecordedIsResent` speaks of
  what the store holds when the process has come up after the last and is about to start the sweeper. That one pass is
  all it gets, `rb_sweeper` shows. Whether a send succeeds is never assumed; nor is it needed for what the property says.
* `MsgBoxRelay`: the client reconnects (its backoff loop never gives up), the relay registers and drains what
  connects, both read what arrives and the keepalive notices a dead socket (`LeaveDead`). Senders, ages, slips and
  faults are not fair, and a store that refuses for ever is covered by the exception for `turned`.
* `StagingInbox`: a drain keeps its ticks, and a turn of Core runs to its end. Drains are strongly fair, because they
  compete for Core's event loop: a request served between other requests is disabled while each of them runs, again
  and again, and the loop serves its callers in turn. The sweep has no fairness, because nothing in the repository
  calls it; `NeedsNoSweep` says what holds all the same.
* `D2DOutbox`: the drainer's timer ticks, a running drain goes on, a post is answered or fails, and backoffs pass. No
  copy is obliged to arrive, and nothing restarts.
* `Ingester`: the stream delivers what the socket does not hold back, drain polls and some handler ends, and a lost
  connection is dialled again. Saves, cleanups and stops are not fair.
* `RunAdmission`: the TTL and the drain deadline pass, a replay that has begun goes on, and the timers of the two sweeps
  fire (strongly fair, since the event loop serves them between replays, which the model lets come again and again).
  Owner, provider, unlocks, crashes and pauses are not fair: `RunEnds` holds with a provider that never answers.

## 7. What is proved

TLAPS checks the theorems for every value of the constants that satisfies the assumption named in each module
(numbers are numbers, the device is not an agent, cancels name requests, `None` is no socket). Each proof module
states one inductive invariant, shows that `Init` implies it and that every action keeps it, and derives the theorems;
together they are 60 listed theorems and some OBL obligations. Those about properties that no run
lists say more than the runs do, where a proof was within reach.

**WorkflowTaskProofs.** The invariant (`IInv`): claims of a task are numbered without gaps; the row names the newest
claim exactly while it runs, and forgets it when requeued; the attempt column counts the claims, and a non-idempotent
plugin task has one at most; an ending was announced once, and no ending was announced of a row that has none; a
report that ended a plugin task was the newest claim's. It is needed because a property such as `StaleNeverApplied`
says nothing of a running row, from which the next report lands. Proved: `TypeOK`, `StaleNeverApplied`,
`OneTerminalNotice`, `NoBlindRedispatch`, `UnknownMeansClaimed`, `ClaimIsNewest`, `EndingIsFinal`, and that the
detailed model implements `TaskContract`, all for one or several workers; `StartedEffectKept` assuming `SingleCore`. The
action properties follow from it: `LiveExecutorGrace` from the guards alone, `NothingAppliedAfterRevoke` with one more
invariant, that what an uninstall has listed and is through with has ended (`LaneShut`): with several workers it is
struck off only by a cancel that has ended it or found it ended. A claim drawn by a Core that then died stands as
running although no runner has it, so that `UnknownMeansClaimed` speaks of claims, and on one Core only excludes those
the guard refused.

**ResponseBridgeProofs.** The invariant (`BridgeInv`): a delegation is bridged once; its answer is recorded in one
place; `bridgeInFlight` says what is being sent; a delivered answer whose record still stands is in flight or awaits
its clear; a delivery that was over when the pass listed is skipped by it. Proved: `TypeOK`, `OneSendAtATime`,
`NothingLost`, `ReceiptMeansDurable`, `FreshScanNeverResends`, and that the bridge implements `Reply`. The refinement
needs one more invariant: an answer that a crash took is in no table, set, card or send (`LostInv`), so that nothing
brings it back. Delivery and strike of the record are two steps of the promise, the record comes between, and a crash
between them is where the promise forgets an arrival. `NeverOwedAgain` then follows from `Reply` alone.

**MsgBoxRelayProofs.** The invariant (`RelayInv`): what is buffered, written, handled or past was taken once
(`Known`); what is remembered, recorded or acked was handled (`Handled`); on connections that acknowledge, what is
remembered or acked is on record or past, and a run the client did not forget in a crash is on record, on its way
there, held in memory for a second attempt, or beyond the reach of any copy (`Recorded`, `Once`); only the hub's
connection is open, and what was never written waits only for the drain that has read it (`HubInv`); what was never
written is unknown to the client (`UnseenInv`). Proved: `TypeOK`, `NothingLost`, `OnlineNeverWaits` and
`WithdrawnNeverRuns` for all relay builds; `AckedIsRecorded`, `HandledOnce` and the refinement of `Mailbox` when all
builds grant acks (`Features = {TRUE}`). Without that assumption `HandledOnce` and the refinement do not hold, as a
connection that does not acknowledge keeps no copy and no record. For all builds it is also proved that the buffer and
the client's memory keep to their limits through drains, re-inserts and prunes (`WithinLimits`), and that an envelope
whose copy is gone never has one again (`NoCopyReturns`).

**StagingInboxProofs.** Type correctness (`TypeInv`) already needs that a busy caller has an item, whose plan
names its primary persona (`HandsOK`), and that a row that may still be tried has retries left (`RetriesLeft`), so that
no path lets it fail more than `MaxRetries + 1` times. The invariant (`IInv`): one turn at a time; a plan has
written nothing; a call in its writes still has its row classifying, reaches only personas that are open, has in the
vault what it counts as kept, and when it closes the row every copy is made; a ruling that drains has the owner's yes
or an open persona and no card. It is needed because each of the properties is about the last of several writes, and
holds by what the first ones looked up. Proved: `TypeOK`, `StoredIsSomewhere`, `EndingIsFinal`, `ApprovalAloneFrees`
and the refinement of `VaultGate`.

**StagingCardProofs.** `WaitingRowHasItsCard` relates a row to a card that another table keeps, and each turn writes
both, the card first. The invariant (`KInv`) follows the turn: a resolve that reaches its copies or its close has asked
for every card it needs, or takes everything back; a card that is approved is in the hands of its ruling; a ruling that
ends its card has moved the row. A crash or a failing write may part the two writes, at most once for each card: what it
leaves behind is an approved card of its own (`torn`), and nothing else of the invariant needs to be given up.

**D2DOutboxProofs.** The invariant (`Inv`): a call without an answer has no row (`RowsFollow`); rows in a drain's hands
are being sent, as they were read, in no other hands (`BatchHeld`, `AtHeld`); tries exceed attempts by no more than
the restarts (`Counted`); a copy that has arrived was taken (`Arrived`). Of a row that an unlock took from its drain
(`overrun`) it keeps only that a drain which has it runs and has counted its try. How often such a row is tried needs
an argument of its own: each drain that has it, and the row itself while it waits, gives the right to the tries from the
count it knows to the last; a failure written late moves rights about and makes none, and only a restart or an
unlock adds a set of them (`Allowed`). Proved, for any interleaving of unlocks with drains: `TypeOK`, `OneHolder`,
`ResendsBounded` and the refinement of `Post`, in which a row that was taken may be owed again. From the refinement it
follows that no ended row becomes active again but one that was taken (`NoRowRevives`), and that no two active rows
share a key at all (`OneRowPerKey`), for which the index is needed. Whatever a call or a row says was sent, the relay
took, and every copy is accounted to the call or to a counted try (`SentTruly`): two drains that ship one row repeat a
message, but tell no lie about it.

**IngesterProofs.** The invariant (`IInv`): what was received and is not accounted for is pinned (`Received`,
`Streamed`); every event below the cursor in memory, below any save on its way and below the saved one is accounted
for (`Behind`); what is pinned was seen (`Known`). All of it excepts events whose last pin the cleanup
dropped while their retry ran (`unpinned`), as the properties do by name. It is needed because a save lands long after the pins it was
computed from are gone. Proved: `TypeOK`, `CursorNeverPasses` and the refinement of `ListingIndex`. The refinement says
that the index goes forward only; that it goes to the right place is `IndexMirrors`: of each record it shows what the
newest handled event says, in whatever order and however often events were handled. With the cursor this gives
`NothingMissing`: below the saved cursor the index lacks only what waits on disk, was given up or lost its pins.
`NobodyForgets` is the same for the living process: every event is settled, pinned, still to come, or one of those.

**RunAdmissionProofs.** The invariant (`Inv`): a message stands under a committed reservation; what is admitted lies
below the cursor, every position below it is admitted or given up, and the cursor's own is not given up
(`Delivered_Below`, `Filled`, `Skipped_Passed`); and the four properties themselves, of which the budget is needed to
show that the commit that reaches the count finds no other slot open, so that no replay goes on over closed rows
(`LastSlot`). Most actions open no slot and admit nothing; what such a `Quiet` step keeps is proved once
(`QuietKeeps`), and `Reserve`, the commit (`Settles`) and `SkipLost` on their own. Proved: `TypeOK`,
`CountBudget`, `BarrierClosesSlots`, `OneSlotPerPosition`, the action properties `QueueBounded` and `BarrierMonotone`,
and the refinement of `PositionLog`, for any number of slots, messages and counts. Of the messages: what the owner was
given stays where it is (`MessageStays`), and before it every position was delivered or given up (`NoGapBefore`). Of
the answers that are held: each has its staged copy, which is destroyed only behind an answer that is no longer
waiting (`HeldHasCopy`, `CopyStays`), and it stays held until its own message is committed, the copy is found
unreadable or a barrier lets it go (`HeldEndsWell`); that an open run takes it up again in time is what the code
does not ensure (`HeldIsAdmitted`, section 8). Of messages that come again: `RepeatsTurnedAway`, from the invariant that a held copy of a message the owner
has was held before, under another id (`TwinsNoted`). Last, the model looks at one position per slot and one more:
`PositionsSuffice` proves that this keeps no commit, skip or fetch from happening.

Left to TLC: all liveness (`OverdueEnds`, `LaneNeverStarves`, `RecordedIsResent`, `EveryEnvelopeLeaves`,
`NeedsNoSweep`, `RowsEnd`, `EveryEventSettles`, `RunEnds`, `StagedCopyDestroyed`), which the prover cannot handle under
fairness.

## 8. What the checks found

One run checks a sentence of the code's own documentation that the code does not meet, with a trace of a few steps;
`PROJECT.json` quotes it.

* `rb_sweeper`: a started sweeper runs one pass. `start` and the interval overwrite `tickInFlight` with another promise
  than the one the pass compares it with when it ends, so every later call returns the first pass.

Six more properties state such sentences. No run of the project lists them, so that each of its runs asks a question of
its own; add one to the named configuration, as an invariant or a property, and TLC shows the trace.

* `HeldIsAdmitted` (`MCRunAdmission.cfg`): a held answer that an unlock finds before its turn, because the slot before it
  is still in flight or the run is paused, is deferred to the next unlock or boot. When its turn comes nobody takes it
  up, and since its position has a slot the run fetches nothing there and stands still (`run/held_replay.ts:218`;
  `run/ingest.ts:154` says "it will be admitted exactly-once on unlock").
* `SkippedNeverFetched` (the same with four slots and `Basis = "none"`): a loss that the owner skips before the cursor has
  reached it is fetched again, since `reserve` looks at open slots only (`run/admission.ts:186`; `run/repository.ts:93`
  says "no reservation is ever handed that cursor again"). It is never admitted.
* `OneAdmissionPerKey` (`MCRunAdmission.cfg`): two copies of one message under two ids that both arrive while the persona
  is locked are both admitted by the replay, which compares message ids only (`run/held_replay.ts:159`;
  `run/ingest.ts:306` calls the second "a duplicate").
* `LossPauses` (`MCRunAdmission.cfg`): a crash between the writes of `markLost` leaves a lost answer without the pause it
  should bring, and no later replay looks at it (`run/held_replay.ts:252`, `server/routes/run.ts:673`).
* `NeverShippedByTwo` (`MCD2DOutbox.cfg`): two drainers ship one row. A drain claims up to 25 rows under one lease of 60 s
  and posts them one by one without a timeout. A vault sealed and unlocked in the running process runs
  `recoverOutboxOnBoot` beside that drain (`apps/mobile/src/storage/init.ts:537`) and reclaims the rows whose lease has
  run out in the drain's hands (`storage/schemas.ts:452` says "so two drainers can't ship the same row",
  `transport/retry.ts:142` that claiming "prevents double-delivery"). The first drain's late `markFailed` is an UPDATE by id
  (`transport/outbox_repository.ts:213`): it writes an older count over a newer one, and may make a row active again
  that was sent. `ResendsBounded` and `ImplementsPost` say how far this goes.
* `NeverPastUnprocessed` (`MCIngester.cfg`): a retry that starts at once sets its pin before the failed attempt's `finally`
  clears it (`bounded-queue.ts:229`), so that it is pinned as a failure only; the hourly cleanup drops that pin of an
  event older than an hour, and the cursor passes an event in flight (`bounded-queue.ts:16` says "we never
  advance the cursor past events that haven't been fully processed").

More facts came up while reading the code for the models. No run claims them; the models allow what the code does.

*Tasks and bridge.*

* A stale report that the route's guard refuses (403) never reaches `recordLateReport` and is not kept as evidence.
* A started effectful task with the idempotency contract, requeued and then cancelled or expired while it waits, ends
  plain cancelled or failed, where the comment on `OutcomeUnknown` has it parked.
* With several Core workers a cancel that read its task queued ends a since-claimed effectful one plain cancelled (why
  `StartedEffectKept` is stated for one Core).
* The retry loop sends from the rows it listed; a delivery that completed and was cleared while the loop awaited
  another send is repeated, against `workflow/service.ts:1147`. A reasoning commit replayed without its receipt stages
  its answer again after the first was delivered and cleared.

*Relay.*

* A copy that was written but not marked counts as never written: its cancel deletes it and is not relayed although
  the recipient runs the request (comment at `msgbox/internal/hub.go:242`).
* An envelope taken from a relay without acks and finished on one that grants them is acked without a record (why
  `AckedIsRecorded` is stated for relays that grant acks).

*Staging.*

* No host calls the staging sweep (`NeedsNoSweep` says what holds without). `registerAllTasks` (`apps/mobile/src/hooks/useBackgroundTasks.ts:120`) would
  schedule it and has no caller, so that a failed item is not retried (`staging/service.ts:8`), a claim of a drain that
  died is not taken back, and nothing expires. `drainForPersona` has no caller in production either; a parked row
  without a card waits for ever.
* A row follows its primary persona: it says `stored` although that vault rejected the write, when a secondary one took
  it or waits for it.
* After a resolve took its cards back, the card's state makes every retry of that resolve fail.
* A fault between a card's approval and its drain leaves the row parked under a card that cannot be approved again;
  one between `denyApproval` and the card's failure leaves a card whose row is failed; one between cards and rows
  leaves cards without a row. A row whose mark fails after its vault took it is refused, although the memory is kept.
  `WaitingRowHasItsCard` excepts a card whose own decision was cut short, and cards that were taken back.

*Outbox.*

* A redelivery that the relay buffers counts as a failure (`packages/home-node/src/send_d2d.ts:147`), where the first
  send counts it as delivered or queued with the relay: a message for someone offline is posted again under new ids,
  up to five times, and dead-lettered although the relay holds copies. The stable message id is dropped on the way.
* Expired rows are neither claimed nor dead-lettered (`transport/outbox.ts:35` says they are), and keep their state.
* A row that was being sent when its drain threw, or when the process restarted within the minute of its lease, stays
  `sending` until a later start and blocks its key meanwhile (`Stranded`).

*Ingester.*

* `replaySpool` takes every failure of a line for a malformed event and deletes the file, also after a failure that
  would pass. The spool is read by a start only and deleted after a day.
* Events rejected while the trust switch is off are passed by the cursor, although the comment at
  `jetstream-consumer.ts:757` says that resuming replays them.
* Required events reach the spool after all when their retry meets a full queue.
* Before a first cursor is saved a crash loses what was received.

## 9. What is not modelled

The components with status `not_modelled` in `PROJECT.json`, each with its reason. In the modelled ones:

* `WorkflowTask`: parking for input and A2A permits, progress notes, claims of the reasoning, approval, service-query
  and watch kinds, which share the table but not the life cycle; the drain authorisations of a plugin update are part
  of `stale`; revocation of the device (`devices/registry.ts:525`), which pauses the install and cancels what is in flight in the
  same steps as an uninstall; a DELETE or
  an event that fails within a transaction; delivery of events to consumers. `MaxClaims` bounds the exploration of
  generic tasks, whose attempts the code does not bound. The 24 h retry window is a bit that may close at any time; no
  property says that it closes in time, only that attempts are bounded. The constraint of `wf_silent` cuts reports, so
  that `StartedEffectKept` with reports is shown by its theorem alone.
* `ResponseBridge`: unreadable stashes, the batch limit of 50 and the order of a pass, the owner's manual answer, what a
  timed-out send does later (it counts as over, although it is not cancelled), what a record contains. The reasoning lane is excluded from `OneSendAtATime` and
  `FreshScanNeverResends`, since its commits stage without looking at sends.
* `MsgBoxRelay`: authentication, rate limits, nonces of the HTTP door, the order of a drain, the effect of a cancel on a
  running handler, D2D decryption and its replay cache, requests of this client to others, a read of the
  buffer that fails when a drain begins (its rows wait for the next connect), a DELETE that fails in a cancel. One recipient is modelled:
  no state but the database is shared between recipients. `Prune` assumes the hour by which records outlive the
  relay's copies to be longer than a drain. Envelope identifiers are fresh per send, as all senders in the repository
  make them. The set of remembered envelopes may forget any other entry to take one, which includes the oldest.
* `StagingInbox`: `markPendingApproval` and `resumeAfterApprovalGranted`, the data scopes that keep rows of different
  lanes apart, repair and quarantine of corrupt rows, reminders and other effects after a store, with the await between a drain and its card's completion, deduplication of
  ingest beyond one row per item, what a classifier or an enrichment computes. Rows of different items share no state
  but personas, and are modelled one or few at a time.
* `D2DOutbox`: the receive pipeline with its nonce cache, quarantine and gates; egress gates before a post, which only
  add ways to be denied; the WebSocket path, which every host turns off; the windows in which a provider's service
  answers. Backoff and expiry are comparisons that may change at any time. Mailbox is not composed with it: which of
  the copies act, is the receiver's question.
* `Ingester`: account events, rate limits and the kill switch with the reconcile queue they fill, the A2A directory, PDS
  gates, collections of the trust network, which have no revision guard, scoring and queries. A forced save of a
  cursor that has not moved is left out, as it writes what an earlier save wrote. The model starts with a saved
  cursor and an empty spool.
* `RunAdmission`: the cadence of fetches, provider grants and the pause they bring, push transports, classification, the
  risk gate, dispatch and completion of actions (a message is past as soon as it is decided or has expired), receipts of
  the owner's commands, encryption and erasure of payloads, spool blobs no row refers to. `ra_admit` counts messages as
  produced; the other basis is checked in `ra_ends` and proved. Runs share no state but the
  persona and are modelled one at a time. `max_count` is fixed, as no route changes it.
