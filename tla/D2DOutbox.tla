------------------------------- MODULE D2DOutbox -------------------------------
(***************************************************************************)
(* Sending a message to another Dina: sendD2D (packages/core/src/d2d), the *)
(* durable outbox behind it and the drainer that works it off              *)
(* (packages/core/src/transport).                                          *)
(*                                                                         *)
(* A call posts its message to the recipient's relay.  When no answer says *)
(* that the relay has it, the message becomes a row of the outbox, unless  *)
(* an active row has its key.  A drainer claims the due rows, tries them   *)
(* one after the other under new message ids, and writes down how each     *)
(* try ended.  A row fails with a backoff until its tries are used up.     *)
(*                                                                         *)
(* A post and its answer travel apart: a copy may reach the relay although *)
(* its sender has given it up or has died.  What the relay does with the   *)
(* copies it takes is Mailbox.  Every host turns sendD2D's path over the   *)
(* socket off (relay/msgbox_boot.ts:175), so that a post is the only way.  *)
(*                                                                         *)
(* A row's lease is read at start-up and unlock only, so that a lease is   *)
(* no state here: either chooses which of the leases have run out.  No     *)
(* post has a timeout, and an unlock does not ask whether a drain is still *)
(* at a row: what it takes from one is remembered in overrun.              *)
(***************************************************************************)
EXTENDS Naturals, FiniteSets

CONSTANTS
  Calls,         \* calls of sendD2D, each with the row it may become
  Key,           \* the idempotency key of each call
  Drainers,      \* handles of startOutboxDrainer, reused when idle
  None,          \* no try
  MaxAttempts,   \* MAX_ATTEMPTS
  BatchLimit,    \* DRAIN_BATCH
  MaxRestarts,   \* bound: restarts of the sender's process, and unlocks in it
  MaxUpsets      \* bound: drainers restarted, and drains whose store throws

ASSUME OutboxConstants ==
  /\ DOMAIN Key = Calls
  /\ None \notin [call : Calls, attempts : Nat, stage : {"posted", "reached"}]
  /\ {MaxAttempts, BatchLimit, MaxRestarts, MaxUpsets} \subseteq Nat
  /\ MaxAttempts > 0 /\ BatchLimit > 0 /\ Drainers # {}

VARIABLES
  told,      \* new, posting, reached (posted, and the relay has it), or the answer
  row,       \* the outbox table
  timer,     \* the drainer whose timer runs
  running,   \* drainers in the middle of a drain
  batch,     \* rows a drainer has claimed and not begun, as it read them
  at,        \* the row it is trying
  posts,     \* copies of each message that were posted
  taken,     \* copies of it that the relay took
  tries,     \* tries of its row that were begun
  restarts, upsets,
  overrun    \* history: calls whose row an unlock took from a drain that has it

sender == <<told, row>>
drains == <<timer, running, batch, at>>
relay  == <<posts, taken, tries>>
faults == <<restarts, upsets, overrun>>
vars   == <<sender, drains, relay, faults>>

NoRow == [state |-> "none", attempts |-> 0, due |-> FALSE, late |-> FALSE]

Active == {"pending", "sending", "failed"}

First == CHOOSE d \in Drainers : TRUE

Init ==
  /\ told = [c \in Calls |-> "new"] /\ row = [c \in Calls |-> NoRow]
  /\ timer = First /\ running = [d \in Drainers |-> FALSE]
  /\ batch = [d \in Drainers |-> {}] /\ at = [d \in Drainers |-> None]
  /\ posts = [c \in Calls |-> 0] /\ taken = [c \in Calls |-> 0]
  /\ tries = [c \in Calls |-> 0]
  /\ restarts = 0 /\ upsets = 0 /\ overrun = {}

---------------------------------------------------------------------------
(* The call *)

\* sendD2D up to the answer of its first post.
Send(c) ==
  /\ told[c] = "new"
  /\ told' = [told EXCEPT ![c] = "posting"]
  /\ posts' = [posts EXCEPT ![c] = @ + 1]
  /\ UNCHANGED <<row, drains, taken, tries, faults>>

Reach(c) ==
  /\ told[c] = "posting"
  /\ told' = [told EXCEPT ![c] = "reached"]
  /\ taken' = [taken EXCEPT ![c] = @ + 1]
  /\ UNCHANGED <<row, drains, posts, tries, faults>>

\* The relay has delivered or buffered it, and its answer arrives.
Sent(c) ==
  /\ told[c] = "reached"
  /\ told' = [told EXCEPT ![c] = "sent"]
  /\ UNCHANGED <<row, drains, relay, faults>>

\* Mutant of ActiveWith: a row being sent does not count as active.
WaitingWith(k) == {c \in Calls : Key[c] = k /\ row[c].state \in {"pending", "failed"}}

\* findActiveByIdempotencyKey
ActiveWith(k) == {c \in Calls : Key[c] = k /\ row[c].state \in Active}

\* No answer, or a refusal: the message is queued, maybe as the row that has its
\* key, or the store fails and the caller hears that it is lost.
NotSent(c) ==
  /\ told[c] \in {"posting", "reached"}
  /\ \/ /\ told' = [told EXCEPT ![c] = "queued"]
        /\ row' = IF ActiveWith(Key[c]) # {} THEN row
                  ELSE [row EXCEPT ![c] = [NoRow EXCEPT !.state = "pending", !.due = TRUE]]
     \/ /\ told' = [told EXCEPT ![c] = "lost"]
        /\ UNCHANGED row
  /\ UNCHANGED <<drains, relay, faults>>

---------------------------------------------------------------------------
(* The drainer *)

Due == {c \in Calls : row[c].state \in {"pending", "failed"} /\ row[c].due /\ ~row[c].late}

\* The rows as the claim leaves them.
Claimed(S) == [c \in Calls |-> IF c \in S THEN [row[c] EXCEPT !.state = "sending"] ELSE row[c]]

\* claimDue, up to its limit; which rows come first is their due times' matter.
Claims ==
  {S \in SUBSET Due : Cardinality(S) = BatchLimit \/ (S = Due /\ Cardinality(S) < BatchLimit)}

\* A tick of the timer that finds no drain of its own running.
Tick(d) ==
  /\ timer = d /\ ~running[d]
  /\ running' = [running EXCEPT ![d] = TRUE]
  /\ \E S \in Claims :
       /\ row' = Claimed(S)
       /\ batch' = [batch EXCEPT ![d] = {<<c, row[c].attempts>> : c \in S}]
  /\ UNCHANGED <<told, timer, at, relay, faults>>

\* The rows a drainer has in hand, as it read them.
Hands(d) ==
  batch[d] \cup (IF at[d] = None THEN {} ELSE {<<at[d].call, at[d].attempts>>})

Held(c) == \E d \in Drainers : \E b \in Hands(d) : b[1] = c

Trying(d, stage) == at[d] # None /\ at[d].stage = stage

\* redeliverFn for the next row: its recipient is resolved and sendD2D posts it,
\* without enqueueing and under a new message id.
Repost(d) ==
  /\ at[d] = None
  /\ \E b \in batch[d] :
       /\ batch' = [batch EXCEPT ![d] = @ \ {b}]
       /\ at' = [at EXCEPT ![d] = [call |-> b[1], attempts |-> b[2], stage |-> "posted"]]
       /\ tries' = [tries EXCEPT ![b[1]] = @ + 1]
       /\ posts' = [posts EXCEPT ![b[1]] = @ + 1]
  /\ UNCHANGED <<sender, timer, running, taken, faults>>

RepostReaches(d) ==
  /\ Trying(d, "posted")
  /\ at' = [at EXCEPT ![d] = [@ EXCEPT !.stage = "reached"]]
  /\ taken' = [taken EXCEPT ![at[d].call] = @ + 1]
  /\ UNCHANGED <<sender, timer, running, batch, posts, tries, faults>>

Tried(d) == at' = [at EXCEPT ![d] = None] /\ UNCHANGED <<timer, running, batch>>

\* An UPDATE by id, whatever has become of the row meanwhile: a swept one is gone.
Updated(c, x) == row' = IF row[c].state = "swept" THEN row ELSE [row EXCEPT ![c] = x]

\* markSent
MarkSent(c) == Updated(c, [row[c] EXCEPT !.state = "sent"])

\* The relay delivered it at once.
Delivered(d) ==
  /\ Trying(d, "reached")
  /\ MarkSent(at[d].call)
  /\ Tried(d)
  /\ UNCHANGED <<told, relay, faults>>

\* Mutant of RecordFailure: the count starts at the row, not at its attempts.
RecordFailureAfresh(c, n) ==
  Updated(c, [row[c] EXCEPT !.state = "failed", !.attempts = 1, !.due = FALSE])

\* recordFailure counts from the row as it was claimed.  It compares expiry with
\* the time of the claim, which took no expired row: only the count kills.
RecordFailure(c, n) ==
  Updated(c, IF n + 1 >= MaxAttempts THEN [row[c] EXCEPT !.state = "dead"]
             ELSE [row[c] EXCEPT !.state = "failed", !.attempts = n + 1, !.due = FALSE])

\* The index on the keys of active rows refuses to make an ended row active
\* again beside another of its key.
Refused(c, n) ==
  n + 1 < MaxAttempts /\ row[c].state \in {"sent", "dead"} /\ ActiveWith(Key[c]) # {}

\* A failed try is written down, and the drain has the rest before it; or the
\* write is refused and throws, and the drain is over.
Failed(d, c, n, rest) ==
  /\ at' = [at EXCEPT ![d] = None]
  /\ \/ /\ ~Refused(c, n)
        /\ RecordFailure(c, n)
        /\ batch' = [batch EXCEPT ![d] = rest]
        /\ UNCHANGED running
     \/ /\ Refused(c, n)
        /\ batch' = [batch EXCEPT ![d] = {}]
        /\ running' = [running EXCEPT ![d] = FALSE]
        /\ UNCHANGED row

\* Its recipient has no key or address, or a gate refuses it: nothing is posted.
NotPosted(d) ==
  /\ at[d] = None
  /\ \E b \in batch[d] :
       /\ tries' = [tries EXCEPT ![b[1]] = @ + 1]
       /\ Failed(d, b[1], b[2], batch[d] \ {b})
  /\ UNCHANGED <<told, timer, posts, taken, faults>>

\* A refusal, no answer to a copy that may have got through, or the answer that
\* the relay has buffered it: sent, but not delivered, so a failure of the row.
NotDelivered(d) ==
  /\ at[d] # None
  /\ Failed(d, at[d].call, at[d].attempts, batch[d])
  /\ UNCHANGED <<told, timer, relay, faults>>

Ended(c) == row[c].state \in {"sent", "dead"}

\* Mutant of DrainEnds: the flag that a drain runs is not taken back.
DrainEndsRunning(d) ==
  /\ running[d] /\ batch[d] = {} /\ at[d] = None
  /\ \E old \in SUBSET {c \in Calls : Ended(c)} :
       row' = [c \in Calls |-> IF c \in old THEN [NoRow EXCEPT !.state = "swept"] ELSE row[c]]
  /\ UNCHANGED <<told, drains, relay, faults>>

\* The drain ends; now and then it sweeps the rows that ended a day ago.
DrainEnds(d) ==
  /\ running[d] /\ batch[d] = {} /\ at[d] = None
  /\ running' = [running EXCEPT ![d] = FALSE]
  /\ \E old \in SUBSET {c \in Calls : Ended(c)} :
       row' = [c \in Calls |-> IF c \in old THEN [NoRow EXCEPT !.state = "swept"] ELSE row[c]]
  /\ UNCHANGED <<told, timer, batch, at, relay, faults>>

Upset == upsets < MaxUpsets /\ upsets' = upsets + 1

\* The store throws where a try is written down, and the drain is over: the
\* rows it has not written keep the state of being sent.
DrainThrows(d) ==
  /\ Upset
  /\ at[d] # None \/ batch[d] # {}
  /\ running' = [running EXCEPT ![d] = FALSE]
  /\ batch' = [batch EXCEPT ![d] = {}] /\ at' = [at EXCEPT ![d] = None]
  /\ UNCHANGED <<sender, timer, relay, restarts, overrun>>

---------------------------------------------------------------------------
(* Time, the network and the process *)

BackoffPasses(c) ==
  /\ row[c].state = "failed" /\ ~row[c].due
  /\ row' = [row EXCEPT ![c].due = TRUE]
  /\ UNCHANGED <<told, drains, relay, faults>>

Expires(c) ==
  /\ row[c].state \in Active /\ ~row[c].late
  /\ row' = [row EXCEPT ![c].late = TRUE]
  /\ UNCHANGED <<told, drains, relay, faults>>

\* Copies on their way that somebody still waits for.
Awaited(c) ==
  Cardinality({d \in Drainers : Trying(d, "posted") /\ at[d].call = c})
  + (IF told[c] = "posting" THEN 1 ELSE 0)

\* A copy nobody waits for any more reaches the relay.
Straggles(c) ==
  /\ taken[c] + Awaited(c) < posts[c]
  /\ taken' = [taken EXCEPT ![c] = @ + 1]
  /\ UNCHANGED <<sender, drains, posts, tries, faults>>

\* resetStaleSending: the rows whose lease has run out.
Reclaimed(S) == [c \in Calls |-> IF c \in S THEN [row[c] EXCEPT !.state = "pending"] ELSE row[c]]

\* Mutant of Reboot: it reclaims the rows being sent, as a start does.
RebootReclaiming(d) ==
  /\ Upset
  /\ ~running[d] /\ timer # d
  /\ timer' = d
  /\ row' = Reclaimed({c \in Calls : row[c].state = "sending"})
  /\ UNCHANGED <<told, running, batch, at, relay, restarts, overrun>>

\* A re-boot of the node within its process (mobile): the old drainer gets no
\* more ticks, and a drain it is in goes on beside the new one.
Reboot(d) ==
  /\ Upset
  /\ ~running[d] /\ timer # d
  /\ timer' = d
  /\ UNCHANGED <<sender, running, batch, at, relay, restarts, overrun>>

Restarts == restarts < MaxRestarts /\ restarts' = restarts + 1

\* The vault of a running process is locked and unlocked (mobile): the storage
\* is brought up again, recoverOutboxOnBoot with it, beside a drain under way,
\* whose rows' leases may have run out as any other's.
Unlock ==
  /\ Restarts
  /\ \E S \in SUBSET {c \in Calls : row[c].state = "sending"} :
       /\ row' = Reclaimed(S)
       /\ overrun' = overrun \cup {c \in S : Held(c)}
  /\ UNCHANGED <<told, drains, relay, upsets>>

\* The process dies and starts again: recoverOutboxOnBoot, then the drainer.  A
\* restart within a lease's minute does not reclaim its row.
Restart ==
  /\ Restarts
  /\ told' = [c \in Calls |-> IF told[c] \in {"posting", "reached"} THEN "cut" ELSE told[c]]
  /\ \E S \in SUBSET {c \in Calls : row[c].state = "sending"} : row' = Reclaimed(S)
  /\ running' = [d \in Drainers |-> FALSE]
  /\ batch' = [d \in Drainers |-> {}] /\ at' = [d \in Drainers |-> None]
  /\ UNCHANGED <<timer, relay, upsets, overrun>>

---------------------------------------------------------------------------
Answer(d) == Delivered(d) \/ NotDelivered(d)

Begin(d) == Repost(d) \/ NotPosted(d)

Drain(d) == Tick(d) \/ Begin(d) \/ RepostReaches(d) \/ Answer(d) \/ DrainEnds(d)

Next ==
  \/ \E c \in Calls :
       \/ Send(c) \/ Reach(c) \/ Sent(c) \/ NotSent(c)
       \/ BackoffPasses(c) \/ Expires(c) \/ Straggles(c)
  \/ \E d \in Drainers : Drain(d) \/ DrainThrows(d) \/ Reboot(d)
  \/ Unlock \/ Restart

Spec == Init /\ [][Next]_vars

\* The timer ticks, a drain goes through its rows, and a request ends one way or
\* another; backoffs pass.  Nothing makes a copy arrive.
Fairness ==
  /\ \A d \in Drainers :
       WF_vars(Tick(d)) /\ WF_vars(Begin(d)) /\ WF_vars(Answer(d)) /\ WF_vars(DrainEnds(d))
  /\ \A c \in Calls : WF_vars(BackoffPasses(c))

SteadySpec == Spec /\ Fairness

---------------------------------------------------------------------------
(* What should hold *)

Try == [call : Calls, attempts : Nat, stage : {"posted", "reached"}]

States == Active \cup {"none", "sent", "dead", "swept"}

Row == [state : States, attempts : 0 .. (MaxAttempts - 1), due : BOOLEAN, late : BOOLEAN]

\* Every variable has its type, and no row has failed as often as a row may.
TypeOK ==
  /\ told \in [Calls -> {"new", "posting", "reached", "sent", "queued", "lost", "cut"}]
  /\ row \in [Calls -> Row]
  /\ timer \in Drainers /\ running \in [Drainers -> BOOLEAN]
  /\ batch \in [Drainers -> SUBSET (Calls \X Nat)]
  /\ at \in [Drainers -> Try \cup {None}]
  /\ posts \in [Calls -> Nat] /\ taken \in [Calls -> Nat] /\ tries \in [Calls -> Nat]
  /\ restarts \in Nat /\ upsets \in Nat /\ overrun \in SUBSET Calls

\* A row is in the hands of one drain at a time, which has read its latest count
\* of attempts, unless an unlock took it from a drain that has it: no re-boot,
\* restart or throw of another drain gives a row two holders by itself.
OneHolder ==
  \A d \in Drainers : \A b \in Hands(d) : b[1] \notin overrun =>
    /\ row[b[1]].state = "sending" /\ row[b[1]].attempts = b[2]
    /\ \A e \in Drainers : \A x \in Hands(e) : x[1] = b[1] => e = d

\* What the table promises of its leases, also of those that run out
\* (storage/schemas.ts:452 "so two drainers can't ship the same row").
NeverShippedByTwo ==
  \A d, e \in Drainers : \A b \in Hands(d), x \in Hands(e) : b[1] = x[1] => d = e

\* A message is posted once by its call and once per try.  A restart costs it one
\* try more than the tries allowed (outbox.ts:13 "dead-letter after 5 attempts");
\* an unlock that takes it from a drain, whose late failure then writes an older
\* count over a newer one, costs at most the tries allowed over again.
ResendsBounded ==
  \A c \in Calls :
    /\ posts[c] <= 1 + tries[c]
    /\ c \notin overrun => tries[c] <= MaxAttempts + restarts
    /\ tries[c] <= MaxAttempts * (1 + restarts)

\* Callers are told the truth about a message that is sent or queued, one row per
\* key is owed at a time, and a row is owed until the relay has a copy or its
\* tries are used up, through crashes, re-boots and failing stores; only a row an
\* unlock took from a drain may be owed again, by that drain's late failure.
Told(c) == IF told[c] \in {"sent", "queued", "lost"} THEN told[c] ELSE "nothing"
Promise == INSTANCE Post WITH
  told <- [c \in Calls |-> Told(c)],
  owed <- {c \in Calls : row[c].state \in Active},
  taken <- {c \in Calls : taken[c] > 0},
  doubtful <- overrun
ImplementsPost == Promise!Spec

\* A row being sent that no drain has in hand: a drain threw, or the process
\* restarted within the lease.
Stranded(c) == row[c].state = "sending" /\ ~Held(c)

\* A row ends, unless it expires or is stranded: no overlap of drains, backoff
\* or re-boot leaves a message lying (retry.ts:7).
RowsEnd ==
  \A c \in Calls :
    row[c].state \in Active ~> (row[c].state \notin Active \/ row[c].late \/ Stranded(c))

=============================================================================
