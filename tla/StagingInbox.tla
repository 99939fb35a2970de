---------------------------- MODULE StagingInbox ----------------------------
(***************************************************************************)
(* The staging inbox, the way into the vaults: packages/core/src/staging,  *)
(* the drain of packages/brain/src/staging and the owner's decisions in    *)
(* core/src/server/routes/workflow.ts.                                     *)
(*                                                                         *)
(* A drain claims rows, asks the classifier where each belongs, and calls  *)
(* resolve or fail; the calls are awaits, so anything may come between.    *)
(* Inside Core a call runs in one turn, but each of its writes commits on  *)
(* its own: a crash comes between them, and any of them may fail.          *)
(***************************************************************************)
EXTENDS Integers, FiniteSets

CONSTANTS
    Items,        \* what may be ingested
    Kinds,        \* where it may come from
    Personas,     \* the personas this node has
    Drains,       \* the drains of Brain
    Door,         \* the connected-brain request, which claims one exact row
    None, Own,    \* no one; the row of the item itself
    MaxRetries,   \* STAGING_MAX_RETRIES
    MaxFaults,    \* bound: crashes, and failing writes of a row or of a decided card
    MaxLapses     \* bound: leases that end under a drain

ASSUME StagingAssumption ==
    /\ Kinds \subseteq {"owner", "proposal", "other"}
    /\ MaxRetries \in Nat /\ MaxFaults \in Nat /\ MaxLapses \in Nat
    /\ None \notin Items \cup Personas /\ Own \notin Personas
    /\ Door \notin Drains

VARIABLES
    kind,      \* where each item came from
    row,       \* staging_inbox
    vault,     \* the rows kept in the vault of each persona
    card,      \* the approval tasks
    open,      \* the open personas
    aged,      \* items past expires_at
    held,      \* the rest of each drain's batch
    job,       \* the item in each caller's hands
    ruling,    \* the running approve, deny or drainForPersona
    faults, lapses,
    torn       \* cards whose decision a crash or a failing write cut short

hands == <<held, job>>
history == <<faults, lapses, torn>>
vars == <<kind, row, vault, card, open, aged, hands, ruling, history>>

-----------------------------------------------------------------------------

Callers == Drains \cup {Door}

\* The item's own row, and the copy for a locked secondary persona.
Rows == Items \X (Personas \cup {Own})

\* One card may exist for a row and a persona: its id is made of the two.
Cards == Rows \X Personas

Statuses == {"none", "received", "classifying", "stored", "parked", "failed", "gone"}
Row == [status: Statuses, home: Personas \cup {None}, retries: 0..MaxRetries+1,
        lapsed: BOOLEAN, guarded: BOOLEAN]
NoRow == [status |-> "none", home |-> None, retries |-> 0,
          lapsed |-> FALSE, guarded |-> FALSE]

\* refused: cancelled or failed, but undone if by the resolve that made it.
CardStates == {"none", "waiting", "approved", "completed", "refused", "undone"}
Standing == {"waiting", "approved"}

\* The writes of a resolve, in the order it makes them; those of one kind
\* begin with the primary persona.
Writes == {"card", "vault", "copy", "close", "undo"}
Rank == [card |-> 1, vault |-> 2, copy |-> 3, close |-> 4, undo |-> 5]
Ops == Writes \X Personas

\* said: the targets the caller calls open; those that are, once Core looked.
Job == [at: {"idle", "planned", "writing", "thrown"}, item: Items \cup {None},
        home: Personas \cup {None}, targets: SUBSET Personas,
        said: SUBSET Personas, todo: SUBSET Ops, kept: SUBSET Personas]
Idle == [at |-> "idle", item |-> None, home |-> None, targets |-> {},
         said |-> {}, todo |-> {}, kept |-> {}]
Due(j) ==
    {o \in j.todo : \A u \in j.todo :
        /\ Rank[o[1]] <= Rank[u[1]]
        /\ o[1] = u[1] /\ u[2] = j.home => o = u}
Planned(i, p, T, S) == [Idle EXCEPT !.at = "planned", !.item = i, !.home = p,
                                    !.targets = T, !.said = S]

Ruling == [card: Cards \cup {None}, row: Rows,
           step: {"drain", "mark", "finish", "refuse", "fail", "bar"}]

ASSUME NoneIsNothing == None \notin Cards \cup Ruling

\* Core's turn is taken: a call is in the middle of its writes.
InTurn(d) == IF d = Door THEN job[d].at # "idle" ELSE job[d].at = "writing"
Busy == ruling # None \/ \E d \in Callers : InTurn(d)
TurnOf(d) == ruling = None /\ \A e \in Callers \ {d} : ~InTurn(e)

Init ==
    /\ kind \in [Items -> Kinds]
    /\ row = [r \in Rows |-> NoRow]
    /\ vault = [p \in Personas |-> {}]
    /\ card = [c \in Cards |-> "none"]
    /\ open = {} /\ aged = {}
    /\ held = [d \in Drains |-> {}] /\ job = [d \in Callers |-> Idle]
    /\ ruling = None
    /\ faults = 0 /\ lapses = 0 /\ torn = {}

Fault == faults < MaxFaults /\ faults' = faults + 1

-----------------------------------------------------------------------------
\* The life of a row.

Ingest(i) ==
    /\ ~Busy
    /\ row[<<i, Own>>].status = "none"
    /\ row' = [row EXCEPT ![<<i, Own>>].status = "received"]
    /\ UNCHANGED <<kind, vault, card, open, aged, hands, ruling, history>>

Leased(S) ==
    row' = [r \in Rows |-> IF r \in S
                           THEN [row[r] EXCEPT !.status = "classifying", !.lapsed = FALSE]
                           ELSE row[r]]

\* Mutant of Claimed: the row need only be there.
InInbox(i) == row[<<i, Own>>].status \notin {"none", "gone"}

\* Mutant of Claimed: a claim ends with its lease.
InLease(i) == row[<<i, Own>>].status = "classifying" /\ ~row[<<i, Own>>].lapsed

\* All that resolve, fail and extendLease ask of a row: that it is
\* classifying, in whoever's claim.
Claimed(i) == row[<<i, Own>>].status = "classifying"

Received == {i \in Items : row[<<i, Own>>].status = "received"}

\* A tick of the drain: the batch it will work through, one item at a time.
Claim(d) ==
    /\ ~Busy
    /\ held[d] = {} /\ job[d].at = "idle" /\ Received # {}
    /\ Leased({<<i, Own>> : i \in Received})
    /\ held' = [held EXCEPT ![d] = Received]
    /\ UNCHANGED <<kind, vault, card, open, aged, job, ruling, history>>

\* A connected brain's proposal claims its own row, also from a claim whose
\* lease has ended, and resolves it in the same turn, calling it open.
ClaimById(i, p) ==
    /\ ~Busy
    /\ kind[i] = "proposal"
    /\ \/ row[<<i, Own>>].status = "received"
       \/ Claimed(i) /\ row[<<i, Own>>].lapsed
    /\ Leased({<<i, Own>>})
    /\ job' = [job EXCEPT ![Door] = Planned(i, p, {p}, {p})]
    /\ UNCHANGED <<kind, vault, card, open, aged, held, ruling, history>>

\* The classifier names the targets; Brain says which of them it can reach.
\* For the owner's own words it opens each first, as far as that works.
Plan(d, i, p, T) ==
    /\ ~Busy
    /\ i \in held[d] /\ job[d].at = "idle"
    /\ p \in T
    /\ \E O \in IF kind[i] = "owner" THEN {open, open \cup T} ELSE {open} :
          /\ open' = O
          /\ job' = [job EXCEPT ![d] =
                        Planned(i, p, T, IF kind[i] = "owner" THEN T ELSE T \cap O)]
    /\ UNCHANGED <<kind, row, vault, card, aged, held, ruling, history>>

\* No target is a persona of this node; such targets Core drops.
PlanUnknown(d, i) ==
    /\ ~Busy
    /\ i \in held[d] /\ job[d].at = "idle"
    /\ job' = [job EXCEPT ![d] = Planned(i, None, {}, {})]
    /\ UNCHANGED <<kind, row, vault, card, open, aged, held, ruling, history>>

\* Classification, enrichment or the model call throws.
GiveUp(d, i) ==
    /\ ~Busy
    /\ i \in held[d] /\ job[d].at = "idle"
    /\ job' = [job EXCEPT ![d] = [Idle EXCEPT !.at = "thrown", !.item = i]]
    /\ UNCHANGED <<kind, row, vault, card, open, aged, held, ruling, history>>

\* A caller is done with the item in its hands.
LetGo(d) ==
    /\ job' = [job EXCEPT ![d] = Idle]
    /\ held' = [e \in Drains |-> IF e = d THEN held[e] \ {job[d].item} ELSE held[e]]

Throw(d) ==
    /\ job' = [job EXCEPT ![d] = [Idle EXCEPT !.at = "thrown", !.item = job[d].item]]
    /\ UNCHANGED held

\* The drain's catch; that fail throws as well is only logged.
Fail(d) ==
    LET r == <<job[d].item, Own>>
    IN  /\ TurnOf(d) /\ job[d].at = "thrown"
        /\ \/ /\ Claimed(job[d].item)
              /\ row' = [row EXCEPT ![r].status = "failed", ![r].retries = @ + 1]
              /\ UNCHANGED faults
           \/ Claimed(job[d].item) /\ Fault /\ UNCHANGED row
           \/ ~Claimed(job[d].item) /\ UNCHANGED <<row, faults>>
        /\ LetGo(d)
        /\ UNCHANGED <<kind, vault, card, open, aged, ruling, lapses, torn>>

-----------------------------------------------------------------------------
\* resolve and resolveMultiDetailed.

Locked(j) == j.targets \ j.said
RowFor(j, p) == <<j.item, IF p = j.home THEN Own ELSE p>>
CardFor(j, p) == <<RowFor(j, p), p>>
Asks(j) == kind[j.item] # "owner"

Script(j) ==
    (IF Asks(j) THEN {"card"} \X Locked(j) ELSE {})
       \cup ({"vault"} \X j.said)
       \cup ({"copy"} \X (Locked(j) \ {j.home}))
       \cup {<<"close", j.home>>}

\* Mutant of EffectivePersonaOpen: the caller is believed.
PersonaOpenAsSaid(S) == S

\* A persona Core knows to be closed is closed, whatever the caller says.
EffectivePersonaOpen(S) == S \cap open

Begin(d) ==
    LET j == [job[d] EXCEPT !.at = "writing", !.said = EffectivePersonaOpen(@)]
    IN  /\ TurnOf(d) /\ job[d].at = "planned"
        /\ Claimed(j.item) /\ j.targets # {}
        /\ job' = [job EXCEPT ![d] = [j EXCEPT !.todo = Script(j)]]
        /\ UNCHANGED <<kind, row, vault, card, open, aged, held, ruling, history>>

Refused(d) ==
    /\ TurnOf(d) /\ job[d].at = "planned"
    /\ ~Claimed(job[d].item)
    /\ Throw(d)
    /\ UNCHANGED <<kind, row, vault, card, open, aged, ruling, history>>

\* parkForUnknownPersona: no target is a persona of this node.
ParkUnknown(d) ==
    LET r == <<job[d].item, Own>>
    IN  /\ TurnOf(d) /\ job[d].at = "planned"
        /\ Claimed(job[d].item) /\ job[d].targets = {}
        /\ \/ /\ row' = [row EXCEPT ![r].status = "parked"]
              /\ LetGo(d) /\ UNCHANGED faults
           \/ UNCHANGED row /\ Throw(d) /\ Fault
        /\ UNCHANGED <<kind, vault, card, open, aged, ruling, lapses, torn>>

Writing(d, w, p) == job[d].at = "writing" /\ <<w, p>> \in Due(job[d])
Done(d, w, p) ==
    /\ job' = [job EXCEPT ![d].todo = @ \ {<<w, p>>}]
    /\ UNCHANGED held

\* createPersonaAccessApproval: a card that stands is used again, one that
\* is over is an error, and so is a failing create.
MakeCard(d, p) ==
    LET c == CardFor(job[d], p)
    IN  /\ Writing(d, "card", p)
        /\ \/ card[c] = "none" /\ card' = [card EXCEPT ![c] = "waiting"] /\ Done(d, "card", p)
           \/ card[c] \in Standing /\ UNCHANGED card /\ Done(d, "card", p)
           \/ card[c] \notin Standing /\ UNCHANGED card /\ Throw(d)
        /\ UNCHANGED <<kind, row, vault, open, aged, ruling, history>>

\* A vault that rejects the write is noted; the others are still written.
Keep(d, p) ==
    /\ Writing(d, "vault", p)
    /\ UNCHANGED held
    /\ \/ /\ vault' = [vault EXCEPT ![p] = @ \cup {<<job[d].item, Own>>}]
          /\ job' = [job EXCEPT ![d].todo = @ \ {<<"vault", p>>}, ![d].kept = @ \cup {p}]
       \/ UNCHANGED vault /\ Done(d, "vault", p)
    /\ UNCHANGED <<kind, row, card, open, aged, ruling, history>>

\* A copy that is there already is left as it is; one that cannot be
\* persisted fails the resolve, which first takes back its cards.
MakeCopy(d, p) ==
    LET r == <<job[d].item, p>>
        copy == [NoRow EXCEPT !.status = "parked", !.home = p, !.guarded = Asks(job[d]),
                              !.retries = row[<<job[d].item, Own>>].retries]
    IN  /\ Writing(d, "copy", p)
        /\ \/ row[r].status # "none" /\ UNCHANGED row /\ Done(d, "copy", p)
           \/ row[r].status = "none" /\ row' = [row EXCEPT ![r] = copy] /\ Done(d, "copy", p)
           \/ /\ row[r].status = "none" /\ UNCHANGED row
              /\ IF Asks(job[d])
                 THEN /\ job' = [job EXCEPT ![d].todo = {"undo"} \X Locked(job[d])]
                      /\ UNCHANGED held
                 ELSE Throw(d)
        /\ UNCHANGED <<kind, vault, card, open, aged, ruling, history>>

\* cancelStagingApprovals; a cancel that fails is swallowed.
Undo(d, p) ==
    LET c == CardFor(job[d], p)
    IN  /\ Writing(d, "undo", p)
        /\ \/ /\ card[c] \in Standing
              /\ card' = [card EXCEPT ![c] = "undone"]
           \/ UNCHANGED card
        /\ IF job[d].todo = {<<"undo", p>>} THEN Throw(d) ELSE Done(d, "undo", p)
        /\ UNCHANGED <<kind, row, vault, open, aged, ruling, history>>

\* Mutant of TotalLoss: not checked.
NoTotalLoss(j) == FALSE

\* Nothing was kept and nothing is parked: the resolve fails.
TotalLoss(j) == j.kept = {} /\ Locked(j) = {}

\* The row follows its primary persona, whatever became of its write there;
\* that this last write fails takes back nothing.
Close(d, p) ==
    LET j == job[d]  r == <<j.item, Own>>
    IN  /\ Writing(d, "close", p)
        /\ \/ /\ ~TotalLoss(j)
              /\ row' = [row EXCEPT ![r].status = IF p \in j.said THEN "stored" ELSE "parked",
                                    ![r].home = p,
                                    ![r].guarded = Asks(j) /\ p \notin j.said]
              /\ LetGo(d) /\ UNCHANGED faults
           \/ TotalLoss(j) /\ Throw(d) /\ UNCHANGED <<row, faults>>
           \/ ~TotalLoss(j) /\ Throw(d) /\ Fault /\ UNCHANGED row
        /\ UNCHANGED <<kind, vault, card, open, aged, ruling, lapses, torn>>

Resolve(d) ==
    \/ Begin(d) \/ Refused(d) \/ ParkUnknown(d)
    \/ \E p \in Personas : MakeCard(d, p) \/ Keep(d, p) \/ MakeCopy(d, p)
                             \/ Undo(d, p) \/ Close(d, p)

-----------------------------------------------------------------------------
\* Leases, expiry and the sweep.

InHands(i) == \E d \in Drains : i \in held[d]

Lapse(i) ==
    /\ ~Busy
    /\ Claimed(i) /\ ~row[<<i, Own>>].lapsed
    /\ row' = [row EXCEPT ![<<i, Own>>].lapsed = TRUE]
    /\ IF InHands(i) THEN lapses < MaxLapses /\ lapses' = lapses + 1 ELSE UNCHANGED lapses
    /\ UNCHANGED <<kind, vault, card, open, aged, hands, ruling, faults, torn>>

\* extendLease: the heartbeat of the item in hand, whoever's claim it is.
Beat(d) ==
    LET r == <<job[d].item, Own>>
    IN  /\ ~Busy /\ job[d].at # "idle"
        /\ Claimed(job[d].item) /\ row[r].lapsed
        /\ row' = [row EXCEPT ![r].lapsed = FALSE]
        /\ UNCHANGED <<kind, vault, card, open, aged, hands, ruling, history>>

Age(i) ==
    /\ ~Busy
    /\ row[<<i, Own>>].status # "none" /\ i \notin aged
    /\ aged' = aged \cup {i}
    /\ UNCHANGED <<kind, row, vault, card, open, hands, ruling, history>>

\* A card ends with its item: the workflow sweeper fails it, and no one
\* tells the row.
CardLapse(c) ==
    /\ ~Busy
    /\ c[1][1] \in aged /\ card[c] \in Standing
    /\ card' = [card EXCEPT ![c] = "refused"]
    /\ UNCHANGED <<kind, row, vault, open, aged, hands, ruling, history>>

LeaseOver(r) == row[r].status = "classifying" /\ row[r].lapsed

ShouldRetry(r) == row[r].status = "failed" /\ row[r].retries <= MaxRetries

\* Expired rows go, ended leases come back, then failures with retries left;
\* the first n of these three writes are made.
Swept(r, n) ==
    IF row[r].status = "none" THEN row[r]
    ELSE IF r[1] \in aged THEN [row[r] EXCEPT !.status = "gone"]
    ELSE IF (n >= 2 /\ LeaseOver(r)) \/ (n = 3 /\ ShouldRetry(r))
         THEN [row[r] EXCEPT !.status = "received", !.lapsed = FALSE]
         ELSE row[r]

Sweep ==
    /\ ~Busy
    /\ \E n \in 1..3 : row' = [r \in Rows |-> Swept(r, n)]
    /\ row' # row
    /\ UNCHANGED <<kind, vault, card, open, aged, hands, ruling, history>>

-----------------------------------------------------------------------------
\* The owner's decisions on a card.

Waits(r) == row[r].status = "parked"

\* The row whose approval_id is the card.
Guards(c) ==
    /\ row[c[1]].guarded /\ row[c[1]].home = c[2]
    /\ row[c[1]].status \notin {"none", "gone"}

Rule(c, step) == ruling' = [card |-> c, row |-> c[1], step |-> step]

\* approve and claimApprovalForExecution come first, the rows after; that the
\* second fails is the end of it.
Approve(c) ==
    /\ ~Busy /\ card[c] = "waiting"
    /\ card' = [card EXCEPT ![c] = "approved"]
    /\ \/ /\ Rule(c, IF ~Guards(c) THEN "fail" ELSE IF Waits(c[1]) THEN "drain" ELSE "finish")
          /\ UNCHANGED history
       \/ Fault /\ torn' = torn \cup {c} /\ UNCHANGED ruling
    /\ UNCHANGED <<kind, row, vault, open, aged, hands, lapses>>

\* Mutant of TellsRow: the card is cancelled, the row is not told.
TellsNoRow(c) == FALSE

\* A decision on a waiting card reaches the row it guards.
TellsRow(c) == card[c] = "waiting" /\ Guards(c)

\* cancelTask: the card first, then denyApproval; a card that is no longer
\* waiting is cancelled alone.
Deny(c) ==
    /\ ~Busy /\ card[c] \in Standing
    /\ card' = [card EXCEPT ![c] = "refused"]
    /\ IF TellsRow(c) THEN Rule(c, "bar") ELSE UNCHANGED ruling
    /\ UNCHANGED <<kind, row, vault, open, aged, hands, history>>

\* POST .../fail on a waiting card: denyApproval first, then the card.
FailCard(c) ==
    /\ ~Busy /\ card[c] = "waiting"
    /\ Rule(c, IF Guards(c) THEN "refuse" ELSE "fail")
    /\ UNCHANGED <<kind, row, vault, card, open, aged, hands, history>>

\* Mutant of Unguarded: a card is no reason to skip a row.
GuardedToo(r) == Waits(r)

Unguarded(r) == Waits(r) /\ ~row[r].guarded

\* drainForPersona, called once the persona is open: rows no card guards.
\* A row whose write fails is skipped, so a call is a series of these.
DrainForPersona(r) ==
    /\ ~Busy
    /\ Unguarded(r) /\ row[r].home \in open
    /\ ruling' = [card |-> None, row |-> r, step |-> "drain"]
    /\ UNCHANGED <<kind, row, vault, card, open, aged, hands, history>>

AtStep(s) == ruling # None /\ ruling.step = s
Goto(s) == ruling' = [ruling EXCEPT !.step = s]

\* A write throws, or Core stops: a card that has moved is left where it is.
CutShort ==
    /\ Fault
    /\ ruling' = None
    /\ torn' = IF ruling.card = None \/ card[ruling.card] = "waiting"
               THEN torn ELSE torn \cup {ruling.card}

RuleKeep ==
    /\ AtStep("drain")
    /\ \/ /\ vault' = [vault EXCEPT ![row[ruling.row].home] = @ \cup {ruling.row}]
          /\ Goto("mark")
       \/ /\ UNCHANGED vault
          /\ IF ruling.card = None THEN ruling' = None ELSE Goto("refuse")
    /\ UNCHANGED <<kind, row, card, open, aged, hands, history>>

\* A row that cannot be marked is refused, although its vault has it.
RuleMark ==
    /\ AtStep("mark")
    /\ \/ /\ row' = [row EXCEPT ![ruling.row].status = "stored"]
          /\ IF ruling.card = None THEN ruling' = None ELSE Goto("finish")
          /\ UNCHANGED faults
       \/ /\ Fault /\ UNCHANGED row
          /\ IF ruling.card = None THEN ruling' = None ELSE Goto("refuse")
    /\ UNCHANGED <<kind, vault, card, open, aged, hands, lapses, torn>>

\* denyApproval: the row is failed beyond retry.
RuleRefuse ==
    /\ AtStep("refuse") \/ AtStep("bar")
    /\ \/ /\ IF Waits(ruling.row)
             THEN row' = [row EXCEPT ![ruling.row].status = "failed",
                                     ![ruling.row].retries = MaxRetries + 1]
             ELSE UNCHANGED row
          /\ IF ruling.step = "bar" THEN ruling' = None ELSE Goto("fail")
          /\ UNCHANGED history
       \/ Waits(ruling.row) /\ UNCHANGED row /\ CutShort
    /\ UNCHANGED <<kind, vault, card, open, aged, hands, lapses>>

\* The card's own end.
RuleEnd ==
    /\ AtStep("finish") \/ AtStep("fail")
    /\ \/ /\ card' = [card EXCEPT ![ruling.card] =
                         IF ruling.step = "finish" THEN "completed" ELSE "refused"]
          /\ ruling' = None /\ UNCHANGED history
       \/ UNCHANGED card /\ CutShort
    /\ UNCHANGED <<kind, row, vault, open, aged, hands, lapses>>

RuleStep == RuleKeep \/ RuleMark \/ RuleRefuse \/ RuleEnd

-----------------------------------------------------------------------------
\* Personas and crashes.

Turn(p) ==
    /\ ~Busy
    /\ open' \in {open \cup {p}, open \ {p}} \ {open}
    /\ UNCHANGED <<kind, row, vault, card, aged, hands, ruling, history>>

\* Core stops between two writes; Brain goes with it, or its call fails.
Crash ==
    /\ open' = {}
    /\ IF ruling = None THEN Fault /\ UNCHANGED <<ruling, torn>> ELSE CutShort
    /\ \/ held' = [d \in Drains |-> {}] /\ job' = [d \in Callers |-> Idle]
       \/ /\ job' = [d \in Callers |->
                        IF d = Door THEN Idle
                        ELSE IF InTurn(d)
                             THEN [Idle EXCEPT !.at = "thrown", !.item = job[d].item]
                             ELSE job[d]]
          /\ UNCHANGED held
    /\ UNCHANGED <<kind, row, vault, card, aged, lapses>>

Work(d) ==
    \/ Claim(d)
    \/ \E i \in Items : GiveUp(d, i) \/ PlanUnknown(d, i)
                          \/ \E p \in Personas, T \in SUBSET Personas : Plan(d, i, p, T)
    \/ Resolve(d) \/ Fail(d)

Steps ==
    \/ \E i \in Items : \/ Ingest(i)
                        \/ \E p \in Personas : ClaimById(i, p)
                        \/ Lapse(i) \/ Age(i)
    \/ \E d \in Drains : Work(d) \/ Beat(d)
    \/ Resolve(Door) \/ Fail(Door)
    \/ \E c \in Cards : Approve(c) \/ Deny(c) \/ FailCard(c) \/ CardLapse(c)
    \/ \E r \in Rows : DrainForPersona(r)
    \/ RuleStep
    \/ \E p \in Personas : Turn(p)
    \/ Crash

Next == Steps \/ Sweep

Spec == Init /\ [][Next]_vars

\* Drains keep their ticks and a turn in Core runs to its end.  Turns only take
\* turns: what a timer or a caller asks for is served between them, hence SF.
\* Nothing is asked of the sweep, which no host of this repository calls.
FairSpec ==
    /\ Spec
    /\ \A d \in Drains : SF_vars(Work(d))
    /\ WF_vars(Resolve(Door) \/ Fail(Door)) /\ WF_vars(RuleStep)

-----------------------------------------------------------------------------
\* Properties

\* The type of the state: a row fails at most MaxRetries + 1 times.
TypeOK ==
    /\ kind \in [Items -> Kinds]
    /\ row \in [Rows -> Row]
    /\ vault \in [Personas -> SUBSET Rows]
    /\ card \in [Cards -> CardStates]
    /\ open \subseteq Personas /\ aged \subseteq Items
    /\ held \in [Drains -> SUBSET Items]
    /\ job \in [Callers -> Job]
    /\ ruling \in Ruling \cup {None}
    /\ faults \in 0..MaxFaults /\ lapses \in 0..MaxLapses
    /\ torn \subseteq Cards

VerdictOf(s) ==
    CASE s = "none" -> "unasked"
      [] s = "waiting" -> "asked"
      [] s \in {"approved", "completed"} -> "granted"
      [] OTHER -> "refused"

Gate == INSTANCE VaultGate WITH
    Memories <- Rows, Places <- Personas, unlocked <- open, kept <- vault,
    verdict <- [r \in Rows |-> [p \in Personas |-> VerdictOf(card[<<r, p>>])]]

\* Whatever the callers say, however stale their claims and wherever a call
\* is cut off, a row reaches only a persona that is open at that moment or
\* that the owner granted to it (effectivePersonaOpen, approve-then-drain).
ImplementsGate == Gate!Spec

\* A row that says stored has its memory in some vault, or a copy of it was
\* left for the owner to decide on: no resolve, retried or cut off as it may
\* be, reports a memory it dropped (the total-loss check of resolveMulti).
StoredIsSomewhere ==
    \A i \in Items : row[<<i, Own>>].status = "stored" =>
        \E p \in Personas : <<i, Own>> \in vault[p] \/ row[<<i, p>>].status # "none"

\* What is stored, and what failed beyond retry, stays so until it expires:
\* no late resolve, fail or sweep of an earlier claim brings it back.
Over(r) ==
    \/ row[r].status \in {"stored", "gone"}
    \/ row[r].status = "failed" /\ row[r].retries > MaxRetries
EndingIsFinal ==
    [][\A r \in Rows : Over(r) => row'[r].status \in {row[r].status, "gone"}]_vars

\* A parked row under a card is written by that card's approval and nothing
\* else, also when its persona opens meanwhile (drainForPersona's skip).
ApprovalAloneFrees ==
    [][\A r \in Rows : \A p \in Personas :
          Waits(r) /\ row[r].guarded /\ r \in vault'[p] \ vault[p]
             => card[<<r, p>>] = "approved"]_vars

\* The owner can decide on every row that waits for a card: it still stands,
\* unless its item expired, a failed resolve took its cards back, or its own
\* decision was cut short between the card and the row.
WaitingRowHasItsCard ==
    \A r \in Rows : Waits(r) /\ row[r].guarded =>
        LET c == <<r, row[r].home>>
        IN  \/ card[c] \in Standing \/ (ruling # None /\ ruling.card = c)
            \/ card[c] = "undone" \/ r[1] \in aged \/ c \in torn

\* An item in the inbox comes to an end, or to a failure, without the sweep:
\* however slow its drain is, whoever overtakes it and whatever their calls
\* throw, only a crash or a row that cannot be written leaves it to the sweep
\* (the drain's catch; resolve and fail honour a claim whose lease has ended).
Settled(i) == row[<<i, Own>>].status \in {"stored", "parked", "failed", "gone"}
NeedsNoSweep ==
    \A i \in Items : (row[<<i, Own>>].status = "received") ~> Settled(i) \/ faults > 0

=============================================================================
