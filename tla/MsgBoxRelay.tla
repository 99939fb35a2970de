----------------------------- MODULE MsgBoxRelay -----------------------------
(***************************************************************************)
(* The store-and-forward relay (msgbox/internal) and the connection of one *)
(* recipient, a Dina Core (packages/core/src/relay/msgbox_ws.ts).          *)
(*                                                                         *)
(* A sender hands the relay an envelope.  The relay writes it to the       *)
(* recipient's socket and keeps a copy in its buffer until the recipient   *)
(* acknowledges it; a copy not acknowledged is written again on the next   *)
(* connect.  The recipient runs the envelope's handler, records durably    *)
(* that it did, and only then acknowledges.  In between sockets die or     *)
(* turn half-open, either process crashes, stores fail, envelopes pass     *)
(* their age, and senders withdraw requests.                               *)
(*                                                                         *)
(* Everything done for one recipient at the relay happens under that       *)
(* recipient's lock (hub.go:42), so a delivery, a cancel and an ack are    *)
(* one step each; a drain is many steps, with `draining` as the lock.  The *)
(* end of a read pump and the background sweep take no lock.               *)
(*                                                                         *)
(* Every sender names each envelope afresh (generateMsgID, randomBytes),   *)
(* so an envelope is delivered to the relay once and its age starts then.  *)
(***************************************************************************)
EXTENDS Naturals, FiniteSets

CONSTANTS
  Envelopes,     \* what senders send to this recipient: requests and cancels
  Target,        \* the request each cancel withdraws
  Expiring,      \* envelopes with an expires_at, which the client checks too
  Conns,         \* sockets, reused when nothing refers to them
  None,          \* no socket
  Features,      \* may the relay's builds grant acks: {TRUE}, {FALSE} or both
  Capacity,      \* rows the buffer holds for one recipient
  RecentLimit,   \* handled envelopes kept in the client's memory
  MaxFaults,     \* bound: disconnects, failed writes, crashes, restarts
  MaxSlips       \* bound: writes whose mark or delete is not made

Cancels == DOMAIN Target
Requests == Envelopes \ Cancels

ASSUME RelayConstants ==
  /\ None \notin Conns
  /\ Cancels \subseteq Envelopes
  /\ \A k \in Cancels : Target[k] \in Requests
  /\ Cancels \subseteq Expiring /\ Expiring \subseteq Envelopes
  /\ Features \subseteq BOOLEAN
  /\ {Capacity, RecentLimit, MaxFaults, MaxSlips} \subseteq Nat
  /\ RecentLimit > 0

VARIABLES
  row,         \* the buffer: no copy, kept (not known to be written), written
  conn,        \* the hub's connection of the recipient
  pending,     \* sockets authenticated and waiting to be registered
  pumps,       \* sockets whose read loop runs at the relay
  grants,      \* whether the running build of the relay grants acks
  feature,     \* whether a socket's connection acknowledges
  draining, todo, over,  \* a drain: its rows, those over age when it began
  sock,        \* the client's current socket
  cut,         \* it is half-open: what is written to it goes nowhere
  kicked,      \* sockets the relay has closed
  wire,        \* written to the current socket and not read yet
  acks,        \* acknowledgements on their way to the relay
  phase,       \* an envelope in the client: idle, asking, running, recording
  durable,     \* its copy came on an acking connection
  recent, unrecorded,    \* the client's memory of what it handled
  record,      \* its durable records, which survive a crash
  sent, accepted,        \* envelopes offered to, and taken by, the relay
  past,        \* envelopes past their expiry or the relay's time to live
  cancelled, withdrawn,  \* requests cancelled; those deleted unwritten
  handed,      \* written to a connection that does not acknowledge
  settled,     \* envelopes whose handler ended, or dropped as expired
  ran,         \* how often the handler of an envelope was started
  forgot,      \* how often a crash fell between a run and its record
  turned,      \* sent back to the relay until the next connect
  faults, slips

buffer == <<row, conn, pending, pumps, grants, feature, draining, todo, over>>
link   == <<sock, cut, kicked, wire, acks>>
memory == <<phase, durable, recent, unrecorded, record>>
told   == <<settled, ran, forgot, turned>>
fate   == <<sent, accepted, past, cancelled, withdrawn, handed>>
vars   == <<buffer, link, memory, told, fate, faults, slips>>

Init ==
  /\ row = [i \in Envelopes |-> "none"]
  /\ conn = None /\ pending = {} /\ pumps = {}
  /\ grants \in Features /\ feature = [c \in Conns |-> grants]
  /\ draining = FALSE /\ todo = {} /\ over = {}
  /\ sock = None /\ cut = FALSE /\ kicked = {} /\ wire = {} /\ acks = {}
  /\ phase = [i \in Envelopes |-> "idle"]
  /\ durable = [i \in Envelopes |-> FALSE]
  /\ recent = {} /\ unrecorded = {} /\ record = {}
  /\ sent = {} /\ accepted = {} /\ past = {}
  /\ cancelled = {} /\ withdrawn = {} /\ handed = {} /\ settled = {}
  /\ ran = [i \in Envelopes |-> 0] /\ forgot = [i \in Envelopes |-> 0]
  /\ turned = {} /\ faults = 0 /\ slips = 0

Fault == faults < MaxFaults /\ faults' = faults + 1

---------------------------------------------------------------------------
(* The relay *)

\* The socket that the relay would write to still reaches the client.
Sound(c) == c = sock /\ ~cut /\ c \notin kicked

\* A write that the relay sees succeed: into the client's current socket, or
\* into one that is half-open or that the client has left.
Written(c, i) ==
  /\ c \notin kicked
  /\ wire' = IF Sound(c) THEN wire \cup {i} ELSE wire
  /\ UNCHANGED <<kicked, faults>>

\* A write that fails closes the socket.
NotWritten(c) ==
  /\ IF Sound(c) THEN Fault ELSE UNCHANGED faults
  /\ kicked' = kicked \cup {c}
  /\ UNCHANGED wire

\* Mutant of Note: every write deletes the copy.
NoteDeletes(rows, i, note) ==
  row' = [rows EXCEPT ![i] = "none"] /\ UNCHANGED slips

\* What the relay notes of a write it made: the note is not made when the
\* store fails (its error is ignored) or the relay dies in between.
Note(rows, i, note) ==
  \/ row' = [rows EXCEPT ![i] = note] /\ UNCHANGED slips
  \/ row' = rows /\ slips < MaxSlips /\ slips' = slips + 1

Room(rows) == Cardinality({j \in Envelopes : rows[j] # "none"}) < Capacity

\* Hub.Deliver, on the buffer as a cancel may have left it.  Without room, or
\* when the store fails, the sender gets an error and nothing is written; a
\* connection that does not acknowledge is written to first.
Deliver(i, rows) ==
  LET kept == [rows EXCEPT ![i] = "kept"]
      acking == conn # None /\ feature[conn]
      taken == accepted' = accepted \cup {i}
  IN  \/ /\ acking /\ Room(rows) /\ Written(conn, i) /\ Note(kept, i, "written")
         /\ taken /\ UNCHANGED handed
      \/ /\ acking /\ Room(rows) /\ NotWritten(conn) /\ row' = kept
         /\ taken /\ UNCHANGED <<handed, slips>>
      \/ /\ conn # None /\ ~acking /\ Written(conn, i) /\ row' = rows
         /\ handed' = handed \cup {i} /\ taken /\ UNCHANGED slips
      \/ /\ conn # None /\ ~acking /\ Room(rows) /\ NotWritten(conn) /\ row' = kept
         /\ taken /\ UNCHANGED <<handed, slips>>
      \/ /\ conn = None /\ Room(rows) /\ row' = kept
         /\ taken /\ UNCHANGED <<handed, slips, wire, kicked, faults>>
      \/ /\ row' = rows
         /\ UNCHANGED <<accepted, handed, slips, wire, kicked, faults>>

Untouched == UNCHANGED <<conn, pending, pumps, grants, feature, draining, todo, over,
                         sock, cut, acks, memory, told, past>>

\* A sender's request or message reaches the relay.
Send(i) ==
  /\ i \in Requests \ sent /\ ~draining
  /\ sent' = sent \cup {i}
  /\ Deliver(i, row)
  /\ Untouched /\ UNCHANGED <<cancelled, withdrawn>>

\* Mutant of Unwritten: any copy still buffered counts as never written.
Buffered(i) == row[i] # "none"

\* CancelBuffered: the copy is there and no write of it was marked.
Unwritten(i) == row[i] = "kept"

\* Hub.Cancel: a copy never written is deleted and that is all; otherwise the
\* cancel goes to the recipient as an envelope of its own.
Cancel(k) ==
  LET i == Target[k]
      without == [row EXCEPT ![i] = "none"]
  IN  /\ k \in Cancels \ sent /\ i \in sent /\ ~draining
      /\ sent' = sent \cup {k} /\ cancelled' = cancelled \cup {i}
      /\ IF Unwritten(i)
           THEN /\ row' = without /\ withdrawn' = withdrawn \cup {i}
                /\ UNCHANGED <<accepted, handed, slips, wire, kicked, faults>>
           ELSE /\ Deliver(k, without) /\ UNCHANGED withdrawn
      /\ Untouched

\* Mutant of OverAge: the drain leaves the age to the background sweep.
NoneOverAge(rows) == {}

\* The rows a drain deletes instead of writing them.
OverAge(rows) == rows \cap past

\* Hub.Register up to the read of the buffer: the connection replaces the one
\* before it, which is closed; the age of the rows is taken once.
Register(c) ==
  /\ c \in pending /\ ~draining
  /\ pending' = pending \ {c} /\ pumps' = pumps \cup {c}
  /\ conn' = c
  /\ kicked' = IF conn = None THEN kicked ELSE kicked \cup {conn}
  /\ draining' = TRUE
  /\ todo' = {i \in Envelopes : row[i] # "none"}
  /\ over' = OverAge(todo')
  /\ UNCHANGED <<row, grants, feature, sock, cut, wire, acks, memory, told, fate, faults, slips>>

\* One row of the drain: deleted when over age, else written and then marked
\* or, for a connection that does not acknowledge, deleted.
DrainRow(i) ==
  /\ draining /\ i \in todo
  /\ todo' = todo \ {i}
  /\ IF i \in over
       THEN /\ row' = [row EXCEPT ![i] = "none"]
            /\ UNCHANGED <<wire, kicked, faults, slips, handed>>
       ELSE /\ Written(conn, i)
            /\ IF row[i] = "none" THEN UNCHANGED <<row, slips>>
               ELSE Note(row, i, IF feature[conn] THEN "written" ELSE "none")
            /\ handed' = IF feature[conn] THEN handed ELSE handed \cup {i}
  /\ UNCHANGED <<conn, pending, pumps, grants, feature, draining, over, sock, cut, acks,
                 memory, told, sent, accepted, past, cancelled, withdrawn>>

\* Mutant of DrainBreak: the rest was deleted when it was read.
DrainBreakLosing ==
  /\ draining /\ todo \ over # {}
  /\ NotWritten(conn)
  /\ row' = [i \in Envelopes |-> IF i \in todo THEN "none" ELSE row[i]]
  /\ todo' = {} /\ over' = {} /\ draining' = FALSE
  /\ UNCHANGED <<conn, pending, pumps, grants, feature, sock, cut, acks, memory,
                 told, fate, slips>>

\* A failed write ends the drain; the rest stays buffered.
DrainBreak ==
  /\ draining /\ todo \ over # {}
  /\ NotWritten(conn)
  /\ todo' = {} /\ over' = {} /\ draining' = FALSE
  /\ UNCHANGED <<row, conn, pending, pumps, grants, feature, sock, cut, acks, memory,
                 told, fate, slips>>

DrainEnd ==
  /\ draining /\ todo = {}
  /\ draining' = FALSE /\ over' = {}
  /\ UNCHANGED <<row, conn, pending, pumps, grants, feature, todo, link, memory, told,
                 fate, faults, slips>>

\* Mutant of Unregistered: whatever the hub's connection is, it goes.
UnregisteredAny(c) == None

\* Hub.Unregister: only the connection that ended.
Unregistered(c) == IF conn = c THEN None ELSE conn

\* The read loop of a socket that is dead ends (it starts after the drain) and
\* unregisters the connection.
PumpEnds(c) ==
  /\ c \in pumps /\ ~Sound(c) /\ ~(draining /\ c = conn)
  /\ pumps' = pumps \ {c}
  /\ conn' = Unregistered(c)
  /\ UNCHANGED <<row, pending, grants, feature, draining, todo, over, link, memory, told,
                 fate, faults, slips>>

\* Hub.Ack, for an acknowledgement that arrives.
AckArrives(i) ==
  /\ i \in acks /\ ~draining
  /\ acks' = acks \ {i}
  /\ row' = [row EXCEPT ![i] = "none"]
  /\ UNCHANGED <<conn, pending, pumps, grants, feature, draining, todo, over, sock, cut,
                 kicked, wire, memory, told, fate, faults, slips>>

\* An acknowledgement goes down with the connection it was sent on.
AckLost(i) ==
  /\ i \in acks /\ (sock = None \/ ~Sound(sock))
  /\ acks' = acks \ {i}
  /\ UNCHANGED <<buffer, sock, cut, kicked, wire, memory, told, fate, faults, slips>>

Age(i) ==
  /\ i \in accepted \ past
  /\ past' = past \cup {i}
  /\ UNCHANGED <<buffer, link, memory, told, sent, accepted, cancelled, withdrawn,
                 handed, faults, slips>>

\* Buffer.ExpireTTL, in the background and without the lock.
ExpireTTL ==
  /\ \E i \in past : row[i] # "none"
  /\ row' = [i \in Envelopes |-> IF i \in past THEN "none" ELSE row[i]]
  /\ UNCHANGED <<conn, pending, pumps, grants, feature, draining, todo, over, link,
                 memory, told, fate, faults, slips>>

\* The relay restarts, maybe as another build: its buffer is a file, all else
\* is gone.  What it had written may still be read by the client.
RelayRestart ==
  /\ Fault
  /\ conn' = None /\ pending' = {} /\ pumps' = {}
  /\ draining' = FALSE /\ todo' = {} /\ over' = {}
  /\ kicked' = Conns /\ acks' = {}
  /\ grants' \in Features
  /\ UNCHANGED <<row, feature, sock, cut, wire, memory, told, fate, slips>>

---------------------------------------------------------------------------
(* The client *)

\* A connect whose handshake is done; both sides know if it acknowledges.
Connect(c) ==
  /\ sock = None /\ c \notin pending \cup pumps
  /\ sock' = c /\ cut' = FALSE /\ kicked' = kicked \ {c}
  /\ pending' = pending \cup {c}
  /\ feature' = [feature EXCEPT ![c] = grants]
  /\ turned' = {}
  /\ UNCHANGED <<row, conn, pumps, grants, draining, todo, over, wire, acks, memory,
                 settled, ran, forgot, fate, faults, slips>>

\* The client drops its socket: suspended on purpose, or found dead.
Leave ==
  /\ sock # None
  /\ IF Sound(sock) THEN Fault ELSE UNCHANGED faults
  /\ sock' = None /\ cut' = FALSE /\ wire' = {}
  /\ UNCHANGED <<buffer, kicked, acks, memory, told, fate, slips>>

\* The network or the phone's system silently cuts the socket; what was not
\* read yet may be gone.
Cut ==
  /\ sock # None /\ Sound(sock) /\ Fault
  /\ cut' = TRUE /\ wire' \in SUBSET wire
  /\ UNCHANGED <<buffer, sock, kicked, acks, memory, told, fate, slips>>

\* sendAck: only on a live socket of a connection that granted acks.
SendAck(i) ==
  acks' = IF sock # None /\ Sound(sock) /\ feature[sock] THEN acks \cup {i} ELSE acks

\* rememberHandled, over a bounded set that forgets one to take another.
Remember(i) ==
  IF Cardinality(recent \cup {i}) <= RecentLimit
    THEN recent' = recent \cup {i}
    ELSE \E j \in recent \ {i} : recent' = (recent \cup {i}) \ {j}

\* dispatchEnvelope: an expired envelope is dropped and counts as handled, one
\* with no handler ready is left to the relay, any other is run.
Dispatch(i) ==
  \/ /\ i \in Expiring \cap past
     /\ phase' = [phase EXCEPT ![i] = "recording"]
     /\ settled' = settled \cup {i} /\ UNCHANGED <<ran, turned>>
  \/ /\ i \notin Expiring \cap past
     /\ phase' = [phase EXCEPT ![i] = "running"]
     /\ ran' = [ran EXCEPT ![i] = @ + 1] /\ UNCHANGED <<settled, turned>>
  \/ /\ i \notin Expiring \cap past
     /\ phase' = [phase EXCEPT ![i] = "idle"]
     /\ turned' = turned \cup {i} /\ UNCHANGED <<settled, ran>>

\* receiveEnvelope, and handleEnvelope up to its first await.
Receive(i) ==
  LET ack == feature[sock]
  IN  /\ i \in wire
      /\ wire' = wire \ {i}
      /\ \/ /\ i \in recent
            /\ SendAck(i)
            /\ UNCHANGED <<phase, durable, settled, ran, turned>>
         \/ /\ i \notin recent /\ phase[i] # "idle"
            /\ UNCHANGED <<acks, phase, durable, settled, ran, turned>>
         \/ /\ i \notin recent /\ phase[i] = "idle"
            /\ durable' = [durable EXCEPT ![i] = ack]
            /\ IF i \in unrecorded
                 THEN /\ phase' = [phase EXCEPT ![i] = "recording"]
                      /\ UNCHANGED <<settled, ran, turned>>
                 ELSE IF ack
                 THEN /\ phase' = [phase EXCEPT ![i] = "asking"]
                      /\ UNCHANGED <<settled, ran, turned>>
                 ELSE Dispatch(i)
            /\ UNCHANGED acks
      /\ UNCHANGED <<buffer, sock, cut, kicked, recent, unrecorded, record,
                     forgot, fate, faults, slips>>

\* Mutant of AskSeen: the repeated copy is recognised and not acked.
AskSeenSilent(i) ==
  /\ phase[i] = "asking" /\ i \in record
  /\ phase' = [phase EXCEPT ![i] = "idle"]
  /\ Remember(i)
  /\ UNCHANGED <<buffer, link, durable, unrecorded, record, told, fate, faults, slips>>

\* The durable record of an earlier copy is looked up: it is there, it is not,
\* or the store cannot say.
AskSeen(i) ==
  /\ phase[i] = "asking" /\ i \in record
  /\ phase' = [phase EXCEPT ![i] = "idle"]
  /\ Remember(i) /\ SendAck(i)
  /\ UNCHANGED <<buffer, sock, cut, kicked, wire, durable, unrecorded, record,
                 told, fate, faults, slips>>

AskUnseen(i) ==
  /\ phase[i] = "asking" /\ i \notin record
  /\ Dispatch(i)
  /\ UNCHANGED <<buffer, link, durable, recent, unrecorded, record, forgot, fate,
                 faults, slips>>

AskFails(i) ==
  /\ phase[i] = "asking"
  /\ phase' = [phase EXCEPT ![i] = "idle"]
  /\ turned' = turned \cup {i}
  /\ UNCHANGED <<buffer, link, durable, recent, unrecorded, record, settled, ran,
                 forgot, fate, faults, slips>>

\* The handler ends, well or by throwing.
HandlerEnds(i) ==
  /\ phase[i] = "running"
  /\ phase' = [phase EXCEPT ![i] = "recording"]
  /\ settled' = settled \cup {i}
  /\ UNCHANGED <<buffer, link, durable, recent, unrecorded, record, ran, forgot,
                 turned, fate, faults, slips>>

\* finishHandled: the record before the ack, and no ack without it.
Finish(i) ==
  /\ phase[i] = "recording"
  /\ record' = IF durable[i] THEN record \cup {i} ELSE record
  /\ unrecorded' = unrecorded \ {i}
  /\ phase' = [phase EXCEPT ![i] = "idle"]
  /\ Remember(i) /\ SendAck(i)
  /\ UNCHANGED <<buffer, sock, cut, kicked, wire, durable, told, fate, faults, slips>>

\* Mutant of FinishFails: the handling is acked although its record failed.
FinishFailsAcked(i) ==
  /\ phase[i] = "recording" /\ durable[i]
  /\ phase' = [phase EXCEPT ![i] = "idle"]
  /\ Remember(i) /\ SendAck(i)
  /\ UNCHANGED <<buffer, sock, cut, kicked, wire, durable, unrecorded, record,
                 told, fate, faults, slips>>

FinishFails(i) ==
  /\ phase[i] = "recording" /\ durable[i]
  /\ unrecorded' = unrecorded \cup {i}
  /\ phase' = [phase EXCEPT ![i] = "idle"]
  /\ turned' = turned \cup {i}
  /\ UNCHANGED <<buffer, link, durable, recent, record, settled, ran, forgot,
                 fate, faults, slips>>

\* pruneHandledRecords: a record is dropped an hour after the relay's time to
\* live.  No copy is then on its way: a drain began, and wrote, within the hour.
Prune(i) ==
  /\ i \in record \cap past
  /\ i \notin wire \cup (todo \ over) /\ phase[i] = "idle"
  /\ record' = record \ {i}
  /\ UNCHANGED <<buffer, link, phase, durable, recent, unrecorded, told, fate,
                 faults, slips>>

\* The client process dies or is killed in the background.
ClientCrash ==
  /\ Fault
  /\ sock' = None /\ cut' = FALSE /\ wire' = {}
  /\ phase' = [i \in Envelopes |-> "idle"] /\ recent' = {} /\ unrecorded' = {}
  /\ forgot' = [i \in Envelopes |->
                  IF i \notin record /\ ran[i] > forgot[i] THEN ran[i] ELSE forgot[i]]
  /\ UNCHANGED <<buffer, kicked, acks, durable, record, settled, ran, turned,
                 fate, slips>>

---------------------------------------------------------------------------
RelayStep ==
  \/ \E i \in Envelopes : Send(i) \/ DrainRow(i) \/ AckArrives(i) \/ AckLost(i) \/ Age(i)
  \/ \E k \in Cancels : Cancel(k)
  \/ \E c \in Conns : Register(c) \/ PumpEnds(c)
  \/ DrainBreak \/ DrainEnd \/ ExpireTTL \/ RelayRestart

Handling(i) == AskSeen(i) \/ AskUnseen(i) \/ HandlerEnds(i) \/ Finish(i)

ClientStep ==
  \/ \E c \in Conns : Connect(c)
  \/ Leave \/ Cut \/ ClientCrash
  \/ \E i \in Envelopes : Receive(i) \/ Handling(i) \/ AskFails(i) \/ FinishFails(i) \/ Prune(i)

\* The keepalive notices a socket that no longer carries anything.
LeaveDead == Leave /\ ~Sound(sock)

Next == RelayStep \/ ClientStep

Spec == Init /\ [][Next]_vars

\* The node reconnects and the relay's goroutines and the client's promises
\* run; nothing makes a sender send, an envelope age or a fault happen.
Fairness ==
  /\ \A i \in Envelopes :
       /\ WF_vars(DrainRow(i)) /\ WF_vars(AckArrives(i))
       /\ WF_vars(Receive(i)) /\ WF_vars(Handling(i))
  /\ \A c \in Conns :
       /\ WF_vars(Register(c)) /\ WF_vars(PumpEnds(c))
       /\ WF_vars(Connect(c))
  /\ WF_vars(DrainBreak) /\ WF_vars(DrainEnd) /\ WF_vars(LeaveDead)

SteadySpec == Spec /\ Fairness

---------------------------------------------------------------------------
(* What should hold *)

\* Every variable has its type; only a registered socket is the hub's
\* connection, and without a socket the client has nothing to read
\* (hub.go:40, msgbox_ws.ts:121).
TypeOK ==
  /\ row \in [Envelopes -> {"none", "kept", "written"}]
  /\ conn \in pumps \cup {None} /\ sock \in Conns \cup {None}
  /\ pending \subseteq Conns /\ pumps \subseteq Conns /\ kicked \subseteq Conns
  /\ grants \in Features /\ feature \in [Conns -> Features]
  /\ draining \in BOOLEAN /\ cut \in BOOLEAN
  /\ (draining => conn # None) /\ (sock = None => wire = {})
  /\ todo \subseteq Envelopes /\ over \subseteq Envelopes
  /\ wire \subseteq Envelopes /\ acks \subseteq Envelopes
  /\ recent \subseteq Envelopes /\ unrecorded \subseteq Envelopes
  /\ record \subseteq Envelopes /\ turned \subseteq Envelopes
  /\ sent \subseteq Envelopes /\ accepted \subseteq Envelopes
  /\ past \subseteq Envelopes /\ settled \subseteq Envelopes
  /\ cancelled \subseteq Requests /\ withdrawn \subseteq Requests
  /\ handed \subseteq Envelopes
  /\ phase \in [Envelopes -> {"idle", "asking", "running", "recording"}]
  /\ durable \in [Envelopes -> BOOLEAN]
  /\ ran \in [Envelopes -> Nat] /\ forgot \in [Envelopes -> Nat]
  /\ faults \in Nat /\ slips \in Nat

\* An envelope the relay took is still in its buffer unless its handler ended,
\* its time passed, it was cancelled, or it was written to a connection that
\* does not acknowledge: no disconnect, crash or failing store loses it
\* (hub.go:24 "a socket that dies after the write loses nothing").
NothingLost ==
  \A i \in accepted : row[i] # "none" \/ i \in settled \cup past \cup cancelled \cup handed

\* The relay is told to drop an envelope only when its handling is on record or
\* its time has passed, so no crash can make it run twice once its ack is out
\* (msgbox_ws.ts:1036, 1099).
AckedIsRecorded ==
  acks \subseteq record \cup past

\* A handler runs again only after a crash between its run and its record: not
\* for resends, reconnects, refused records, evicted memory or pruned records
\* (msgbox_ws.ts:154, 1099).
HandledOnce ==
  \A i \in Envelopes : ran[i] <= forgot[i] + 1

\* The client's socket, once registered and while it carries, is the one the hub
\* knows, and no envelope that was never written waits meanwhile, except behind
\* the running drain or a mark that was not made (hub.go:42-51).
OnlineNeverWaits ==
  sock \in pumps /\ Sound(sock) =>
    /\ conn = sock
    /\ draining \/ slips > 0 \/ \A i \in Envelopes : row[i] # "kept"

\* A request whose cancel deleted it outright never runs, as long as every
\* write's mark is made (hub.go:240).
WithdrawnNeverRuns ==
  slips = 0 => \A i \in withdrawn : ran[i] = 0

\* The relay is an at-least-once mailbox to its recipient, on connections that
\* acknowledge (hub.go:17-27).
Box == INSTANCE Mailbox WITH held <- {i \in Envelopes : row[i] # "none"}
ImplementsMailbox == Box!Spec

\* An envelope in the buffer leaves it, or the client leaves it to the relay
\* until the next connect: no drain, reconnect or lost ack strands it
\* (msgbox_ws.ts:1122 "made up for when the relay sends the message again").
EveryEnvelopeLeaves ==
  \A i \in Envelopes :
    (row[i] # "none" /\ i \notin turned) ~> (row[i] = "none" \/ i \in turned)
=============================================================================
