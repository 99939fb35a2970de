-------------------------------- MODULE Reply --------------------------------
(***************************************************************************)
(* What a node promises of the answers it owes: an answer once made is     *)
(* owed until it is known to have arrived, and is never owed again; only   *)
(* before anything else has it may the node decide to give none.  Only     *)
(* one that nothing but the running process remembers can be lost, and     *)
(* only when that process dies; what a crash makes the node forget of an   *)
(* answer it recorded is that it had arrived, never the answer.            *)
(***************************************************************************)
CONSTANT Queries

VARIABLES
  owed,    \* answers the node has to send
  frail,   \* those of them that only the process remembers
  sent,    \* answers known to have arrived
  lost,    \* answers that a crash took
  withheld \* answers the node decided not to give

vars == <<owed, frail, sent, lost, withheld>>

Init == owed = {} /\ frail = {} /\ sent = {} /\ lost = {} /\ withheld = {}

Answer(q) ==
  /\ q \notin owed \cup sent \cup lost \cup withheld
  /\ owed' = owed \cup {q} /\ frail' = frail \cup {q}
  /\ UNCHANGED <<sent, lost, withheld>>

\* No answer is to be given; no other process, store or owner knows of it.
Withhold(q) ==
  /\ q \in frail /\ withheld' = withheld \cup {q}
  /\ owed' = owed \ {q} /\ frail' = frail \ {q}
  /\ UNCHANGED <<sent, lost>>

\* It is recorded, or put before the owner.
Keep(q) ==
  /\ q \in frail /\ frail' = frail \ {q}
  /\ UNCHANGED <<owed, sent, lost, withheld>>

\* The owner's decision takes it off its card and back into the process.
TakeBack(q) ==
  /\ q \in owed \ sent /\ frail' = frail \cup {q}
  /\ UNCHANGED <<owed, sent, lost, withheld>>

\* A record outlives the arrival, memory does not.
Arrive(q) ==
  /\ q \in owed \ sent
  /\ sent' = sent \cup {q}
  /\ owed' = IF q \in frail THEN owed \ {q} ELSE owed
  /\ frail' = frail \ {q}
  /\ UNCHANGED <<lost, withheld>>

Strike(q) ==
  /\ q \in owed \cap sent /\ owed' = owed \ {q}
  /\ UNCHANGED <<frail, sent, lost, withheld>>

Crash ==
  /\ owed' = owed \ frail /\ lost' = lost \cup frail
  /\ frail' = {} /\ sent' = sent \ owed
  /\ UNCHANGED withheld

Next ==
  \/ \E q \in Queries :
        Answer(q) \/ Withhold(q) \/ Keep(q) \/ TakeBack(q) \/ Arrive(q) \/ Strike(q)
  \/ Crash

Spec == Init /\ [][Next]_vars
=============================================================================
