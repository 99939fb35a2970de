--------------------------------- MODULE Post ---------------------------------
(***************************************************************************)
(* What a sender's outbox promises the callers of sendD2D.  A call is told *)
(* that its message is sent only when the relay has a copy, and that it is *)
(* queued only when the outbox owes a message under its key.  The outbox   *)
(* owes one message per key at a time, stops owing it only when the relay  *)
(* has a copy or the tries allowed are used up, and never owes it again,   *)
(* unless it has become doubtful who is trying it.                         *)
(***************************************************************************)
EXTENDS Naturals

CONSTANTS Calls, Key, MaxAttempts

VARIABLES
  told,    \* what each call was told
  owed,    \* calls whose message the outbox has to send
  tries,   \* how often it tried each
  taken,   \* calls the relay has a copy of
  doubtful \* calls whose message was taken from somebody who may still try it

vars == <<told, owed, tries, taken, doubtful>>

Init ==
  /\ told = [c \in Calls |-> "nothing"]
  /\ owed = {} /\ taken = {} /\ doubtful = {}
  /\ tries = [c \in Calls |-> 0]

Tell(c, answer) ==
  /\ told[c] = "nothing"
  /\ told' = [told EXCEPT ![c] = answer]

Sent(c) == c \in taken /\ Tell(c, "sent") /\ UNCHANGED <<owed, tries, taken, doubtful>>

Lost(c) == Tell(c, "lost") /\ UNCHANGED <<owed, tries, taken, doubtful>>

SameKey(c) == {o \in owed : Key[o] = Key[c]}

Queued(c) ==
  /\ Tell(c, "queued")
  /\ owed' = IF SameKey(c) = {} THEN owed \cup {c} ELSE owed
  /\ UNCHANGED <<tries, taken, doubtful>>

Over(c) == c \in taken \/ tries'[c] >= MaxAttempts

Settled(c) == owed' = owed \ {c} /\ Over(c)

Revived(c) == c \in doubtful /\ SameKey(c) = {} /\ owed' = owed \cup {c}

Try(c) ==
  /\ c \in owed \cup doubtful
  /\ tries' = [tries EXCEPT ![c] = @ + 1]
  /\ UNCHANGED owed \/ Settled(c) \/ Revived(c)
  /\ UNCHANGED <<told, taken, doubtful>>

Take(c) == taken' = taken \cup {c} /\ UNCHANGED <<told, owed, tries, doubtful>>

Settle(c) ==
  /\ c \in owed
  /\ UNCHANGED <<told, tries, taken, doubtful>>
  /\ Settled(c)

Revive(c) ==
  /\ tries[c] > 0
  /\ Revived(c)
  /\ UNCHANGED <<told, tries, taken, doubtful>>

Doubt ==
  /\ \E S \in SUBSET owed : doubtful' = doubtful \cup S
  /\ UNCHANGED <<told, owed, tries, taken>>

Next ==
  \/ \E c \in Calls :
       Sent(c) \/ Lost(c) \/ Queued(c) \/ Try(c) \/ Take(c) \/ Settle(c) \/ Revive(c)
  \/ Doubt

Spec == Init /\ [][Next]_vars
=============================================================================
