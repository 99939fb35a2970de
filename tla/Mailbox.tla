------------------------------- MODULE Mailbox -------------------------------
(***************************************************************************)
(* What the relay and a recipient's client promise together: a mailbox     *)
(* that gives every envelope it takes to the recipient at least once.  It  *)
(* lets go of an envelope only when the recipient has handled it, its time *)
(* has passed or its sender withdrew it; an envelope it has let go of does *)
(* not come back into it.                                                  *)
(***************************************************************************)
CONSTANTS Envelopes, Target

VARIABLES
  held,       \* envelopes in the mailbox
  accepted,   \* envelopes it has taken
  settled,    \* those the recipient has handled
  past,       \* those whose time has passed
  cancelled   \* those withdrawn

vars == <<held, accepted, settled, past, cancelled>>

Init == held = {} /\ accepted = {} /\ settled = {} /\ past = {} /\ cancelled = {}

Accept(i) ==
  /\ i \notin accepted
  /\ accepted' = accepted \cup {i} /\ held' = held \cup {i}
  /\ UNCHANGED <<settled, past, cancelled>>

Settle(i) ==
  /\ i \in accepted
  /\ settled' = settled \cup {i}
  /\ UNCHANGED <<held, accepted, past, cancelled>>

Lapse(i) ==
  /\ i \in accepted
  /\ past' = past \cup {i}
  /\ UNCHANGED <<held, accepted, settled, cancelled>>

\* The request is let go of; its cancel may be taken in its place.
Withdraw(k) ==
  /\ k \notin accepted
  /\ cancelled' = cancelled \cup {Target[k]}
  /\ \/ accepted' = accepted /\ held' = held \ {Target[k]}
     \/ accepted' = accepted \cup {k} /\ held' = (held \ {Target[k]}) \cup {k}
  /\ UNCHANGED <<settled, past>>

Release ==
  /\ held' \subseteq held
  /\ held \ held' \subseteq settled \cup past \cup cancelled
  /\ UNCHANGED <<accepted, settled, past, cancelled>>

Next ==
  \/ \E i \in Envelopes : Accept(i) \/ Settle(i) \/ Lapse(i)
  \/ \E k \in DOMAIN Target : Withdraw(k)
  \/ Release

Spec == Init /\ [][Next]_vars
=============================================================================
