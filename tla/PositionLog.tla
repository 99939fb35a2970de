----------------------------- MODULE PositionLog -----------------------------
(***************************************************************************)
(* What a run promises about the positions of a provider's results: the    *)
(* owner gets them in order and each once.  A position is passed over only *)
(* when the owner gave it up, is then never delivered, and nothing is      *)
(* delivered once the run is being closed.                                 *)
(***************************************************************************)
EXTENDS Naturals

CONSTANT Positions    \* numbers

VARIABLES
    log,       \* positions delivered
    gaps,      \* positions given up
    closed     \* the run admits nothing more

vars == <<log, gaps, closed>>

Init == log = {} /\ gaps = {} /\ closed = FALSE

Settled == log \cup gaps

Admit(p) ==
    /\ ~closed /\ p \notin Settled
    /\ \A q \in Positions : q < p => q \in Settled
    /\ log' = log \cup {p}
    /\ closed' \in BOOLEAN
    /\ UNCHANGED gaps

GiveUp(p) ==
    /\ p \notin log
    /\ gaps' = gaps \cup {p}
    /\ UNCHANGED <<log, closed>>

Close == ~closed /\ closed' = TRUE /\ UNCHANGED <<log, gaps>>

Next == Close \/ \E p \in Positions : Admit(p) \/ GiveUp(p)

Spec == Init /\ [][Next]_vars
=============================================================================
