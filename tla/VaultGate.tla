------------------------------ MODULE VaultGate ------------------------------
(***************************************************************************)
(* What the way into the vaults promises, whatever leads there: a memory   *)
(* is kept in a persona that is open, or in one the owner was asked about  *)
(* for this memory and granted.  A grant may be withdrawn, a refusal is    *)
(* the last word on its card, and what a vault has kept it keeps.          *)
(***************************************************************************)
CONSTANTS
    Memories,   \* what may be kept
    Places      \* the personas

VARIABLES
    unlocked,   \* the personas that are open
    verdict,    \* what became of the question whether a memory may go to a place
    kept        \* the memories in the vault of each place

vars == <<unlocked, verdict, kept>>

Verdicts == {"unasked", "asked", "granted", "refused"}

Init ==
    /\ unlocked = {}
    /\ verdict = [m \in Memories |-> [p \in Places |-> "unasked"]]
    /\ kept = [p \in Places |-> {}]

Turn == unlocked' \in SUBSET Places /\ UNCHANGED <<verdict, kept>>

\* A verdict goes forward only.
Later(v, w) ==
    \/ v = w
    \/ v = "unasked" /\ w = "asked"
    \/ v = "asked" /\ w \in {"granted", "refused"}
    \/ v = "granted" /\ w = "refused"

Rule ==
    /\ \E m \in Memories, p \in Places, w \in Verdicts :
          /\ Later(verdict[m][p], w)
          /\ verdict' = [verdict EXCEPT ![m][p] = w]
    /\ UNCHANGED <<unlocked, kept>>

Keep(m, p) ==
    /\ p \in unlocked \/ verdict[m][p] = "granted"
    /\ kept' = [kept EXCEPT ![p] = @ \cup {m}]
    /\ UNCHANGED <<unlocked, verdict>>

Next == Turn \/ Rule \/ \E m \in Memories, p \in Places : Keep(m, p)

Spec == Init /\ [][Next]_vars

=============================================================================
