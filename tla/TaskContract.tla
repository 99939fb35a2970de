---------------------------- MODULE TaskContract ----------------------------
(***************************************************************************)
(* What a delegated task promises, whatever executes it: it is dispatched  *)
(* by minting claims one after the other, it ends once, its end is         *)
(* announced once and as it happened, and where claims carry tokens no     *)
(* report but the newest claim's can be what ended it.                     *)
(***************************************************************************)
EXTENDS Integers, Sequences

CONSTANTS
    Task,     \* the tasks
    Endings   \* the states a task can end in

VARIABLES
    phase,      \* unborn, waiting, working or the ending
    tokened,    \* whether a report must carry the token of its claim
    minted,     \* the number of claims minted
    winner,     \* the claim whose report ended the task (0: none)
    announced   \* the endings announced

vars == <<phase, tokened, minted, winner, announced>>

Pending == {"waiting", "working"}
Phases == {"unborn"} \cup Pending \cup Endings

Init ==
    /\ phase = [t \in Task |-> "unborn"]
    /\ tokened = [t \in Task |-> FALSE]
    /\ minted = [t \in Task |-> 0]
    /\ winner = [t \in Task |-> 0]
    /\ announced = [t \in Task |-> <<>>]

Same(t) ==
    /\ phase'[t] = phase[t] /\ tokened'[t] = tokened[t] /\ minted'[t] = minted[t]
    /\ winner'[t] = winner[t] /\ announced'[t] = announced[t]

Born(t) ==
    /\ phase[t] = "unborn" /\ phase'[t] = "waiting"
    /\ minted'[t] = minted[t] /\ winner'[t] = winner[t]
    /\ announced'[t] = announced[t]

Dispatch(t) ==
    /\ phase[t] = "waiting" /\ phase'[t] = "working"
    /\ minted'[t] = minted[t] + 1
    /\ tokened'[t] = tokened[t] /\ winner'[t] = winner[t]
    /\ announced'[t] = announced[t]

GiveBack(t) ==
    /\ phase[t] = "working" /\ phase'[t] = "waiting"
    /\ tokened'[t] = tokened[t] /\ minted'[t] = minted[t]
    /\ winner'[t] = winner[t] /\ announced'[t] = announced[t]

\* The claims whose report may end the task.
Winners(t) ==
    IF ~tokened[t] THEN 1..minted[t]
    ELSE IF phase[t] = "working" THEN {minted[t]} ELSE {}

\* The task ends on a report, or on a decision of Core with no report; a
\* claim refused at the door is minted and ended in one step.
Finish(t) ==
    /\ phase[t] \in Pending /\ phase'[t] \in Endings
    /\ announced'[t] = Append(announced[t], phase'[t])
    /\ tokened'[t] = tokened[t]
    /\ \/ minted'[t] = minted[t] /\ winner'[t] \in Winners(t) \cup {winner[t]}
       \/ phase[t] = "waiting" /\ minted'[t] = minted[t] + 1 /\ winner'[t] = winner[t]

\* One sweep may move many tasks at once.
Next == \A t \in Task :
    Same(t) \/ Born(t) \/ Dispatch(t) \/ GiveBack(t) \/ Finish(t)

Spec == Init /\ [][Next]_vars

=============================================================================
