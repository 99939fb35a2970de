-------------------------- MODULE MCResponseBridge --------------------------
(***************************************************************************)
(* Finite instances of ResponseBridge for TLC.                             *)
(***************************************************************************)
EXTENDS ResponseBridge

\* The lane of each task, by instance.
NoReasoning == {}
MixedLanes == {2}

\* A process that started its sweeper neither crashes nor stops.
Steady == Running /\ (timer => timer')
SteadySpec == Init /\ [][Steady]_vars /\ Turns /\ Passes

=============================================================================
