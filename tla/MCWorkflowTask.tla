--------------------------- MODULE MCWorkflowTask ---------------------------
(***************************************************************************)
(* Finite instances of WorkflowTask for TLC.                               *)
(***************************************************************************)
EXTENDS WorkflowTask, TLC

\* One bounded task class keeps an instance small where a run is about plugin
\* work or generic work alone.
CONSTANT ClassesUsed
Scope == \A t \in Tasks : task[t].status # None => task[t].class \in ClassesUsed

\* Generic agents are interchangeable.
AgentSymmetry == Permutations(Agents)

\* The lane under runners that never report: only leases, backoffs, retries,
\* stale pins, deadlines, the owner and an uninstall move the tasks.  As an
\* action constraint it takes away no step that any fairness condition asks for.
Silent == told' = told /\ late' = late /\ install' # "paused" /\ Scope'
SteadySpec == Spec /\ Fairness /\ Polling

=============================================================================
