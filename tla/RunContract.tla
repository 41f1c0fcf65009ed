----------------------------- MODULE RunContract -----------------------------
(***************************************************************************)
(* What the runtime promises about the one record everything else trusts,  *)
(* state.edn: the run sits at one node, moves only along the workflow's    *)
(* edges, takes a fresh attempt number with every move, and leaves a       *)
(* terminal status only by an operator's retry.  Nothing here says how     *)
(* processes, locks, artifacts or the event log bring that about.          *)
(***************************************************************************)
EXTENDS Naturals

CONSTANTS
    Node,       \* states of the workflow
    Initial,    \* the state a run starts in
    Edge,       \* pairs <<n, m>>: some transition leads from n to m
    Terminal    \* the nodes of type :terminal

VARIABLE run    \* [state, status, attempt]

\* A new run is running its initial state under attempt 1.
Init == run = [state |-> Initial, status |-> "running", attempt |-> 1]

\* A node's result selects an edge; arriving at a terminal node finishes the
\* run, and a :fail-run effect fails it on arrival anywhere else.
Advance ==
    /\ run.status \in {"running", "blocked"}
    /\ \E m \in Node, s \in {"running", "failed"} :
        /\ <<run.state, m>> \in Edge
        /\ run' = [state   |-> m,
                   status  |-> IF m \in Terminal THEN "done" ELSE s,
                   attempt |-> run.attempt + 1]

\* The run parks at an approval node until somebody decides.
Block ==
    /\ run.status = "running"
    /\ run' = [run EXCEPT !.status = "blocked"]

\* A node fails, is found orphaned, or the round budget is used up.
Fail ==
    /\ run.status \in {"running", "blocked"}
    /\ run' = [run EXCEPT !.status = "failed"]

\* A run retried at a terminal node finishes there again.
Finish ==
    /\ run.status = "running"
    /\ run.state \in Terminal
    /\ run' = [run EXCEPT !.status = "done"]

\* An operator's cancel wins even over a run that ended after it was asked for.
Cancel == run' = [run EXCEPT !.status = "cancelled"]

\* The only way out of a terminal status, under a new attempt.
Retry ==
    /\ run.status \in {"failed", "cancelled"}
    /\ run' = [state   |-> run.state,
               status  |-> "running",
               attempt |-> run.attempt + 1]

Next == Advance \/ Block \/ Fail \/ Finish \/ Cancel \/ Retry

Spec == Init /\ [][Next]_run

=============================================================================
