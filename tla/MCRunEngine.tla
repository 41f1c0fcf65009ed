----------------------------- MODULE MCRunEngine -----------------------------
(***************************************************************************)
(* Instances of RunEngine.  In the workflow an agent drafts or finds that  *)
(* there is nothing to do, a person approves the draft or rejects it,      *)
(* which fails the run and lets a retry draft again in the next round, and *)
(* a deterministic node builds; no transition covers a bad build.          *)
(***************************************************************************)
EXTENDS RunEngine, TLC

CONSTANTS draft, gate, build, end, ok, bad, p1, p2

MCNode == {draft, gate, build, end}
MCOutcome == {ok, bad}
MCProc == {p1, p2}
MCKind == draft :> "agent" @@ gate :> "approval" @@ build :> "work"
          @@ end :> "terminal"

On(outcomes, next, effects) ==
    [when |-> outcomes, next |-> next, effects |-> effects]

MCTransitions ==
    draft :> <<On({ok}, gate, {}), On({bad}, end, {})>>
    @@ gate :> <<On({ok}, build, {}),
                 On({ok, bad}, draft, {"inc-round", "fail-run"})>>
    @@ build :> <<On({ok}, end, {})>>
    @@ end :> <<>>

\* The agent's status path is stamped with the attempt ...
MCStampAttempt == [n \in MCNode |-> "attempt"]
\* ... or, as in the catalog, with the round.
MCStampRound == [n \in MCNode |-> "round"]

\* Processes are interchangeable; used in the run that has no liveness.
MCSymmetry == Permutations(MCProc)

=============================================================================
