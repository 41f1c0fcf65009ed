----------------------------- MODULE MCSessions -----------------------------
(***************************************************************************)
(* Two sessions of one run, one whose reference is allocated beforehand    *)
(* and one whose executor emits it, with a plain node that leads back to   *)
(* the first: each session can be continued, left open or closed.          *)
(***************************************************************************)
EXTENDS Sessions, TLC

CONSTANTS r1, r2, r3, none

MCNode == {"plan", "check", "review", "done"}
MCInitial == "plan"
MCKind == [plan |-> "session", check |-> "work", review |-> "session",
           done |-> "terminal"]
MCSuccessors == [plan |-> {"check", "review"}, check |-> {"plan", "done"},
                 review |-> {"plan", "review", "done"}, done |-> {}]
MCExecutor == [n \in MCNode |-> IF n = "review" THEN "opencode" ELSE "claude"]
MCRef == {r1, r2, r3}
MCNoRef == none
Symmetry == Permutations(MCRef)

=============================================================================
