SPECIFICATION Spec
CHECK_DEADLOCK FALSE
CONSTANTS
    draft = draft
    gate = gate
    build = build
    end = end
    ok = ok
    bad = bad
    p1 = p1
    p2 = p2
    Node <- MCNode
    Kind <- MCKind
    Transitions <- MCTransitions
    Outcome <- MCOutcome
    Stamp <- MCStampAttempt
    Proc <- MCProc
    Initial = draft
    DeadPid = DeadPid
    NoPid = NoPid
    NoValue = NoValue
    MaxRounds = 1
    Budgets = {3}
    MaxLaunches = 3
    MaxCrashes = 1
INVARIANTS ResumeHonoursDecision
