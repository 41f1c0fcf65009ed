SPECIFICATION FairSpec
CHECK_DEADLOCK FALSE
CONSTANTS
    draft = draft
    gate = gate
    build = build
    end = end
    ok = ok
    bad = bad
    p1 = p1
    p2 = p2
    Node <- MCNode
    Kind <- MCKind
    Transitions <- MCTransitions
    Outcome <- MCOutcome
    Stamp <- MCStampRound
    Proc <- MCProc
    Initial = draft
    DeadPid = DeadPid
    NoPid = NoPid
    NoValue = NoValue
    MaxRounds = 2
    Budgets = {1, 3}
    MaxLaunches = 4
    MaxCrashes = 2
INVARIANTS StopsBetweenNodes GateOpensByDecision TypeOK InFlightNeverRerun AttemptNamesOneState
PROPERTIES DecisionIsFinal ImplementsContract CommandsReturn
