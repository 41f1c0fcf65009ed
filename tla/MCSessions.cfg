CONSTANTS
    r1 = r1
    r2 = r2
    r3 = r3
    none = none
    Node <- MCNode
    Initial <- MCInitial
    Kind <- MCKind
    Successors <- MCSuccessors
    Executor <- MCExecutor
    Ref <- MCRef
    NoRef <- MCNoRef
    MaxAttempt = 4
    MaxCrashes = 2
SPECIFICATION Spec
SYMMETRY Symmetry
INVARIANTS
    PromptDeliveredOnce
    ContinuesOneSession
    OpenIsCurrent
    SuspendedIsProven
    DoneIsClosed
PROPERTIES
    ImplementsSessions
CHECK_DEADLOCK FALSE
