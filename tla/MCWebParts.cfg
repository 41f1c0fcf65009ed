SPECIFICATION Spec
CONSTANTS
    Approval <- MCApproval
    ArtifactsOf <- MCArtifactsOf
    NoApproval = NoApproval
    NoArtifact = NoArtifact
    Others = {"tab"}
    Habits <- MCHabits
    Flow = {"f", "g"}
    NoFlow = "noflow"
    Fields <- MCFields
    Errands <- MCErrands
    Id = {"a", "b", "undefined"}
    None = "none"
    Missing = "missing"
    Undefined = "undefined"
    Own = "own"
    When = {"nowhen", "pass", "fail"}
    NoWhen = "nowhen"
    NodeType = {"agent", "deterministic", "router"}
    Workflow = {"w1", "w2"}
    NoDoc = NoDoc
    Bare = Bare
    Packages <- MCPackages
    Work <- MCWork
    Browser = {"p", "q"}
    Tasks <- MCTasks
    ColsPerRow = 2
    GraphNodes <- MCGraphNodes
    Stray = "x"
    MaxEdges = 5
INVARIANTS
    DraftsStayWithApproval
    PreviewIsOfSelection
    DecisionResumesOnce
    StartsAreMeant
    EdgesResolve
    
    NoAckedSaveLost
    CompletedWasPublished
    LayoutReadable
CHECK_DEADLOCK FALSE
