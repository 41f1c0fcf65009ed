SPECIFICATION FairSpec
CONSTANTS
    p1 = p1
    p2 = p2
    p3 = p3
    Proc <- MCProc
    NoProc = NoProc
    MaxTries = 2
    MaxCrashes = 1
INVARIANTS ExclusiveUntilHolderDies
PROPERTIES WaitersReturn AbandonedIsReclaimed
