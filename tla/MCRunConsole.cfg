SPECIFICATION ConsoleSpec
CONSTANTS
    Run = {r1, r2}
    NoRun = NoRun
    Home = home
    Project = {home, other}
    MaxRev = 1
    Acts <- MCActs
    MaxGets = 2
    MaxControls = 1
    MaxConns = 3
INVARIANTS StreamFollowsSelection StreamIsAhead
PROPERTIES DetailSettles StreamsEnd
CHECK_DEADLOCK FALSE
