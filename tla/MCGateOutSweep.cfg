SPECIFICATION FairSpec
CONSTANTS
    g1 = g1
    g2 = g2
    p1 = p1
    p2 = p2
    Passes = {g1, g2}
    Newest <- MCTwoPasses
    Procs = {p1}
    Idle = Idle
    Requested = 2
    Stock = 3
    LevelCounts = {0}
    MaxRounds = 1
    MaxEdits = 1
PROPERTIES
    ExpiresUnlessBlocked
