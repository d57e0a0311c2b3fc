SPECIFICATION Spec
CONSTANTS
    g1 = g1
    g2 = g2
    p1 = p1
    p2 = p2
    Passes = {g1}
    Newest <- MCOnePass
    Procs = {p1, p2}
    Idle = Idle
    Requested = 2
    Stock = 3
    LevelCounts = {0, 2}
    MaxRounds = 2
    MaxEdits = 1
CONSTRAINT MCCurrent
SYMMETRY MCSymmetry
INVARIANTS
    NeverOverUnlessOvertaken
    WaitsForSomebody
PROPERTIES
    LeavesApproved
    FollowsTheMap
