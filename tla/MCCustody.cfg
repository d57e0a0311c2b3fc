SPECIFICATION FairSpec
CONSTANTS
    People = {"tom", "ann"}
    Owner = "owner"
    Jobs = {"j1"}
    Assignee <- MCAssignee
    Closeouts <- MCCloseouts
    Workers = {w1, w2}
    Procs = {p1}
    EscalateAfter = 1
    Opening <- MCOpening
    Bounds <- MCBounds
INVARIANTS
    StagesInTurn
PROPERTIES
    CleanCloseUnlessOvertaken
    LeaverHeldNothingUnlessOvertaken
    OwnerHearsOfIt
CHECK_DEADLOCK FALSE
