SPECIFICATION Spec
CONSTANTS
    Entries <- MCEntries
    Scenarios <- MCScenarios
    Kind <- MCKind
    Amount <- MCAmount
    Recorder <- MCRecorder
    OnFloat <- MCOnFloat
    NoFloat = "no float"
    Nights <- MCNights
    IntoYard = {"cable"}
    Managers = {"manager"}
    Budget = 1
    Workers = {w1, w2}
    Idle = Idle
    MaxRequests = 4
INVARIANTS
    NightsPaidOnce
    StatusTellsRequestsUnlessOverwritten
    SilentlyOverOnlyBySideDoors
    ReversedPurchaseIsUndoneUnlessCrossed
CHECK_DEADLOCK FALSE
