SPECIFICATION FairAttendance
CONSTANTS
    j1 = j1
    j2 = j2
    m1 = m1
    m2 = m2
    Projects = {j1, j2}
    Managers = {m1, m2}
    Director = Nobody
    NoProject = NoProject
    Nobody = Nobody
    FirstManager <- MCFirstManager
    DayLength = 3
    CloseHour = 2
    Horizon = 3
    MaxAge = 3
    Window = 3
    Bounds <- MCBounds
CHECK_DEADLOCK FALSE
INVARIANTS
    NoHourTwiceUnlessBlind
    DayTellsItsSlices
PROPERTIES
    TimesStandUnlessCrossed
    EveryHourIsAsked
