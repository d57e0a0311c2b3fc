SPECIFICATION MCSpec
CONSTANTS
    yard = yard
    person = person
    site = site
    world = world
    antenna = antenna
    cable = cable
    rope = rope
    good = good
    faulty = faulty
    u1 = u1
    u2 = u2
    d1 = d1
    d2 = d2
    d3 = d3
    none = none
    p1 = p1
    p2 = p2
    Nodes <- MCNodes
    External = world
    Consuming = {site}
    Items = {antenna, cable, rope}
    DefaultMode <- MCDefaultMode
    Conds = {good, faulty}
    Units = {u1, u2}
    Drums = {d1, d2, d3}
    ItemOf <- MCItemOf
    Length <- MCLength
    NoOne = none
    Idle = Idle
    Procs = {p1, p2}
    Requests <- MCRequests
    MaxMovements = 5
SYMMETRY MCSymmetry
INVARIANTS
    NonNegative
    RecomputeAgrees
    UnitPath
    DrumsBacked
    CheckStaysQuiet
