SPECIFICATION ClaimsSpec
CONSTANTS
    Inside = {"yard", "store"}
    Outside = {"mast", "external"}
    External = "external"
    Boxes = {"p", "c1", "c2", "b"}
    CodeOrder <- MCCodeOrder
    Units = {"u1"}
    Sites = {"north", "south"}
    NameOrder <- MCNameOrder
    None = None
    GateIns = {"g1", "g2"}
    Delivery <- MCDelivery
    Workers = {w1, w2}
    NoRequest = NoRequest
    Quantities = {1, 2}
    MaxRequests = 4
INVARIANTS
    ContentsAreWithTheirBox
    BoxClaimsAreBacked
    EarmarksBackedUnlessStale
PROPERTIES
    CarriedEarmarksSurvive
CHECK_DEADLOCK FALSE
