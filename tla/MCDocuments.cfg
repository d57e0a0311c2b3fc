SPECIFICATION FairSpec
CONSTANTS
    Docs <- MCDocs
    Procs = {p1, p2}
    Nobody = Nobody
    Sheet <- MCSheet
    Present <- MCPresent
    Order <- MCOrder
    Outside = {"external"}
    Inside = {"yard", "quarantine"}
    Opening <- MCOpening
    MaxRounds = 1
    MaxRows = 1
INVARIANTS
    BooksTellTheDocuments
    VoidPutsBackUnlessReassessed
    CirclesNeedEarlierLines
PROPERTIES
    EveryRequestEnds
CHECK_DEADLOCK FALSE
