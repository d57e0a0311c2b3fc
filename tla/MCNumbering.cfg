SPECIFICATION NumberingSpec
CONSTANTS
    p1 = p1
    p2 = p2
    p3 = p3
    Writers = {p1, p2, p3}
    NoOne = NoOne
    NoWriting = NoWriting
    MaxNumber = 4
SYMMETRY MCSymmetry
INVARIANTS
    NeverTwiceUnlessStale
    NoGaps
