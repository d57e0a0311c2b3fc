SPECIFICATION FairSpec
CONSTANTS
    supplier = supplier
    delivery = delivery
    release = release
    d1 = d1
    d2 = d2
    Entries = {supplier, delivery, release}
    Rank <- MCRank
    Names <- MCNames
    NoOne = NoOne
    Direct = {release}
    Doomable = {release}
    Drains = {d1, d2}
    MaxFaults = 2
INVARIANTS
    PhoneTellsTheTruth
    SupplierComesFirst
PROPERTIES
    KeepsThePromise
    Answered
\* Everything captured has been answered and there is nothing left to send.
CHECK_DEADLOCK FALSE
