SPECIFICATION FairSpec
CONSTANTS
    Prices = {0, 1, 2, 3}
    Quantities = {0, 1, 2}
    Conns = {c1}
    MaxOrders = 3
INVARIANTS
    TypeOK
    LookupMatchesLevels
    TotalsMatchOrders
    Uncrossed
    FillOrKillIsAtomic
PROPERTIES
    Answered
    BookSpec
CHECK_DEADLOCK FALSE
