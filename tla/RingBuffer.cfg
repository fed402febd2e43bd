SPECIFICATION FairSpec
CONSTANTS
    Capacity = 4
    Items = {a, b}
    NoItem = NoItem
    MaxPushes = 6
INVARIANTS
    TypeOK
    NoDataRace
    PermitsMatchItems
PROPERTIES
    QueueSpec
    AcceptedIsDelivered
    PermitNeverWasted
CHECK_DEADLOCK FALSE
