SPECIFICATION FeedSpec
CONSTANTS
    Prices = {1, 2}
    Quantities = {1, 2}
    Conns = {c1, c2}
    MaxOrders = 3
INVARIANTS
    DepthFeedIsBook
    FillsAddUp
    AnswersAreTrue
    OwnerKnowsOpenQuantity
PROPERTIES
    PriceTimePriority
SYMMETRY ConnSymmetry
