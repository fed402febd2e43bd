SPECIFICATION ListSpec
CONSTANTS
    Prices = {1, 2}
    Quantities = {1, 2}
    Conns = {c1}
    MaxOrders = 3
INVARIANTS
    CrossingAddAsListed
