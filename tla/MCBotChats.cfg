CONSTANTS
    Convs = {v1, v2}
    Orders = {o1, o2}
    Offers = {month, year}
    Workers = {w1, w2}
    None = None
SPECIFICATION Spec
SYMMETRY Symmetry
INVARIANTS
    OneOpenConversation
    OnePendingOrder
    LeftForGood
