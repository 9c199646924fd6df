CONSTANTS
    Users = {u1}
    Offers = {month, year}
    Orders = {o1, o2}
    Updates = {m1, m2}
    Keys = {k1, k2}
    Workers = {w1, w2}
    MaxAmount = 2
    MaxBusy = 3
    Filled = {{month}}
    Sales = {s1}
    Customers = {c1, c2}
    None = None
SPECIFICATION Shop
SYMMETRY Symmetry
INVARIANTS
    CompletedHasKey
    OfferIsKept
PROPERTY ImplementsLedger
