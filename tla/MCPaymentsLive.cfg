CONSTANTS
    Users = {u1}
    Offers = {month}
    Orders = {o1}
    Updates = {m1, m2}
    Keys = {k1, k2}
    Workers = {w1, w2}
    None = None
SPECIFICATION FairSpec
PROPERTY IssuedKeyIsKept
