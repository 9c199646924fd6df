CONSTANTS
    Devices = {d1, d2}
    Accounts = {a1}
    Tokens = {t1}
    Workers = {w1, w2}
    MaxDevices = 1
    Customers = {c1, c2}
    Phones = {p1}
    None = None
SPECIFICATION SumSpec
SYMMETRY Symmetry
INVARIANTS LimitUnlessMissed AskedBeforeLost OncePerDialog AnnouncedOnce
PROPERTIES OnlyHolderReconnects NoSilentEviction
