CONSTANTS
    Installations = {i1, i2, i3}
    Tokens = {t1, t2}
    Workers = {w1, w2}
    MaxLimit = 2
    MaxShut = 1
    None = None
SPECIFICATION Spec
SYMMETRY Symmetry
INVARIANTS
    EndedForGood
PROPERTY
    AddedWithinLimit
