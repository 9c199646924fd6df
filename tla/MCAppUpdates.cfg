CONSTANTS
    Ids = {i1, i2}
    Uploads = {u1, u2}
    Workers = {w1, w2}
    MaxVersion = 2
    None = None
SPECIFICATION AppSpec
SYMMETRY Symmetry
VIEW ButLegacy
INVARIANT ServedIsSigned
PROPERTIES PendingKept FileStays WithdrawnByNewer
