CONSTANTS
    Licenses = {l1, l2}
    Devices = {d1, d2}
    Snapshots = {s1}
    Ranks = {1, 2}
    MaxTime = 1
    Policies = {p1, p2, p3}
    Texts = {whole, half}
    Whole = {whole}
    Default = whole
    Tabs = {d1, d2}
    MaxRevision = 3
    Null = Null
SPECIFICATION AppSpec
SYMMETRY Symmetry
INVARIANTS
    AccessIsRight
    PanelAgrees
    ServedIsWhole
