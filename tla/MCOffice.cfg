CONSTANTS
    Users = {u1, u2}
    TestUsers = {u1}
    Orders = {o1}
    Licenses = {l1}
    Resets = {w1, w2}
    Reasons = {r1}
    Custom = custom
    Panel = panel
    Dialogs = {d1}
    Methods = {x1, x2}
    Workers = {w1, w2}
    None = None
SPECIFICATION OfficeSpec
SYMMETRY Symmetry
VIEW ButRaced
INVARIANTS
    ResetIsComplete
    CleanupSparesCustomers
    ExclusiveUnlessRaced
    ToldIsOnRecord
    OneMethodPerWizard
PROPERTY RejectionStands
