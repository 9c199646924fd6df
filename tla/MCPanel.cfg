CONSTANTS
    Tabs = {x1, x2}
    Tokens = {k1, k2, k3}
    MaxChanges = 1
    Admins = {x1, x2}
    Users = {u1, u2}
    EnvIds = {u1}
    Codes = {y1, y2}
    Challenges = {c1}
    Workers = {w1, w2}
    MaxIds = 1
    MaxPrompts = 1
    MaxTexts = 1
    MaxAttempts = 1
    None = None
SPECIFICATION Spec
SYMMETRY Symmetry
INVARIANTS
    PasswordChangeEndsAll
    BoundIsProven
    GrantWasRight
    AnswersReachAsker
    OnePromptOneText
    ConfirmedIsPreviewed
PROPERTY SessionsAreNotDropped
