CONSTANTS
    Accounts = {a1, a2}
    Challenges = {c1}
    Links = {k1}
    Grants = {g1, g2}
    Workers = {w1, w2}
    MaxAttempts = 2
    MaxCodes = 2
    None = None
SPECIFICATION Both
SYMMETRY Symmetry
INVARIANTS
    GrantProvesAccount
    HolderIsProven
    GuessesAreBounded
    NoLinkIsForgotten
    AnsweredOnce
