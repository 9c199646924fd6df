CONSTANTS
    Devices = {d1, d2}
    Accounts = {a1}
    Tokens = {}
    Workers = {w1, w2}
    MaxDevices = 1
    None = None
SPECIFICATION Spec
INVARIANT OneReplacementADay
