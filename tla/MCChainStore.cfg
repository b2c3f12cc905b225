CONSTANTS
    h1 = h1
    c1 = c1
    Hashes = {h1}
    Commits = {c1}
    Positions = {1, 9}
    PosBits = 3
    MaxCalls = 3
    Inputs <- MCInputs
    NONE = NONE
    DeleteMayFail = FALSE
INIT Init
NEXT Next
INVARIANTS TypeOK BitmapsHaveBodies
