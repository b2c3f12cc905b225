CONSTANTS
    h1 = h1
    h2 = h2
    c1 = c1
    c2 = c2
    r1 = r1
    Hashes = {h1, h2}
    Commits = {c1, c2}
    Positions = {1}
    PosBits = 1
    MaxCalls = 3
    Inputs <- MCInputs
    Outputs <- MCOutputs
    Readers = {r1}
    MaxApplied = 3
    NONE = NONE
    DeleteMayFail = FALSE
SPECIFICATION Spec
INVARIANTS UtxoMatchesStore ReadHeadHasSums
PROPERTIES CommitPublishesWhole PublishesAtomically

