\* All three iterators driven to None on every chain of up to four headers.
CONSTANTS
    cuckatoo = cuckatoo
    progpow = progpow
    p1 = p1
    p2 = p2
    PowTypes <- MCPowTypes
    Policies <- MCPolicies
    Target = p1
    Times = {0, 1}
    Incs = {1, 2}
    MaxLen = 4
    LimitSearch = 2
    TimeBits = 6
    Kinds = {"diff", "all", "bottle"}
SPECIFICATION Spec
INVARIANTS TypeOK DiffSamplesMatch AllSamplesMatch BottleYieldsMatch
PROPERTY Termination
\* An iterator that has returned None is not called again.
CHECK_DEADLOCK FALSE
