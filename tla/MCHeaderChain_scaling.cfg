\* Spec 4.E: a sample's scaling is its header's (expected violated).
CONSTANTS
    cuckatoo = cuckatoo
    progpow = progpow
    p1 = p1
    p2 = p2
    PowTypes <- MCPowTypes
    Policies <- MCPolicies
    Target = p1
    Times = {0, 1}
    Incs = {1, 2}
    MaxLen = 4
    LimitSearch = 2
    TimeBits = 6
    Kinds = {"diff"}
SPECIFICATION Spec
INVARIANT DiffScalingIsHeaders
\* An iterator that has returned None is not called again.
CHECK_DEADLOCK FALSE
