\* Spec 8 scenario 6: a matching start yields its bottles (expected violated).
CONSTANTS
    cuckatoo = cuckatoo
    progpow = progpow
    p1 = p1
    p2 = p2
    PowTypes <- MCPowTypes
    Policies <- MCPolicies
    Target = p1
    Times = {0, 1}
    Incs = {1, 2}
    MaxLen = 4
    LimitSearch = 2
    TimeBits = 6
    Kinds = {"bottle"}
SPECIFICATION Spec
INVARIANT BottleStartYield
\* An iterator that has returned None is not called again.
CHECK_DEADLOCK FALSE
