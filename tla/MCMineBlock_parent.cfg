\* Difficulty and bottles come from the block parent (expected violated).
CONSTANTS
    MaxFaults = 3
    MaxTip = 3
SPECIFICATION Spec
INVARIANT OneParent
\* get_block returns and its thread stops; the writer stops at MaxTip.
CHECK_DEADLOCK FALSE
