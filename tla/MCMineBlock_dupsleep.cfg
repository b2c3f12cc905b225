\* Spec 4.H step 12: a retry after DuplicateCommitment waits 100 ms (expected violated).
CONSTANTS
    MaxFaults = 3
    MaxTip = 3
SPECIFICATION Spec
PROPERTY DupRetryWaits
\* get_block returns and its thread stops; the writer stops at MaxTip.
CHECK_DEADLOCK FALSE
