\* get_block for every key_id, wallet URL and duplicate key, with a writer.
CONSTANTS
    MaxFaults = 3
    MaxTip = 3
SPECIFICATION Spec
INVARIANT TypeOK
PROPERTY GetBlockReturns
\* get_block returns and its thread stops; the writer stops at MaxTip.
CHECK_DEADLOCK FALSE
