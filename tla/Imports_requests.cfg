\* Two requests at a time over the batches of one file of two lines.
SPECIFICATION ImSpec
CONSTANTS
    s1 = s1
    s2 = s2
    a1 = a1
    a2 = a2
    Slots = {s1, s2}
    Accounts = {a1, a2}
    Positions = {1, 2}
    MaxBatch = 2
    MaxTx = 2
SYMMETRY Symmetry
INVARIANTS LinesAgreeWithLedger
PROPERTIES ApplyLeavesNothing
\* every id of the bound may be used up
CHECK_DEADLOCK FALSE
