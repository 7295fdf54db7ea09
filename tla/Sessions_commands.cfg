SPECIFICATION Spec
CONSTANTS
    Clients = {c1, c2}
    SessionIds = {n1, n2, n3}
    Challenges = {j1, j2}
    Codes = {k1, k2}
    Secrets = {x1, x2}
    None = None
CONSTRAINT SmallWhenOverlapping
SYMMETRY Symmetry
INVARIANTS SeriallyOneLivePerLogin SeriallyEnrolledSecretIsProven SeriallyCodesAreSpentOnce SeriallyStoreFollowsRotation
\* every id of the bound may be used up
CHECK_DEADLOCK FALSE
