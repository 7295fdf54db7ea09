\* Two households that may share a content, two requests that lift a trigger of audit_log, and a fault.
SPECIFICATION Spec
CONSTANTS
    h1 = h1
    h2 = h2
    c1 = c1
    r1 = r1
    r2 = r2
    Households = {h1, h2}
    Contents = {c1}
    Requests = {r1, r2}
    MaxFaults = 1
INVARIANTS RowsHaveTheirBytes AuditLogIsProtected
PROPERTIES OrphansAreCollected
\* nothing is left to do once every household is erased and the disk empty
CHECK_DEADLOCK FALSE
