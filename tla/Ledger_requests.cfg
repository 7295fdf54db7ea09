\* Two requests at a time; what is claimed of requests served alone is
\* guarded by the history of overlaps.
SPECIFICATION HistorySpec
CONSTANTS
    r1 = r1
    r2 = r2
    p1 = p1
    d1 = d1
    redacted = redacted
    Slots = {r1, r2}
    Periods = {p1}
    Names = {d1}
    Redacted = redacted
    MaxTx = 3
SYMMETRY Symmetry
INVARIANTS VoidLinkIsReversal ShadowFollowsMain ReplacementsAreBacked SeriallyPoolSpendMatchesLedger
PROPERTIES PostedIsImmutable SeriallyClosedPeriodsReceiveNothing SeriallyImplementsBooks
\* every id of the bound may be used up
CHECK_DEADLOCK FALSE
