\* An envelope and a sinking fund over two days, two requests at a time; behaviours
\* with an overlap stay on one day and end with one transaction.
SPECIFICATION Spec
CONSTANTS
    s1 = s1
    s2 = s2
    p1 = p1
    p2 = p2
    Slots = {s1, s2}
    Envelopes = {p1}
    Funds = {p2}
    Rules <- FillAndPercent
    Amounts = {2}
    Moves = {"inflow","transfer","refill","spend"}
    Lookback = 0
    MaxDay = 1
    MaxShadow = 2
CONSTRAINT SmallWhenOverlapping
SYMMETRY Symmetry
INVARIANTS TypeOK SchedulesAreAudited
PROPERTY InflowsAreCounted MovesBetweenLivePools FillStopsAtTarget
