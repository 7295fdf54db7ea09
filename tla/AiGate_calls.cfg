\* Two calls at a time of any kind, and a thread that writes.
SPECIFICATION Spec
CONSTANTS
    c1 = c1
    c2 = c2
    w1 = w1
    u1 = u1
    Calls = {c1, c2}
    Writers = {w1}
    Users = {u1}
    Cap = 1
    Limit = 2
    MaxCost = 1
    MaxFallback = 1
    MaxLines = 2
    Nobody = Nobody
INVARIANTS RecordedOverspendIsBounded
PROPERTIES EveryRequestEnds
