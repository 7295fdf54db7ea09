\* Three requests at a time over two proposals for one envelope.
SPECIFICATION PrSpec
CONSTANTS
    s1 = s1
    s2 = s2
    s3 = s3
    p1 = p1
    p2 = p2
    e1 = e1
    Nowhere = Nowhere
    Unset = Unset
    NoAudit = NoAudit
    Slots = {s1, s2, s3}
    Props = {p1, p2}
    Envelopes = {e1}
    Amounts = {1, 2}
SYMMETRY Symmetry
INVARIANTS ExecutedAtMostOnce DecisionsMatchEffects
