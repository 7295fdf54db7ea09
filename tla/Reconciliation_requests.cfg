\* Two requests at a time, one or two reconciliations of the same account.
SPECIFICATION Spec
CONSTANTS
    s1 = s1
    s2 = s2
    l1 = l1
    t1 = t1
    t2 = t2
    NoLine = NoLine
    NoMatch = NoMatch
    Slots = {s1, s2}
    Lines = {l1}
    Tx = {t1, t2}
    Drafts = {t2}
    Worth <- UnitWorth
    Candidates <- AllCandidates
    Spans <- OneSpan
    Nets = {1}
    MaxRec = 2
    MaxInserts = 2
SYMMETRY Symmetry
INVARIANTS MarksAreBacked PointersAreLive InboxLinesCanBeMatched
PROPERTIES CompletionBalances
\* every id of the bound may be used up
CHECK_DEADLOCK FALSE
