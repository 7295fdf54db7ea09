\* Two requests at a time over three accounts.
SPECIFICATION Spec
CONSTANTS
    s1 = s1
    s2 = s2
    Slots = {s1, s2}
    NamePath <- RootAndLeaf
    CodePath <- TwoCodes
    Imbalance = "9999"
    Bodies <- PlainOrHold
    Patches <- Changes
    MaxAccounts = 3
CONSTRAINT Small
ACTION_CONSTRAINT FewInFlight
SYMMETRY Symmetry
INVARIANTS ChartIsForest PlaceholdersTakeNoPostings WalksReuseRows
