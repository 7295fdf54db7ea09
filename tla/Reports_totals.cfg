SPECIFICATION RpSpec
CONSTANTS
    Accounts <- MCAccounts
    Type <- MCType
    Code <- MCCode
    Name <- MCName
    Private = {"given"}
    Entries = {"in", "out", "line"}
    Plan <- MCPlan
    Chart <- MCChart
    Dates <- MCDates
    Unit = 2
    PageSize = 1
    MaxCommits = 3
CHECK_DEADLOCK FALSE
PROPERTIES
    DebitsEqualCredits
