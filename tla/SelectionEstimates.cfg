SPECIFICATION SelectionSpec
CONSTANTS
    f1 = f1
    f2 = f2
    f3 = f3
    Frags = {f1, f2, f3}
    Requests <- MCRequests
    Sizes = {1, 3}
    Slack = 1
    MaxTotal = 20
CHECK_DEADLOCK FALSE

INVARIANT WrittenWithinBudget
