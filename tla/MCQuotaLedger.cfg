SPECIFICATION Spec
CONSTANTS
    Requests = {r1, r2, r3}
    Keys = {k}
    Days = {1, 2, 6}
    MonthLen = 2
    Retention = 3
    CallDays = 1
    Batch = 1
    MaxTokens = 7
    Amounts = {0, 2}
    Actuals = {1, 3}
    Policies <- MCPolicies
    NoRow = NoRow
    NoActual = NoActual
SYMMETRY Symmetry
CHECK_DEADLOCK FALSE
INVARIANTS
    LedgerBalanced
    ChargesMatchFate
PROPERTY NoOvercommit
