SPECIFICATION Spec
CONSTANTS
    p1 = p1
    p2 = p2
    a1 = a1
    NoOne = NoOne
    NoAccount = NoAccount
    Callers <- MCCallers
    Accounts <- MCAccounts
    Omits = TRUE
    MaxIssued = 3
    MaxCrashes = 0
INVARIANT DurableWhenQuiet
