SPECIFICATION MCSpec
CONSTANTS
    r1 = r1
    r2 = r2
    NoOne = NoOne
    NoAccount = 0
    Requests <- MCRequests
    Callers <- MCRequests
    OAuth <- MCOAuth
    Accounts <- MCOAuth
    NameOf <- MCNameOf
    N = 2
    Base = 1
    MaxCooldown = 2
    MaxTime = 1
    Omits = FALSE
    MaxIssued = 2
PROPERTY RetriedBeforeSidelining
