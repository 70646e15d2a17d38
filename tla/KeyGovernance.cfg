SPECIFICATION Spec
CONSTANTS
    k = k
    r1 = r1
    r2 = r2
    Names <- MCNames
    Requests <- MCRequests
    LimitChoices <- MCLimitChoices
    Default <- MCDefault
    Spends <- MCSpends
    DearestCall = 1
    LongestCall = 1
    MaxMinted = 2
    MaxCount = 3
    MaxChanges = 3
SYMMETRY RequestSymmetry
INVARIANTS
    GovTypeOK
    OvershootBounded
    RequestsWithinLimit
    AnsweredIsSaved
    RevokedStaysRevoked
