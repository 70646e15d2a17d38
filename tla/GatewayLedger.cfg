SPECIFICATION Spec
CONSTANTS
    Pricing <- MCPricing
    HourLength = 2
    Retention = 2
    RecentCap = 1
    Requests = {r1, r2}
    ClientOf <- MCClientOf
    CallsOf <- MCCallsOf
    Canonical <- MCCanonical
    Masks <- MCMasks
    Configured <- MCConfigured
    Windows = {0, 1}
    Times = {0, 4}
    MaxEvents = 2
    r1 = r1
    r2 = r2
INVARIANTS
    LedgerTypeOK
    AnsweredMasksHold
    FailuresLogged
    UsageKept
    ReportsAddUp
CHECK_DEADLOCK FALSE
