SPECIFICATION MCFairSpec
CONSTANTS
    r1 = r1
    r2 = r2
    Requests <- MCRequests
    NameOf <- MCNameOf
    OAuth <- MCOAuth
    Cap <- MCCap
    N = 1
    MaxHosts = 2
    MaxTargets = 2
    Base = 1
    MaxCooldown = 1
    MaxTime = 1
INVARIANTS
    RouteTypeOK
    SlotsAccountedFor
    OverloadNeverSidelines
PROPERTIES
    EveryRequestEnds
