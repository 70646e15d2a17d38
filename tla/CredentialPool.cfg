SPECIFICATION Spec
CONSTANTS
    p1 = p1
    p2 = p2
    Callers <- MCCallers
    OAuth <- MCOAuth
    NameOf <- MCNameOf
    N = 3
    Base = 1
    MaxCooldown = 3
    MaxTime = 3
SYMMETRY CallerSymmetry
INVARIANTS
    PoolTypeOK
    ParkingBounded
    StreakEarned
    RotationFair
PROPERTIES
    OnlySuccessForgives
