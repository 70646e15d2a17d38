SPECIFICATION Spec
CONSTANTS
    Requests = {r1, r2}
    Foreign = {f}
    Nobody = Nobody
    Queries <- MCQueries
    MaxRestarts = 1
    r1 = r1
    r2 = r2
    f = f
INVARIANTS
    ComfyTypeOK
    NothingLeftBehind
PROPERTIES
    OthersUndisturbed
    EveryChatEnds
CHECK_DEADLOCK FALSE
