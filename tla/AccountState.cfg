SPECIFICATION FairSpec
CONSTANTS
    o1 = o1
    o2 = o2
    anthropic = anthropic
    grok = grok
    NoOne = NoOne
    NoFile = NoFile
    Operators <- MCOperators
    Stores <- MCStores
    StoreOf <- MCStoreOf
    NameOf <- MCUniqueNames
    Names <- MCNames
    N = 3
INVARIANTS
    AccountTypeOK
    SettledIsSaved
PROPERTIES
    ImplementsSwitches
    EveryRequestAnswered
