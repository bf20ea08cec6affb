CONSTANTS
    CompMax = 2
    StoreMax = 3
    RangeMax = 2
    KeyChars = {k}
    TipChars = {j}
    Stale = stale
SPECIFICATION Spec
PROPERTIES CommitReachesStore
