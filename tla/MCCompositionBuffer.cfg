CONSTANTS
    CompMax = 2
    StoreMax = 3
    RangeMax = 2
    KeyChars = {k}
    TipChars = {j}
    Stale = stale
SPECIFICATION Spec
INVARIANTS Consistent ReadsWhole
PROPERTIES TipTextWins CommitOnce
