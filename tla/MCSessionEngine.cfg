CONSTANTS
    Ready = ready
    Keys = {"k", "a"}
    MaxKeys = 2
    Texts <- ShortTexts
    NoText <- EmptyText
    Effect <- KanaEffect
    Patience = 2
    ReadyPatience = 2
SPECIFICATION FairSpec
INVARIANT Consistent
PROPERTIES Implements RequestsReturn
