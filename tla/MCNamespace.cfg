CONSTANTS
    Tip = tip
    Servers = {om}
    Static = {lib}
    Dynamic = {rt}
    Maps = {ce, dn}
    Mutexes = {ib}
    CE = ce
    DN = dn
    Handles = {1, 2}
    MaxOpen = 1
    MaxCalls = 2
    Slots = 1
    None = None
SPECIFICATION FairSpec
INVARIANTS Consistent Sharing StaticNeverLeaks
PROPERTY WorkerCatchesUp
CHECK_DEADLOCK FALSE
