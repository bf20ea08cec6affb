CONSTANTS
    Clients = {host, cli}
    Keepers = {host}
    Retriers = {host}
    Ignorers = {host}
    Requests = {r1, r2}
    Nothing = nothing
    EngineFails = TRUE
SPECIFICATION FairSpec
INVARIANTS Consistent OwnAnswer
PROPERTY AnsweredUnlessHeld
