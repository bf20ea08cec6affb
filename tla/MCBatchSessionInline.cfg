CONSTANTS
    Callers = {serve}
    Worker = worker
    Nobody = nobody
    Readings = {ka, ki}
    NoReading = none
    Tops <- FixedTops
    HenkanEx <- HenkanEntries
    Reconv <- TwoCandidates
    ReconvEx <- ReconvEntries
    NoText = notext
    Texts <- Surfaces
    Unset = unset
    CacheMax = 1
    MaxYields = 1
    Limits = {1}
    EngineFails = TRUE
SPECIFICATION HistorySpec
INVARIANT ListMatchesInline
