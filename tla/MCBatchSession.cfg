CONSTANTS
    Callers = {serve}
    Worker = worker
    Nobody = nobody
    Readings = {ka, ki}
    NoReading = none
    Tops <- VaryingTops
    HenkanEx <- HenkanEntries
    Reconv <- TwoCandidates
    ReconvEx <- ReconvEntries
    NoText = notext
    Texts <- Surfaces
    Unset = unset
    CacheMax = 1
    MaxYields = 1
    Limits = {1}
    EngineFails = TRUE
SPECIFICATION HistoryFairSpec
INVARIANTS CacheHoldsWholeLists Consistent EngineExclusive LeadsWithTop1
PROPERTIES Implements CallsReturn PrefetchLands
