CONSTANTS
    Batch = batch
    Live = live
    Engines = {batch, live}
    MaxLaunches = 2
    MaxLives = 2
SPECIFICATION FairSpec
INVARIANTS Consistent OwnPipesOnly RestartCleans
PROPERTY WaitsEnd
CHECK_DEADLOCK FALSE
