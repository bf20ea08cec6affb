CONSTANTS
    Sinks = {"tip", "other"}
    EventSink = "tip"
    HostSink = "g_comp_sink"
    Items = {"i1", "i2"}
    None = "null"
    SinkMax = 2
    MaxCalls = 4
SPECIFICATION ShimSpec
INVARIANTS ShimConsistent NoUseAfterFree FocusTold NothingLeaks
CHECK_DEADLOCK FALSE
