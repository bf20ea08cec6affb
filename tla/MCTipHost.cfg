CONSTANTS
    Ctls = {9}
    Lines <- MCLines
    CtlLines <- MCCtlLines
    MaxLines = 2
    Letters = 1
    Modes = {"warm", "oneshot", "snapshot", "drive"}
SPECIFICATION HostFairSpec
INVARIANTS HostConsistent NoResidue SurvivesTeardown Stream
PROPERTY CommandsEnd
CHECK_DEADLOCK FALSE
