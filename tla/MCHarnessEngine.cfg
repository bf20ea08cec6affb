CONSTANTS
    Ready = ready
    henkan = henkan
    convert = convert
    Commands = {henkan, convert}
    NoCommand = none
    Answers <- Printed
    Patience = 2
    ReadyPatience = 2
SPECIFICATION FairSpec
INVARIANT Consistent
PROPERTIES Implements CallsReturn
