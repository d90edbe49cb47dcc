SPECIFICATION FairSpec
CONSTANTS
    pak1 = pak1
    pak2 = pak2
    pak3 = pak3
    pak4 = pak4
    pak5 = pak5
    None = None
    File <- OneFile
    Blocks <- Two
    Writable <- OneFile
    Window = 2
    Budget = 1
    ShortLimit = 8
    Follows = FALSE
    Sessions <- OneLossy
    InFlight = 3
    MaxCommands = 4
PROPERTY EventuallyLoading
CHECK_DEADLOCK FALSE
