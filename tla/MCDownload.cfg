SPECIFICATION FairSpec
CONSTANTS
    pak1 = pak1
    pak2 = pak2
    pak3 = pak3
    pak4 = pak4
    pak5 = pak5
    None = None
    File <- FiveFiles
    Blocks <- Sizes
    Writable <- PartlyWritable
    Window = 4
    Budget = 2
    ShortLimit = 8
    Follows = TRUE
    Sessions <- OneOrFour
    InFlight = 4
    MaxCommands = 4
INVARIANTS ServerHolds SavedWhole
PROPERTIES ImplementsFileCopy EventuallyCopied
CHECK_DEADLOCK FALSE
