SPECIFICATION DownloadSpec
CONSTANTS
    pak1 = pak1
    pak2 = pak2
    pak3 = pak3
    pak4 = pak4
    pak5 = pak5
    None = None
    File <- TwoFiles
    Blocks <- TwoAndOne
    Writable <- TwoFiles
    Window = 3
    Budget = 2
    ShortLimit = 8
    Follows = TRUE
    Sessions <- TwoRedirected
    InFlight = 3
    MaxCommands = 4
INVARIANT SavedWhole
CHECK_DEADLOCK FALSE
