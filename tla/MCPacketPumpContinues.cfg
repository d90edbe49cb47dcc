SPECIFICATION Spec
CONSTANTS
    PushSize = 2
    MaxSequence = 7
    MaxMaps = 1
    MaxCommands = 1
    MaxUp = 1
    MaxRecords = 1
INVARIANTS DemoContinues
CHECK_DEADLOCK FALSE
