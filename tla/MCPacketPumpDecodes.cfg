SPECIFICATION Spec
CONSTANTS
    PushSize = 2
    MaxSequence = 6
    MaxMaps = 1
    MaxCommands = 0
    MaxUp = 2
    MaxRecords = 1
INVARIANTS DemoDecodes
CHECK_DEADLOCK FALSE
