SPECIFICATION Spec
CONSTANTS
    PushSize = 2
    MaxSequence = 6
    MaxMaps = 2
    MaxCommands = 1
    MaxUp = 1
    MaxRecords = 1
INVARIANTS EventsInOrder SnapshotOfMap DemoInOrder
CHECK_DEADLOCK FALSE
