CONSTANTS
    RingSize = 3
    UnreliableLimit = 2
    MessageRoom = 1
    InFlight = 2
    MaxCommands = 3
    MaxMessages = 4
    MaxMaps = 2
    Types = {"e"}
    Index = {1}
    Value = {1, 2}
    Command <- MCCommand
SPECIFICATION Spec
INVARIANTS WellFormed RingHeld KeysAgree ConfigstringsConverge
PROPERTY ReliableStays
CONSTRAINT InGame
CHECK_DEADLOCK FALSE
