CONSTANTS
    RingSize = 3
    UnreliableLimit = 2
    MessageRoom = 9
    InFlight = 2
    MaxCommands = 4
    MaxMessages = 4
    MaxMaps = 1
    Types = {"b"}
    Index = {1}
    Value = {1, 2}
    Command <- MCCommand
SPECIFICATION Spec
INVARIANTS FetchesReceived
CHECK_DEADLOCK FALSE
