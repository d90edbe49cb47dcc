CONSTANTS
    Text = {"say", "disconnect"}
    Leave = "disconnect"
    Empty = "empty"
    RingSize = 3
    InFlight = 2
    MaxCommands = 4
SPECIFICATION Spec
INVARIANT NoneOverwritten
CHECK_DEADLOCK FALSE
