CONSTANTS
    Text = {"say", "empty", "disconnect"}
    Leave = "disconnect"
    Empty = "empty"
    RingSize = 3
    InFlight = 2
    MaxCommands = 4
SPECIFICATION FairSpec
INVARIANTS TypeOK ExecutesIssued Legible AcknowledgedIsExecuted
PROPERTY EventuallyExecuted
CHECK_DEADLOCK FALSE
