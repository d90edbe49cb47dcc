SPECIFICATION Spec
CONSTANTS
    entities = entities
    clients = clients
    a = a
    b = b
    Removed = Removed
    Kind <- Kinds
    Number = {1, 2}
    Value <- Values
    World <- Changing
    OtherWorld <- One
    Frames = 3
    MaxDelta = 2
    RingSize <- RingsFive
    ParseRing = 3
    Margin = 1
    Checked <- JustEntities
    Ahead = 1
    MaxMessages = 5
    MaxMaps = 2
    InFlight = 2
INVARIANTS BasesHeld AsBuilt
CHECK_DEADLOCK FALSE
