SPECIFICATION Spec
CONSTANTS
    entities = entities
    clients = clients
    a = a
    b = b
    Removed = Removed
    Kind <- Kinds
    Number = {1, 2, 3, 4}
    Value <- Values
    World <- Crowd
    OtherWorld <- One
    Frames = 3
    MaxDelta = 2
    RingSize <- RingsLarge
    ParseRing = 7
    Margin = 2
    Checked <- JustEntities
    Ahead = 0
    MaxMessages = 5
    MaxMaps = 1
    InFlight = 2
INVARIANT AsBuilt
CHECK_DEADLOCK FALSE
