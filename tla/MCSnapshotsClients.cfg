SPECIFICATION Spec
CONSTANTS
    entities = entities
    clients = clients
    a = a
    b = b
    Removed = Removed
    Kind <- Kinds
    Number = {1, 2}
    Value <- Values
    World <- Renamed
    OtherWorld <- NewName
    Frames = 3
    MaxDelta = 2
    RingSize <- RingsFive
    ParseRing = 12
    Margin = 2
    Checked <- JustEntities
    Ahead = 2
    MaxMessages = 5
    MaxMaps = 1
    InFlight = 2
INVARIANT AsBuilt
CHECK_DEADLOCK FALSE
