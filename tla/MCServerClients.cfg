CONSTANTS
    MaxClients = 2
    PrivateClients = 1
    Base = {b1}
    Port = {1, 2}
    QPort = {1, 2}
    Timeout = 1
    ZombieTime = 0
    ReconnectLimit = 1
    DropScans = 1
    FrameTime = {1}
    TestClients = TRUE
    NoAddress = NoAddress
SPECIFICATION FairSpec
INVARIANTS SlotsAgree Reachable
PROPERTY SilentAreFreed

