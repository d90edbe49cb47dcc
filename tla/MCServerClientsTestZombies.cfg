CONSTANTS
    MaxClients = 2
    PrivateClients = 0
    Base = {b1}
    Port = {1}
    QPort = {1}
    Timeout = 2
    ZombieTime = 1
    ReconnectLimit = 1
    DropScans = 1
    FrameTime = {1}
    TestClients = TRUE
    NoAddress = NoAddress
SPECIFICATION FairSpec
PROPERTY ZombiesAreFreed
