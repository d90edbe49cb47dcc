\* One client and three attempts, with the order of the times of the code;
\* losses, and an authorize server that may be silent.
CONSTANTS
    c1 = c1
    s1 = s1
    Nobody = Nobody
    Client = {c1}
    Server = {s1}
    Exempt = {}
    Rows = 2
    MaxClients = 2
    Resend = 3
    ReconnectLimit = 4
    AuthTimeout = 5
    ZombieTime = 2
    Verdicts <- Definite
    Prompt = TRUE
    MaxAttempts = 3
    MaxNumber = 7
    MaxUnderWay = 9
SPECIFICATION FairSpec
INVARIANT SameConnection
PROPERTY GetsAnAnswer
CHECK_DEADLOCK FALSE
