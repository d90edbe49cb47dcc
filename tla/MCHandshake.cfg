\* Seconds are few here: that late packets meet newer ones is what counts.
CONSTANTS
    c1 = c1
    c2 = c2
    s1 = s1
    s2 = s2
    Nobody = Nobody
    Client = {c1, c2}
    Server = {s1, s2}
    Exempt = {c2}
    Rows = 2
    MaxClients = 1
    Resend = 1
    ReconnectLimit = 1
    AuthTimeout = 1
    ZombieTime = 1
    Verdicts <- MCVerdicts
    Prompt = FALSE
    MaxAttempts = 2
    MaxNumber = 11
    MaxUnderWay = 1
SPECIFICATION MCSpec
INVARIANTS ChallengesSound AdmittedWasCleared
CHECK_DEADLOCK FALSE
