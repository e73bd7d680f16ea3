SPECIFICATION Spec
CONSTANTS
    Socket = {s1}
    Timeouts = {60000}
    BufferMax = 0
    InitialDelay = 1000
    MaxDelay = 60000
    MaxMessages = 0
    MaxFailures = 20
    MaxWait = 180001
INVARIANT GivesUp
CHECK_DEADLOCK FALSE
