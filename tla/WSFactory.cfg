SPECIFICATION FairSpec
CONSTANTS
    Socket = {s1, s2}
    Timeouts = {4, 5}
    BufferMax = 2
    InitialDelay = 2
    MaxDelay = 5
    MaxMessages = 4
    MaxFailures = 2
    MaxWait = 13
INVARIANTS InOrderOnce RecentKept NeverStuck
PROPERTIES UserDestroys FinalWithoutRetry Recovers
CHECK_DEADLOCK FALSE
