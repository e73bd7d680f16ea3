SPECIFICATION FairSpec
CONSTANTS
    Name = {1, 2}
    Val = {v1}
    VersionsPerSecond = 1
    Loop = {p1}
    PageLimit = 2
    BufferMax = 2
    MaxEvents = 4
    MaxRefs = 2
    MaxWatches = 1
    MaxFailures = 1
    MaxCloses = 2
INVARIANT Mirror
PROPERTIES WatchStartsFromList FollowsCycle EventuallyMirrors
CHECK_DEADLOCK FALSE
