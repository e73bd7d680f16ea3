SPECIFICATION Spec
CONSTANTS
    Name = {1, 2}
    Val = {v1}
    VersionsPerSecond = 1
    Loop = {p1}
    PageLimit = 1
    BufferMax = 2
    MaxEvents = 2
    MaxRefs = 2
    MaxWatches = 1
    MaxFailures = 1
    MaxCloses = 2
PROPERTIES WatchStartsFromList
CHECK_DEADLOCK FALSE
