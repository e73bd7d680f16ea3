SPECIFICATION Spec
CONSTANTS
    Name = {1, 2}
    Val = {v1}
    VersionsPerSecond = 1
    Loop = {p1, p2}
    PageLimit = 2
    BufferMax = 2
    MaxEvents = 2
    MaxRefs = 2
    MaxWatches = 2
    MaxFailures = 1
    MaxCloses = 2
PROPERTIES NeverTwice
CHECK_DEADLOCK FALSE
