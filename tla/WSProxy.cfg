SPECIFICATION FairSpec
CONSTANT MaxPeerSteps = 4
INVARIANTS NothingOpen HolderWrites
PROPERTIES NoLeak EndsTogether
CHECK_DEADLOCK FALSE
