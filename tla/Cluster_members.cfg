SPECIFICATION Spec
CHECK_DEADLOCK FALSE
CONSTANTS
    View <- ThirdRevoked
    Device = {1, 2, 3}
    Elem = {"a"}
    Object = {"x", "own"}
    Puts <- ThirdHasOwn
    Kinds = {"add"}
    Skew = 1
    Liveness = 1
    Collects = TRUE
    MaxOps = 1
    MaxFrame = 1
    MaxMarks = 2
    MaxNow = 1
INVARIANT OutsiderIsInert
INVARIANT JournalReplayComplete
