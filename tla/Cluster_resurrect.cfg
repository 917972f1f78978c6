SPECIFICATION Spec
CHECK_DEADLOCK FALSE
CONSTANTS
    View <- AllMembers
    Device = {1, 2}
    Elem = {"a"}
    Object = {}
    Puts <- ThirdHasOwn
    Kinds = {"add", "remove"}
    Skew = 1
    Liveness = 1
    Collects = TRUE
    MaxOps = 3
    MaxFrame = 1
    MaxMarks = 2
    MaxNow = 1
INVARIANT StateIsOpSet
