SPECIFICATION Spec
CHECK_DEADLOCK FALSE
CONSTANTS
    View <- AllMembers
    Device = {1, 2}
    Elem = {"a"}
    Object = {}
    Puts <- ThirdHasOwn
    Kinds = {"add", "remove", "lww", "delete"}
    Skew = 0
    Liveness = 1
    Collects = FALSE
    MaxOps = 3
    MaxFrame = 1
    MaxMarks = 0
    MaxNow = 2
INVARIANT TypeOK
INVARIANT StateIsOpSet
