SPECIFICATION Spec
CHECK_DEADLOCK FALSE
CONSTANTS
    Device = {1, 2}
    View <- Everyone
    Elem = {"a"}
    Object = {}
    Kinds = {"add", "remove", "delete"}
    Skew = 1
    Liveness = 0
    Collects = TRUE
    MaxOps = 3
    MaxMarks = 2
    MaxFrame = 0
    MaxWall = 2
    Id = {"i1", "i2", "i3"}
    Window = 2
    Cap = 2
    MaxNow = 3
    MaxSteps = 4
    Conn = {"c1", "c2", "c3"}
    PowWindow = 3
    MaxPerWindow = 1
    MaxConns = 2
    PowNow = 4
    MaxClears = 1
    Source = {"c1", "c2"}
    MsgId = {"m1", "m2", "m3", "m4"}
    Ladder = {1, 3}
    Lengths = {1}
    Timeout = 1
    MaxMotes = 3
    MaxCells = 5
    MaxMotesPerConn = 2
    MaxCellsPerConn = 3
    CellNow = 1
    Initiator = {"s1", "s2"}
    GlobalBurst = 1
    GlobalRefill = 1
    SourceBurst = 1
    SourceRefill = 2
    OpkCounts = {0, 1}
    MaxTags = 3
    PruneAt = 0
    GateStart = 2
    GateNow = 3
    MaxCrash = 1
    MaxSaveFail = 1
    MaxOpen = 2
    MaxBundle = 2
    MaxConfigure = 1
    MaxSkip = 1
    MaxSkipped = 2
    MaxSent = 5
    Top = 7
    Fanout = 3
    Leaf = 1
    Ref = {"x", "y"}
    MaxSeq = 4
    MaxFork = 2
INVARIANTS
    DedupIsSound
    BudgetHolds
    SharesHold
    RatchetIsSound
    AdmissionHolds
    DurableDeleteHolds
    ReconcileExact
PROPERTIES
    CollectionIsSafe
    ReplayFollowsOneLog
    Terminates
