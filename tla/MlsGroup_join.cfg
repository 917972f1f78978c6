SPECIFICATION Spec
CHECK_DEADLOCK FALSE
CONSTANTS
    Member = {"a", "b", "c"}
    Founder = "a"
    Call = {"x"}
    LateJoins = TRUE
    MaxInbox = 1
    MaxLog = 3
    MaxLeaves = 1
    MaxSent = 0
INVARIANT
    ChainsAgree
