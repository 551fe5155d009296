SPECIFICATION Spec
CONSTANTS
    Call = {c1, c2}
    Key = {k1, k2}
    None = None
    ChildrenRead = TRUE
PROPERTIES
    CallReturns
    CloseTerminates
    IdleReclaimed
CHECK_DEADLOCK FALSE
