SPECIFICATION Spec
CONSTANTS
    Call = {c1, c2}
    Key = {k1}
    None = None
    ChildrenRead = FALSE
PROPERTY CallReturns
CHECK_DEADLOCK FALSE
