SPECIFICATION Spec
CONSTANTS
    Call = {c1, c2, c3}
    Key = {k1, k2}
    None = None
    ChildrenRead = TRUE
SYMMETRY Symmetry
INVARIANTS
    TypeOK
    NoOrphan
    NoCloseUnderUse
PROPERTIES
    SessionLostForCause
CHECK_DEADLOCK FALSE
