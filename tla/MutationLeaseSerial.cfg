SPECIFICATION Spec
CONSTANTS
    cli = cli
    uiA = uiA
    uiB = uiB
    p1 = p1
    p2 = p2
    Op <- MCOp
    Pid <- MCPid
    PidOf <- MCPidOf
    Nonce = {n1, n2, n3, n4}
    NoNonce = NoNonce
    NoFile = NoFile
    Posix = TRUE
    Overlap = {}
    Suspend = FALSE
INVARIANTS
    TypeOK
    MutualExclusion
    SecondAttemptCreates
PROPERTIES
    RemovesOnlyOwnRecord
    StealsOnlyAbandoned
    ImplementsExclusiveLease
    AcquireReturns
