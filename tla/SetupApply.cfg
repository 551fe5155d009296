SPECIFICATION SetupApplySpec
CONSTANTS
    planA = planA
    planB = planB
    applyA = applyA
    applyB = applyB
    start = start
    remover = remover
    viewer = viewer
    init = init
    Op <- MCOp
    KindOf <- MCKindOf
    Meetings <- AllMeetings
    Plan = {p1, p2}
    NoPlan = NoPlan
    Component <- MCComponent
    Actions <- MCActions
    Installs = {"node", "tool", "skill"}
    Routers = {"router"}
    DependsOn <- MCDependsOn
    Faults = TRUE
    InitialSetups <- MCInitialSetups
    Offered <- MCOffered
    Directory = {1, 2}
    Platform = "windows"
INVARIANTS
    ViewsTypeOK
    ConsumedOnce
    AppliesReviewedState
    NoInstallAfterFailedNeed
    JournalIsTrue
    PlanSound
    AcceptedIsPinned
    VersionsJudged
    ApplyConverges
PROPERTIES
    StartupSparesLive
CHECK_DEADLOCK FALSE
