SPECIFICATION Spec
CONSTANTS
    planA = planA
    planB = planB
    applyA = applyA
    applyB = applyB
    start = start
    remover = remover
    viewer = viewer
    init = init
    Op <- MCOp
    KindOf <- MCKindOf
    Meetings <- ViewMeeting
    Plan = {p1, p2}
    NoPlan = NoPlan
    Component <- MCComponent
    Actions <- MCActions
    Installs = {"node", "tool", "skill"}
    Routers = {"router"}
    DependsOn <- MCDependsOn
    Faults = FALSE
PROPERTIES
    OwnershipOnlyLostByRemoval
CHECK_DEADLOCK FALSE
