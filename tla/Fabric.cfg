SPECIFICATION MCFabricSpec
CONSTANTS
    Day = 2
    Id = {"brief", "sweep"}
    Definition <- MCDefinition
    Call = {"list", "due1", "due2", "runBrief", "remove", "putBrief", "putDaily", "putOff", "putSweep"}
    KindOf <- MCKindOf
    IdOf <- MCIdOf
    DefinitionOf <- MCDefinitionOf
    NoId = NoId
    NoCall = NoCall
    NoFile = NoFile
    Meetings <- MCMeetings
    Initial <- MCInitial
    Start = 8
    Keep = 2
    MaxTime = 13
    MaxMishaps = 2
    Overlap = FALSE
    N = 3
    Codex = 2
    InitialConfigs <- MCInitialConfigs
    Edited <- MCLinkEdited
    MaxEdits = 1
    MaxPlans = 1
    D = 3
    MaxPackJobs = 2
    MaxTouches = 2
    Absent = Absent
    Resource = {1, 2}
    TreeContent = {1, 2}
    Blocked = {2}
    InitialHubs <- MCHubs
    Agent = {"codex", "opencode", "copilot"}
    PathOf <- MCPathOf
    DirectoryOf <- MCDirectoryOf
    Fingerprint = {"f0", "f1"}
    InitialFiles <- MCContextFiles
    EditorWrites <- MCEditorWrites
    MaxContextPlans = 2
    MaxContextEdits = 1
    Release = {1, 2}
    MaxInstalls = 3
    OperationId = {1, 2, 3, 4}
    MaxRetained = 2
INVARIANTS
    FabricTypeOK
    NextRunExact
    AllOrNothing
    NothingLost
    OperationsAnswered
PROPERTIES
    ImplementsRoutineBook
    NotDueAgain
    ForeignPreserved
    ForeignKept
    OwnersDirectoriesKept
CHECK_DEADLOCK FALSE
