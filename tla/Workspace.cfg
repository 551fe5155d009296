SPECIFICATION Spec
CONSTANTS
    Item = {"f", "g", "w", "x"}
    Folder = {"f", "g"}
    Top = "top"
    Artifact = {"a"}
    Version = {1, 2, 3}
    MaxItems = 4
    MaxEntries = 4
    Writer = {"createX", "lower", "raise", "delete", "remember", "forget", "add", "replace", "remove"}
    MutationOf <- MCMutationOf
    Reader = {"r1"}
    NoCall = NoCall
    NoFile = NoFile
    Meetings <- MCMeetings
    InitialFiles <- MCInitialFiles
    MaxMishaps = 2
    Overlap = FALSE
    Suspend = FALSE
INVARIANTS
    TypeOK
    StoreLoads
    ArtifactContentSurvives
    AnswerTellsOutcome
PROPERTIES
    ImplementsAtomicStore
    FenceLifted
