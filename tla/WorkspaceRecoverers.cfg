SPECIFICATION Spec
CONSTANTS
    Item = {"f", "g", "w", "x"}
    Folder = {"f", "g"}
    Top = "top"
    Artifact = {"a"}
    Version = {1, 2, 3}
    MaxItems = 4
    MaxEntries = 4
    Writer = {"createX", "lower", "raise", "delete", "remember", "forget", "add", "replace", "remove"}
    MutationOf <- MCMutationOf
    Reader = {"r1", "r2"}
    NoCall = NoCall
    NoFile = NoFile
    Meetings <- MemoryMeeting
    InitialFiles <- MCInitialFiles
    MaxMishaps = 1
    Overlap = TRUE
    Suspend = FALSE
PROPERTIES
    PointerIsAuthority
