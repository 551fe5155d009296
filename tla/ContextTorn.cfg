SPECIFICATION ContextSpec
CONSTANTS
    Agent <- TornAgents
    PathOf <- TornPathOf
    DirectoryOf <- TornDirectoryOf
    Fingerprint = {"f0", "f1"}
    InitialFiles <- TornFiles
    EditorWrites = {}
    Absent = Absent
    MaxContextPlans = 2
    MaxContextEdits = 1
PROPERTY HumanTextPreserved
CHECK_DEADLOCK FALSE
