SPECIFICATION SetupSpec
CONSTANTS
    InitialSetups <- RepairSetups
    Offered <- Releases
    Directory = {1}
    Platform = "windows"
INVARIANT RepairRestores
CHECK_DEADLOCK FALSE
