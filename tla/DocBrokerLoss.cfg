SPECIFICATION Spec
CONSTANTS
    Sessions = {1}
    Viewers = {}
    Owners = {}
    Commands = {}
    Faults = {}
    UploadResults = {"OK"}
    LimStoreFailures = 2
    AlwaysSaveOnExit = FALSE
    MaxEdits = 2
    MaxSaves = 1
    MaxFromKit = 2
INVARIANTS NoSilentLoss
CHECK_DEADLOCK FALSE
