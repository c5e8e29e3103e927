SPECIFICATION Spec
CONSTANTS
    Sessions = {1}
    Viewers = {}
    Owners = {}
    Commands = {"saveas", "rename", "offline", "online", "token", "shutdown", "drag"}
    Faults = {"hang", "loadtimeout", "idle"}
    UploadResults = {"OK", "TOO_LARGE", "UNAUTHORIZED"}
    LimStoreFailures = 1
    AlwaysSaveOnExit = TRUE
    MaxEdits = 1
    MaxSaves = 1
    MaxFromKit = 2
INVARIANTS CleanMeansStored UploadAccounted
CHECK_DEADLOCK FALSE
