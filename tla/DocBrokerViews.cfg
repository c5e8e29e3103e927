SPECIFICATION Spec
CONSTANTS
    Sessions = {1, 2}
    Viewers = {2}
    Owners = {2}
    Commands = {"save", "close", "drag"}
    Faults = {"download", "conflict", "stale", "savefailed"}
    UploadResults = {"OK", "CONFLICT"}
    LimStoreFailures = 2
    AlwaysSaveOnExit = FALSE
    MaxEdits = 1
    MaxSaves = 1
    MaxFromKit = 2
INVARIANTS CleanMeansStored UntoldIsReported
PROPERTIES StatusNeverRegresses
CHECK_DEADLOCK FALSE
