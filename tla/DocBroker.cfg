SPECIFICATION Spec
CONSTANTS
    Sessions = {1}
    Viewers = {}
    Owners = {}
    Commands = {"save", "upload", "drag"}
    Faults = {"crash", "savefailed", "savetimeout"}
    UploadResults = {"OK", "FAILED"}
    LimStoreFailures = 2
    AlwaysSaveOnExit = FALSE
    MaxEdits = 2
    MaxSaves = 1
    MaxFromKit = 2
INVARIANTS TypeOK CleanMeansStored UntoldIsReported SaveActivityIsSaving UploadAccounted
CHECK_DEADLOCK FALSE
