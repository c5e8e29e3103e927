SPECIFICATION FairSpec
CONSTANTS
    Sessions = {1}
    Viewers = {}
    Owners = {}
    Commands = {"close", "drag"}
    Faults = {"crash", "savefailed", "savetimeout"}
    UploadResults = {"OK", "FAILED"}
    LimStoreFailures = 2
    AlwaysSaveOnExit = FALSE
    MaxEdits = 1
    MaxSaves = 1
    MaxFromKit = 2
PROPERTIES SaveEnds UnloadCompletes
CHECK_DEADLOCK FALSE
