SPECIFICATION FairSpec
CONSTANTS
    Sessions = {1}
    Viewers = {}
    Owners = {}
    Commands = {"rename"}
    Faults = {}
    UploadResults = {"OK", "FAILED"}
    LimStoreFailures = 2
    AlwaysSaveOnExit = FALSE
    MaxEdits = 1
    MaxSaves = 1
    MaxFromKit = 2
PROPERTIES RenameEnds
CHECK_DEADLOCK FALSE
