SPECIFICATION FairSpec
CONSTANTS
    Request <- MCRequest
    Folder = {"f1", "f2"}
    Below <- MCBelow
    Folders <- MCFolders
    Capabilities <- MCCapabilities
    StaleParse = {"refused", "taken"}
INVARIANTS OwnStatus ReportedDone
PROPERTY SessionEnds
CHECK_DEADLOCK FALSE
