CONSTANTS
    Terminals = {"t1"}
    Browser = "b"
    Hosts = {"ip", "name"}
    Responses <- MCResponses
    MaxRequests = 3
    MaxDownloads = 3
    MaxConnections = 1
    WGET_MAX_FILE_SIZE = 2
    ActionQueueSize = 2
    Directory = {"none", "dir"}
SPECIFICATION Spec
CHECK_DEADLOCK FALSE
INVARIANTS
    BodyWhole
    ActionsGated
PROPERTIES
    AddressRequestEnds
    DownloadedMeansSaved
