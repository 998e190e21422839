SPECIFICATION FairSpec
CONSTANTS
    MaxFrames = 2
    MaxStatus = 1
    MaxWaiting = 1
    MaxCmds = 2
    MaxRequests = 3
    MaxViewers = 2
    MaxPackets = 2

    
    
    
PROPERTIES
    RefusalIsHeard
    StopsWithSource
    NextRequestRuns
    
    LeavesTheServer
CHECK_DEADLOCK FALSE
