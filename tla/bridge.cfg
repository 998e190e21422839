CONSTANTS
    Players = {p, q}
    MaxBridges = 2
    Timeout = 2
SPECIFICATION FairSpec
 
PROPERTY UnusedIsClosed
CHECK_DEADLOCK FALSE
