SPECIFICATION FairSpec
CONSTANTS
    TsMod = 32
    Low = 6
    MaxChunks = 3
    MaxMessage = 11
    FirstSize = 2
    Scripts <- MCScripts
    FirstCap <- MCFirstCap
    MaxCap <- MCMaxCap
INVARIANTS
    TimesArrive
PROPERTIES
    MessagesInOrder
    AllDelivered
CHECK_DEADLOCK FALSE
