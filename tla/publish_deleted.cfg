CONSTANTS
    Sessions = {a, b}
    Null = Null
SPECIFICATION FairSpec
PROPERTY StreamDeleted
CHECK_DEADLOCK FALSE
