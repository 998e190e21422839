SPECIFICATION Spec
CONSTANTS
    Mtu = 8
    SeqWrap = 32
    Unset = Unset
    Links <- MCLinks
    Shapes <- MCShapes
    ParamSize <- MCParamSize
    Clock = 3
    TsMod = 64
    AudioNum = 3
    AudioDen = 2
    FrameMs = 1
    Steps <- MCSteps
    Offsets <- MCOffsets
    Bases = {0, 61}
    MaxFrames <- MCMaxFrames
    MaxDups = 1
INVARIANTS  OneFramePerMessage TimesKeepOrder 
CHECK_DEADLOCK FALSE
