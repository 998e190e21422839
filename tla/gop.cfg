CONSTANTS
    Tracks = {"av", "video", "audio"}
    Readers = {r1}
    max_size_ = 3
    MaxKeyframes = 2
    Gap = 1
    Batch = 2
    Codecs = {"aac", "mp3"}
    Sinks = {"rtmp", "flv"}
    MaxIndex = 6
    MaxClears = 4
    NoPkt = NoPkt
SPECIFICATION FairSpec
INVARIANTS RingIsSuffix InOrderUnlessLapped 
PROPERTY CatchesUp
CHECK_DEADLOCK FALSE
