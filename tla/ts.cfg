SPECIFICATION Spec
CONSTANTS
    Streams <- MCStreams
    VideoBytes = {147, 700}
    AudioBytes = {0, 170}
    ParamBytes = 10
    Flush = 21
    AdtsSlots = 3
    ChunkPackets = 4
    ts_min_seg_dur = 1
    ts_max_seg_dur = 2
    ts_max_size = 1128
    Kept = 2
    Listed = 1
    min_ts_count_for_m3u8 = 1
    MaxFrames = 5
    NoSeg = NoSeg
INVARIANTS PesFillsItsPackets PesRangesTile AudioConserved PlaylistServable
PROPERTIES CutsAreDue
CHECK_DEADLOCK FALSE
