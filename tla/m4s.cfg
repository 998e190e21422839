SPECIFICATION Spec
CONSTANTS
    Fresh = 0
    VideoCodecs = {"none", "h264", "h265"}
    AudioCodecs = {"none", "aac", "mp3"}
    Users = {{"mpd"}, {"rec"}}
    VideoBytes = {50}
    AudioBytes = {50}
    fmp4_min_seg_dur = 2
    fmp4_max_seg_dur = 4
    max_fmp4_seg_bytes = 150
    MP4_DEFAULT_SIZE = 128
    Kept = 2
    Listed = 1
    FrameTimes <- MCTimes
    styp <- MCstyp
    sidx <- MCsidx
    moof <- MCmoof
    mdat <- MCmdat
    MaxHeaders = 2
    MaxPosted = 2
    MaxFailures = 1
INVARIANTS OffsetsTell FetchInTime RecordedManifest
PROPERTY SegmentsTile
CHECK_DEADLOCK FALSE
