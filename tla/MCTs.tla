-------------------------------- MODULE MCTs --------------------------------
(* The streams of the run "ts".  RTMP and FLV have the same handlers: each *)
(* codec and each choice of tracks is met with one of them.                *)
EXTENDS TsBridge

Stream(b, v, a, t) == [bridge |-> b, video |-> v, audio |-> a, tracks |-> t]

MCStreams ==
    {Stream("rtmp", "h264", "aac", t) : t \in {"av", "audio"}}
        \cup {Stream("rtmp", "h265", "mp3", t) : t \in {"av", "video"}}
        \cup {Stream("flv", "h265", "aac", t) : t \in {"av", "audio"}}
        \cup {Stream("flv", "h264", "mp3", t) : t \in {"video", "audio"}}
        \cup {Stream("rtsp", v, "aac", "av") : v \in {"h264", "h265"}}
        \cup {Stream("rtsp", "h264", "aac", t) : t \in {"video", "audio"}}
        \cup {Stream("webrtc", "h264", "aac", t) : t \in {"av", "video", "audio"}}
=============================================================================
