------------------------------ MODULE TsBridge ------------------------------
(***************************************************************************)
(* The bridges that cut a stream into MPEG-TS: RtmpToTs, FlvToTs, RtspToTs *)
(* and WebRtcToTs (bridge/*/*_to_ts.cpp), the TsSegment they fill, the TS  *)
(* source that hands out PES packets and segments, and behind it the HLS   *)
(* source with its window of segments and its playlist.                    *)
(*                                                                         *)
(* A frame is its kind, its size in bytes and its time.  The 188-byte      *)
(* packets of a PES are computed from its length with the code's own       *)
(* arithmetic; what the bytes say is left out.  The segments reach the HLS *)
(* source through the sink's worker: "posted" is what is on its way.       *)
(***************************************************************************)
EXTENDS Integers, Sequences, FiniteSetsExt, TLC

CONSTANTS
    Streams,       \* bridges with the codecs and the announced tracks of their stream
    VideoBytes,    \* sizes of a coded picture's NAL unit
    AudioBytes,    \* sizes of a raw audio frame
    ParamBytes,    \* size of each parameter set (VPS, SPS, PPS)
    Flush,         \* AAC is buffered until it has this many bytes (1400)
    AdtsSlots,     \* adts_headers_.reserve(200)
    ChunkPackets,  \* packets in a chunk of a TsSegment (4096)
    ts_min_seg_dur, ts_max_seg_dur, ts_max_size,   \* hls_config
    Kept,          \* segments the HLS source keeps (10)
    Listed,        \* segments a playlist names (5)
    min_ts_count_for_m3u8,
    MaxFrames,     \* bound: frames a publisher sends
    NoSeg          \* curr_seg_ is null

ASSUME TsAssumption ==
    /\ Streams \subseteq [bridge : {"rtmp", "flv", "rtsp", "webrtc"}, video : {"h264", "h265"},
                          audio : {"aac", "mp3"}, tracks : {"av", "video", "audio"}]
    /\ \A s \in Streams : /\ s.bridge \in {"rtsp", "webrtc"} => s.audio = "aac"
                          /\ s.bridge = "webrtc" => s.video = "h264"
    /\ VideoBytes \subseteq Nat /\ AudioBytes \subseteq Nat /\ ParamBytes \in Nat
    /\ Flush \in Nat \ {0} /\ AdtsSlots \in Nat /\ Flush <= 7 * AdtsSlots
    /\ ChunkPackets \in Nat \ {0}
    /\ ts_min_seg_dur \in Nat /\ ts_max_seg_dur \in Nat /\ ts_max_size \in Nat
    /\ Kept \in Nat \ {0} /\ Listed \in 1..Kept /\ min_ts_count_for_m3u8 \in Nat
    /\ MaxFrames \in Nat

VARIABLES
    bridge, stream,        \* fixed: the bridge, the codecs and announced tracks
    has_video_, has_audio_, PCR_PID, video_codec_, audio_codec_,
    audio_ready_, wait_first_key_frame_,
    curr_seg_,             \* the open segment, or NoSeg
    audio_buf_,            \* AAC not yet sent: bytes, frames, first timestamp
    continuity_counter_,   \* of the video and the audio PID
    pes,                   \* PES packets of the open segment given to players
    out,                   \* newest PES of each PID: its length and TS packets
    closed,                \* a handler returned false: the sink closes the bridge
    posted,                \* segments on their way to the HLS source
    curr_seq_no_, ts_segments_, m3u8_,    \* HlsLiveMediaSource
    client,                \* a player: the playlist it holds, segments since
    now,                   \* stream time: one unit per frame
    unsent                 \* audio frames taken in and not yet sent inside a PES

muxVars == <<curr_seg_, audio_buf_, continuity_counter_, pes, out, unsent>>
fixedVars == <<bridge, stream>>
infoVars == <<has_video_, has_audio_, PCR_PID, video_codec_, audio_codec_>>
hlsVars == <<curr_seq_no_, ts_segments_, m3u8_, client>>
vars == <<fixedVars, infoVars, audio_ready_, wait_first_key_frame_, muxVars, closed, posted,
          hlsVars, now>>

Times == Nat \cup {-1}
Segment ==
    [at : Seq(Nat \X Nat),        \* where each packet lies: chunk, slot
     index : Nat, off : Nat,      \* ts_chunk_index_, ts_chunk_off_ in packets
     vstart : Times, vend : Nat, astart : Times, aend : Nat,
     first : {"none", "key", "inter"},    \* its first video frame
     pmt : SUBSET {"video", "audio"}]     \* the streams its PMT lists

(***************************************************************************)
(* TsSegment                                                               *)
(***************************************************************************)

\* Mutant: the chunk is taken for full one packet late.
alloc_ts_packet_late(s) ==
    LET full == s.off > ChunkPackets
        i == IF full THEN s.index + 1 ELSE s.index
        o == IF full THEN 0 ELSE s.off
    IN  [s EXCEPT !.at = Append(@, <<i, o>>), !.index = i, !.off = o + 1]

\* Slot of the next packet: a new chunk once the current one is full.
alloc_ts_packet(s) ==
    LET full == s.off >= ChunkPackets
        i == IF full THEN s.index + 1 ELSE s.index
        o == IF full THEN 0 ELSE s.off
    IN  [s EXCEPT !.at = Append(@, <<i, o>>), !.index = i, !.off = o + 1]

alloc_packets(s, n) ==
    LET after[k \in 0..n] == IF k = 0 THEN s ELSE alloc_ts_packet(after[k - 1])
    IN  [s EXCEPT !.at = after[n].at, !.index = after[n].index, !.off = after[n].off]

\* The n packets from a position, chunk after chunk.
get_ts_seg(index, off, n) ==
    [k \in 1..n |-> <<index + (off + k - 1) \div ChunkPackets, (off + k - 1) % ChunkPackets>>]

update_video_dts(s, t, kind) ==
    [s EXCEPT !.vstart = IF @ = -1 THEN t ELSE Min({@, t}), !.vend = Max({@, t}),
              !.first = IF @ = "none" THEN kind ELSE @]

update_audio_pts(s, t) ==
    [s EXCEPT !.astart = IF @ = -1 THEN t ELSE Min({@, t}), !.aend = Max({@, t})]

get_duration(s) ==
    LET v == s.vend - s.vstart
        a == s.aend - s.astart
    IN  CASE s.vstart # -1 /\ s.astart # -1 -> Min({v, a})
          [] s.vstart # -1 /\ s.astart = -1 -> v
          [] s.vstart = -1 /\ s.astart # -1 -> a
          [] OTHER -> 0

get_ts_bytes(s) == 188 * Len(s.at)

\* Mutant: the limits are looked at on key frames only.
can_reap_ts_on_key(is_key, s) ==
    IF s.vstart = -1
    THEN get_duration(s) >= ts_min_seg_dur
    ELSE is_key /\ get_duration(s) >= ts_min_seg_dur

can_reap_ts(is_key, s) ==
    IF s.vstart = -1
    THEN get_duration(s) >= ts_min_seg_dur
    ELSE \/ is_key /\ get_duration(s) >= ts_min_seg_dur
         \/ get_duration(s) >= ts_max_seg_dur
         \/ get_ts_bytes(s) >= ts_max_size

(***************************************************************************)
(* Packetisation                                                           *)
(***************************************************************************)

\* One pass of the loop of create_video_ts: "left" bytes of the PES remain.
\* A padded packet's field length replaces the PCR field's.
ts_packet(left, pcr) ==
    LET pcr_field == IF 12 + left <= 188 THEN 184 - left ELSE 8
        pad_field == IF 6 + left <= 188 THEN 184 - left ELSE 2
        padding == left < 184
        total == IF padding THEN pad_field ELSE IF pcr THEN pcr_field ELSE 0
    IN  [pcr |-> pcr, padding |-> padding, payload |-> 184 - total,
         bytes |-> 4 + (IF pcr THEN pcr_field ELSE 0) + (IF padding THEN pad_field ELSE 0)
                     + (184 - total)]

ts_rest[left \in Int] ==
    IF left <= 0 THEN <<>>
    ELSE <<ts_packet(left, FALSE)>> \o ts_rest[left - ts_packet(left, FALSE).payload]

ts_packets(len, pcr) ==
    <<ts_packet(len, pcr)>> \o ts_rest[len - ts_packet(len, pcr).payload]

\* Mutant: the counter moves on once per PES.
create_ts_per_pes(s, pid, len, pcr) ==
    LET p == ts_packets(len, pcr)
        cc == continuity_counter_[pid]
    IN  [out |-> [out EXCEPT ![pid] =
                     [len |-> len, ts |-> [k \in 1..Len(p) |-> p[k] @@ [cc |-> (cc + k - 1) % 16]]]],
         pes |-> [index |-> s.index, off |-> s.off, n |-> Len(p), pid |-> pid],
         seg |-> alloc_packets(s, Len(p)),
         cc |-> [continuity_counter_ EXCEPT ![pid] = (@ + 1) % 16]]

\* The loop over a PES of the given PID, the position it is announced under
\* (taken before the first packet is allocated), and the segment after it.
create_ts(s, pid, len, pcr) ==
    LET p == ts_packets(len, pcr)
        cc == continuity_counter_[pid]
    IN  [out |-> [out EXCEPT ![pid] =
                     [len |-> len, ts |-> [k \in 1..Len(p) |-> p[k] @@ [cc |-> (cc + k - 1) % 16]]]],
         pes |-> [index |-> s.index, off |-> s.off, n |-> Len(p), pid |-> pid],
         seg |-> alloc_packets(s, Len(p)),
         cc |-> [continuity_counter_ EXCEPT ![pid] = (@ + Len(p)) % 16]]

\* The four bridges have these functions line for line in common.
create_pat(s) == alloc_ts_packet(s)
flv_create_pat(s) == alloc_ts_packet(s)
rtsp_create_pat(s) == alloc_ts_packet(s)
webrtc_create_pat(s) == alloc_ts_packet(s)

Announced == {pid \in {"video", "audio"} : IF pid = "video" THEN has_video_ ELSE has_audio_}
create_pmt(s) == [alloc_ts_packet(s) EXCEPT !.pmt = Announced]
flv_create_pmt(s) == [alloc_ts_packet(s) EXCEPT !.pmt = Announced]
rtsp_create_pmt(s) == [alloc_ts_packet(s) EXCEPT !.pmt = Announced]
webrtc_create_pmt(s) == [alloc_ts_packet(s) EXCEPT !.pmt = Announced]

create_video_ts(s, len, is_key) == create_ts(s, "video", len, PCR_PID = "video" /\ is_key)
flv_create_video_ts(s, len, is_key) == create_ts(s, "video", len, PCR_PID = "video" /\ is_key)
rtsp_create_video_ts(s, len, is_key) == create_ts(s, "video", len, PCR_PID = "video" /\ is_key)
webrtc_create_video_ts(s, len, is_key) == create_ts(s, "video", len, PCR_PID = "video" /\ is_key)

create_audio_ts(s, len) == create_ts(s, "audio", len, FALSE)
flv_create_audio_ts(s, len) == create_ts(s, "audio", len, FALSE)
rtsp_create_audio_ts(s, len) == create_ts(s, "audio", len, FALSE)
webrtc_create_audio_ts(s, len) == create_ts(s, "audio", len, FALSE)

\* std::make_shared<TsSegment>(), then PAT and PMT.
EmptySegment ==
    [at |-> <<>>, index |-> 0, off |-> 0, vstart |-> -1, vend |-> 0, astart |-> -1, aend |-> 0,
     first |-> "none", pmt |-> {}]

NewSegment ==
    CASE bridge = "rtmp" -> create_pmt(create_pat(EmptySegment))
      [] bridge = "flv" -> flv_create_pmt(flv_create_pat(EmptySegment))
      [] bridge = "rtsp" -> rtsp_create_pmt(rtsp_create_pat(EmptySegment))
      [] bridge = "webrtc" -> webrtc_create_pmt(webrtc_create_pat(EmptySegment))

video_ts(s, len, is_key) ==
    CASE bridge = "rtmp" -> create_video_ts(s, len, is_key)
      [] bridge = "flv" -> flv_create_video_ts(s, len, is_key)
      [] bridge = "rtsp" -> rtsp_create_video_ts(s, len, is_key)
      [] bridge = "webrtc" -> webrtc_create_video_ts(s, len, is_key)

audio_ts(s, len) ==
    CASE bridge = "rtmp" -> create_audio_ts(s, len)
      [] bridge = "flv" -> flv_create_audio_ts(s, len)
      [] bridge = "rtsp" -> rtsp_create_audio_ts(s, len)
      [] bridge = "webrtc" -> webrtc_create_audio_ts(s, len)

\* PES of a picture: a header with PTS (and DTS when they differ, which only
\* RTMP and FLV can tell), then the NAL units behind their start codes: an
\* access unit delimiter (H.264), the parameter sets before a key frame.
h264_nalus(f) == 4 + 2 + (IF f.key THEN 2 * (3 + ParamBytes) ELSE 0) + 3 + f.bytes
h265_nalus(f) == 1 + (IF f.key THEN 3 * (3 + ParamBytes) ELSE 0) + 3 + f.bytes
pes_header(f) == IF f.reordered THEN 19 ELSE 14

h264_pes_len(f) == pes_header(f) + h264_nalus(f)
h265_pes_len(f) == pes_header(f) + h265_nalus(f)
flv_h264_pes_len(f) == pes_header(f) + h264_nalus(f)
flv_h265_pes_len(f) == pes_header(f) + h265_nalus(f)
rtsp_h264_pes_len(f) == 14 + h264_nalus(f)
rtsp_h265_pes_len(f) == 14 + h265_nalus(f)
webrtc_h264_pes_len(f) == 14 + h264_nalus(f)

(***************************************************************************)
(* Reaping and muxing, common to the handlers                              *)
(***************************************************************************)
Reaps(is_key) == curr_seg_ # NoSeg /\ can_reap_ts(is_key, curr_seg_)

\* on_ts_segment: the TS source co_spawns every sink's callback.
on_ts_segment(is_key) ==
    posted' = IF Reaps(is_key)
              THEN Append(posted, [dur |-> get_duration(curr_seg_), first |-> curr_seg_.first])
              ELSE posted

OpenSegment(is_key) == IF curr_seg_ = NoSeg \/ Reaps(is_key) THEN NewSegment ELSE curr_seg_
OpenPes(is_key) == IF curr_seg_ = NoSeg \/ Reaps(is_key) THEN <<>> ELSE pes

Kind(f) == IF f.key THEN "key" ELSE "inter"

\* From the reap to on_pes_packet.  A picture whose NAL units do not parse
\* is given up after its segment has been opened.
mux_video(f, len) ==
    LET r == video_ts(OpenSegment(f.key), len, f.key)
    IN  /\ on_ts_segment(f.key)
        /\ IF f.ok
           THEN /\ curr_seg_' = update_video_dts(r.seg, now', Kind(f))
                /\ pes' = Append(OpenPes(f.key), r.pes)
                /\ out' = r.out /\ continuity_counter_' = r.cc
                /\ UNCHANGED closed
           ELSE /\ curr_seg_' = OpenSegment(f.key) /\ pes' = OpenPes(f.key)
                /\ closed' = TRUE /\ UNCHANGED <<out, continuity_counter_>>
        /\ UNCHANGED <<audio_buf_, unsent>>

Drop == UNCHANGED <<muxVars, posted, closed>>

Refuse == closed' = TRUE /\ UNCHANGED <<muxVars, posted>>

\* Mutant: cutting a segment empties the buffer.
mux_aac_cut(bytes, shown) ==
    LET t == IF audio_buf_.len = 0 THEN now' ELSE audio_buf_.ts
        len == audio_buf_.len + 7 + bytes
        n == audio_buf_.n + 1
        r == audio_ts(OpenSegment(FALSE), 14 + len)
    IN  /\ on_ts_segment(FALSE)
        /\ IF len < Flush
           THEN /\ audio_buf_' = IF Reaps(FALSE) THEN [len |-> 7 + bytes, n |-> 1, ts |-> now']
                                ELSE [len |-> len, n |-> n, ts |-> t]
                /\ curr_seg_' = IF Reaps(FALSE) THEN NoSeg ELSE curr_seg_
                /\ pes' = IF Reaps(FALSE) THEN <<>> ELSE pes
                /\ unsent' = unsent + 1
                /\ UNCHANGED <<continuity_counter_, out>>
           ELSE /\ audio_buf_' = [len |-> 0, n |-> 0, ts |-> 0]
                /\ curr_seg_' = update_audio_pts(r.seg, t)
                /\ pes' = IF shown THEN Append(OpenPes(FALSE), r.pes) ELSE OpenPes(FALSE)
                /\ out' = r.out /\ continuity_counter_' = r.cc
                /\ unsent' = unsent + 1 - n
        /\ UNCHANGED closed

\* AAC: reap, buffer the frame behind an ADTS header, and send the buffer as
\* one PES when it is large enough.  shown: the players are given the PES.
mux_aac(bytes, shown) ==
    LET t == IF audio_buf_.len = 0 THEN now' ELSE audio_buf_.ts
        len == audio_buf_.len + 7 + bytes
        n == audio_buf_.n + 1
        r == audio_ts(OpenSegment(FALSE), 14 + len)
    IN  /\ on_ts_segment(FALSE)
        /\ IF len < Flush
           THEN /\ audio_buf_' = [len |-> len, n |-> n, ts |-> t]
                /\ curr_seg_' = IF Reaps(FALSE) THEN NoSeg ELSE curr_seg_
                /\ pes' = IF Reaps(FALSE) THEN <<>> ELSE pes
                /\ unsent' = unsent + 1
                /\ UNCHANGED <<continuity_counter_, out>>
           ELSE /\ audio_buf_' = [len |-> 0, n |-> 0, ts |-> 0]
                /\ curr_seg_' = update_audio_pts(r.seg, t)
                /\ pes' = IF shown THEN Append(OpenPes(FALSE), r.pes) ELSE OpenPes(FALSE)
                /\ out' = r.out /\ continuity_counter_' = r.cc
                /\ unsent' = unsent + 1 - n
        /\ UNCHANGED closed

\* MP3: every frame is a PES of its own.
mux_mp3(bytes) ==
    LET r == audio_ts(OpenSegment(FALSE), 14 + bytes)
    IN  /\ on_ts_segment(FALSE)
        /\ curr_seg_' = update_audio_pts(r.seg, now')
        /\ pes' = Append(OpenPes(FALSE), r.pes)
        /\ out' = r.out /\ continuity_counter_' = r.cc
        /\ UNCHANGED <<audio_buf_, unsent, closed>>

(***************************************************************************)
(* The handlers of the four bridges                                        *)
(***************************************************************************)
\* RtmpToTs.  The key-frame test at the head of a segment is commented out
\* for H.264; for H.265 it makes the callback fail.
process_h264_packet(f) == mux_video(f, h264_pes_len(f))
process_h265_packet(f) ==
    IF curr_seg_ = NoSeg /\ ~f.key THEN Refuse ELSE mux_video(f, h265_pes_len(f))
process_aac_packet(bytes) == IF audio_ready_ THEN mux_aac(bytes, TRUE) ELSE Refuse
process_mp3_packet(bytes) == mux_mp3(bytes)

\* FlvToTs: the same handlers over FLV tags.
flv_process_h264_packet(f) == mux_video(f, flv_h264_pes_len(f))
flv_process_h265_packet(f) ==
    IF curr_seg_ = NoSeg /\ ~f.key THEN Refuse ELSE mux_video(f, flv_h265_pes_len(f))
flv_process_aac_packet(bytes) == IF audio_ready_ THEN mux_aac(bytes, TRUE) ELSE Refuse
flv_process_mp3_packet(bytes) == mux_mp3(bytes)

\* RtspToTs: frames before the first key frame are skipped, and so are inter
\* frames while no segment is open.
SkipsInter(f) == ~f.key /\ (wait_first_key_frame_ \/ curr_seg_ = NoSeg)
generate_h264_ts(f) == IF SkipsInter(f) THEN Drop ELSE mux_video(f, rtsp_h264_pes_len(f))
generate_h265_ts(f) == IF SkipsInter(f) THEN Drop ELSE mux_video(f, rtsp_h265_pes_len(f))
generate_aac_ts(bytes) == mux_aac(bytes, TRUE)

\* WebRtcToTs: only the first key frame is waited for; the transcoded audio
\* goes into the segment and is not handed to the players.
webrtc_generate_h264_ts(f) ==
    IF ~f.key /\ wait_first_key_frame_ THEN Drop ELSE mux_video(f, webrtc_h264_pes_len(f))
process_opus_packet(bytes) == mux_aac(bytes, FALSE)

\* on_video_packet falls back on the codec of the tag when the metadata named
\* none; has_video_ and PCR_PID stay as they are.
on_video_packet(f) ==
    /\ video_codec_' = stream.video
    /\ CASE bridge = "rtmp" /\ stream.video = "h264" -> process_h264_packet(f)
         [] bridge = "rtmp" /\ stream.video = "h265" -> process_h265_packet(f)
         [] bridge = "flv" /\ stream.video = "h264" -> flv_process_h264_packet(f)
         [] bridge = "flv" /\ stream.video = "h265" -> flv_process_h265_packet(f)

on_audio_packet(bytes) ==
    CASE audio_codec_ = "none" -> Refuse
      [] bridge = "rtmp" /\ audio_codec_ = "aac" -> process_aac_packet(bytes)
      [] bridge = "rtmp" /\ audio_codec_ = "mp3" -> process_mp3_packet(bytes)
      [] bridge = "flv" /\ audio_codec_ = "aac" -> flv_process_aac_packet(bytes)
      [] bridge = "flv" /\ audio_codec_ = "mp3" -> flv_process_mp3_packet(bytes)

process_video_packet(f) ==
    /\ UNCHANGED video_codec_
    /\ CASE bridge = "rtsp" /\ stream.video = "h264" -> generate_h264_ts(f)
         [] bridge = "rtsp" /\ stream.video = "h265" -> generate_h265_ts(f)
         [] bridge = "webrtc" -> webrtc_generate_h264_ts(f)

process_audio_packet(bytes) ==
    CASE audio_codec_ = "none" -> Drop
      [] bridge = "rtsp" -> generate_aac_ts(bytes)
      [] bridge = "webrtc" -> process_opus_packet(bytes)

(***************************************************************************)
(* Steps                                                                   *)
(***************************************************************************)
Tagged == bridge \in {"rtmp", "flv"}

Init ==
    /\ stream \in Streams /\ bridge = stream.bridge
    /\ has_video_ = FALSE /\ has_audio_ = FALSE /\ PCR_PID = "none"
    /\ video_codec_ = "none" /\ audio_codec_ = "none"
    /\ audio_ready_ = FALSE /\ wait_first_key_frame_ = TRUE
    /\ curr_seg_ = NoSeg /\ audio_buf_ = [len |-> 0, n |-> 0, ts |-> 0]
    /\ continuity_counter_ = [video |-> 0, audio |-> 0]
    /\ pes = <<>> /\ out = [pid \in {"video", "audio"} |-> [len |-> 0, ts |-> <<>>]]
    /\ closed = FALSE /\ posted = <<>>
    /\ curr_seq_no_ = 0 /\ ts_segments_ = <<>> /\ m3u8_ = <<>>
    /\ client = [list |-> <<>>, since |-> 0]
    /\ now = 0 /\ unsent = 0

\* The metadata of an RTMP or FLV stream, and the codecs an SDP announces,
\* come before the first packet.
announce ==
    /\ PCR_PID = "none"
    /\ has_video_' = (stream.tracks \in {"av", "video"})
    /\ has_audio_' = (stream.tracks \in {"av", "audio"})
    /\ video_codec_' = IF has_video_' THEN stream.video ELSE "none"
    /\ audio_codec_' = IF has_audio_' THEN stream.audio ELSE "none"
    /\ PCR_PID' = IF has_video_' THEN "video" ELSE "audio"
    /\ UNCHANGED <<fixedVars, audio_ready_, wait_first_key_frame_, muxVars, closed, posted,
                   hlsVars, now>>

on_metadata == bridge = "rtmp" /\ announce
flv_on_metadata == bridge = "flv" /\ announce
source_codec_ready == bridge = "rtsp" /\ announce
webrtc_source_codec_ready == bridge = "webrtc" /\ announce

Arrives ==
    /\ PCR_PID # "none" /\ ~closed /\ now < MaxFrames
    /\ now' = now + 1
    /\ UNCHANGED <<fixedVars, hlsVars, has_video_, has_audio_, PCR_PID, audio_codec_>>

VideoFrame ==
    /\ Arrives
    /\ \E f \in [key : BOOLEAN, bytes : VideoBytes, reordered : BOOLEAN, ok : BOOLEAN] :
          /\ f.reordered = (~f.key /\ Tagged)
          /\ ~f.ok => Tagged /\ f.bytes = Min(VideoBytes)
          /\ IF Tagged THEN on_video_packet(f)
             ELSE has_video_ /\ process_video_packet(f)
          /\ wait_first_key_frame_' = (wait_first_key_frame_ /\ (Tagged \/ ~f.key))
    /\ UNCHANGED audio_ready_

AudioFrame ==
    /\ Arrives
    /\ \E bytes \in AudioBytes :
          IF Tagged THEN on_audio_packet(bytes) ELSE process_audio_packet(bytes)
    /\ UNCHANGED <<video_codec_, audio_ready_, wait_first_key_frame_>>

\* The AAC sequence header.
AudioHeader ==
    /\ Tagged /\ audio_codec_ = "aac" /\ ~audio_ready_ /\ ~closed
    /\ audio_ready_' = TRUE
    /\ UNCHANGED <<fixedVars, infoVars, wait_first_key_frame_, muxVars, closed, posted,
                   hlsVars, now>>

\* HlsLiveMediaSource::update_m3u8, under the lock of on_ts_segment.
update_m3u8(segs) ==
    IF m3u8_ = <<>> /\ Len(segs) < min_ts_count_for_m3u8 THEN m3u8_
    ELSE SubSeq(segs, IF Len(segs) >= Listed THEN Len(segs) - Listed + 1 ELSE 1, Len(segs))

\* Mutant: only the listed segments are kept.
hls_on_ts_segment_listed ==
    /\ posted # <<>>
    /\ curr_seq_no_' = curr_seq_no_ + 1
    /\ LET kept == IF Len(ts_segments_) >= Listed THEN Tail(ts_segments_) ELSE ts_segments_
       IN  ts_segments_' = Append(kept, [seq |-> curr_seq_no_', dur |-> Head(posted).dur])
    /\ m3u8_' = update_m3u8(ts_segments_')
    /\ client' = [client EXCEPT !.since = Min({@ + 1, Kept})]
    /\ posted' = Tail(posted)
    /\ UNCHANGED <<fixedVars, infoVars, audio_ready_, wait_first_key_frame_, muxVars, closed,
                   now>>

hls_on_ts_segment ==
    /\ posted # <<>>
    /\ curr_seq_no_' = curr_seq_no_ + 1
    /\ LET kept == IF Len(ts_segments_) >= Kept THEN Tail(ts_segments_) ELSE ts_segments_
       IN  ts_segments_' = Append(kept, [seq |-> curr_seq_no_', dur |-> Head(posted).dur])
    /\ m3u8_' = update_m3u8(ts_segments_')
    /\ client' = [client EXCEPT !.since = Min({@ + 1, Kept})]
    /\ posted' = Tail(posted)
    /\ UNCHANGED <<fixedVars, infoVars, audio_ready_, wait_first_key_frame_, muxVars, closed,
                   now>>

\* A player fetches the playlist; it asks for the segments later.
get_m3u8 ==
    /\ m3u8_ # <<>>
    /\ client' = [list |-> [k \in 1..Len(m3u8_) |-> m3u8_[k].seq], since |-> 0]
    /\ UNCHANGED <<fixedVars, infoVars, audio_ready_, wait_first_key_frame_, muxVars, closed,
                   posted, curr_seq_no_, ts_segments_, m3u8_, now>>

get_ts_segment(seq) == \E k \in 1..Len(ts_segments_) : ts_segments_[k].seq = seq

Next ==
    \/ on_metadata \/ flv_on_metadata \/ source_codec_ready \/ webrtc_source_codec_ready
    \/ VideoFrame \/ AudioFrame \/ AudioHeader
    \/ hls_on_ts_segment \/ get_m3u8

Spec == Init /\ [][Next]_vars

(***************************************************************************)
(* Properties                                                              *)
(***************************************************************************)
TypeOK ==
    /\ curr_seg_ \in Segment \cup {NoSeg}
    /\ audio_buf_ \in [len : Nat, n : Nat, ts : Nat]
    /\ continuity_counter_ \in [{"video", "audio"} -> 0..15]
    /\ has_video_ \in BOOLEAN /\ has_audio_ \in BOOLEAN
    /\ PCR_PID \in {"none", "video", "audio"}
    /\ closed \in BOOLEAN /\ now \in 0..MaxFrames

\* Every TS packet is exactly 188 bytes and the packets of a PES carry it
\* whole and once, unless the packet with the PCR is the last one too
\* (the loop of create_video_ts and create_audio_ts).  The counter of a PID runs
\* on without a gap inside a PES, and the next PES of the PID will continue it,
\* also in another segment (continuity_counter_).
PesFillsItsPackets ==
    \A pid \in {"video", "audio"} :
        LET ts == out[pid].ts
            sum[k \in 0..Len(ts)] == IF k = 0 THEN 0 ELSE sum[k - 1] + ts[k].payload IN
        /\ ~(\E k \in 1..Len(ts) : ts[k].pcr /\ ts[k].padding) =>
              /\ \A k \in 1..Len(ts) : ts[k].bytes = 188
              /\ sum[Len(ts)] = out[pid].len
        /\ \A k \in 2..Len(ts) : ts[k].cc = (ts[k - 1].cc + 1) % 16
        /\ ts # <<>> => continuity_counter_[pid] = (ts[Len(ts)].cc + 1) % 16

\* What a player of the PES packets is sent (send_ts_seg reads each PES back
\* with get_ts_seg) is every packet of the segment after PAT and PMT, once and
\* in order, also across chunks.  WebRtcToTs keeps its audio from the players.
PesRangesTile ==
    curr_seg_ # NoSeg /\ (bridge # "webrtc" \/ ~has_audio_) =>
        LET end[k \in 0..Len(pes)] == IF k = 0 THEN 2 ELSE end[k - 1] + pes[k].n
        IN  /\ end[Len(pes)] = Len(curr_seg_.at)
            /\ \A k \in 1..Len(pes) : get_ts_seg(pes[k].index, pes[k].off, pes[k].n)
                                        = SubSeq(curr_seg_.at, end[k - 1] + 1, end[k])

\* An AAC frame waits in the buffer or has been sent: no frame is lost or sent
\* twice when a segment is cut between them (audio_buf_.clear).  The ADTS
\* headers of the frames that wait fit in the reserved slots, which string_views
\* point into (adts_header_index_ against reserve(200)).
AudioConserved == unsent = audio_buf_.n /\ unsent < AdtsSlots

Full(s) == s.vstart # -1 /\ (get_duration(s) >= ts_max_seg_dur \/ get_ts_bytes(s) >= ts_max_size)
TestsKeyFrame == bridge = "rtsp" \/ (Tagged /\ stream.video = "h265")

\* A segment that holds video and has reached the longest duration or the
\* largest size is never added to: it is handed over first, by whichever of
\* the audio and video handlers runs next (can_reap_ts before every PES).  An
\* inter frame begins a segment ("片段开始的帧，必须是关键帧", rtsp_to_ts.cpp:330)
\* only by cutting one that was full or without video, or behind audio; where
\* the handler tests it, never in the place of a segment that is missing.
CutsAreDue ==
    [][/\ curr_seg_ # NoSeg /\ curr_seg_' \notin {NoSeg, curr_seg_} /\ Full(curr_seg_)
            => posted' # posted
       /\ VideoFrame /\ curr_seg_' # NoSeg /\ curr_seg_'.first = "inter" =>
            IF curr_seg_ = NoSeg THEN ~TestsKeyFrame
            ELSE Len(posted') > Len(posted) => Full(curr_seg_) \/ curr_seg_.vstart = -1]_vars

\* Every playlist names consecutive segments, and a player holding one can
\* still fetch each of them until more than Kept - Listed newer ones have come
\* (on_ts_segment's pop_front against update_m3u8's first_seg_index).
PlaylistServable ==
    /\ \A k \in 2..Len(client.list) : client.list[k] = client.list[k - 1] + 1
    /\ client.since <= Kept - Listed => \A k \in 1..Len(client.list) : get_ts_segment(client.list[k])
=============================================================================
