------------------------------ MODULE M4sBridge -----------------------------
(***************************************************************************)
(* RTMP to fragmented MP4: the bridge that cuts a stream into segments     *)
(* (RtmpToM4s), the source that hands them to its sinks (M4sMediaSource),  *)
(* the live DASH manifest (M4sToMpd, MpdLiveMediaSource) with a viewer     *)
(* that reads it and fetches what it lists, and the recorder (M4sRecorder).*)
(*                                                                         *)
(* Bridge, manifest and recorder share a worker: a handler runs to its end *)
(* and what it hands to a sink is posted to the worker's queue.  Idle      *)
(* timers and the closing of bridges are in BridgeLifecycle.               *)
(***************************************************************************)
EXTENDS Integers, Sequences, FiniteSetsExt

CONSTANTS
    VideoCodecs, AudioCodecs,    \* what publishers send; "none" for no such track
    Users,                       \* sets of sinks: "mpd", "rec"
    VideoBytes, AudioBytes,      \* sizes of the frames
    FrameTimes,                  \* the times of the frames a publisher sends, per track
    fmp4_min_seg_dur, fmp4_max_seg_dur, max_fmp4_seg_bytes,
    MP4_DEFAULT_SIZE,            \* what a segment's buffer holds at first
    styp, sidx, moof, mdat,      \* the sizes of the boxes (M4sBoxes): of moof by samples, of mdat by bytes
    Kept, Listed,                \* segments MpdLiveMediaSource keeps and lists
    MaxHeaders, MaxPosted, MaxFailures    \* bounds

Track == {"video", "audio"}

ASSUME M4sAssumption ==
    /\ Users \subseteq SUBSET {"mpd", "rec"}
    /\ VideoBytes \subseteq Nat /\ AudioBytes \subseteq Nat
    /\ FrameTimes \in [Track -> Seq(Nat)]
    /\ Kept \in Nat /\ Listed \in 1..Kept
    /\ MaxHeaders \in Nat /\ MaxPosted \in Nat /\ MaxFailures \in Nat

VARIABLES
    stream, users,   \* the publisher's codecs; the sinks that come, in this behaviour
    sent, headers,   \* frames sent, per track; sequence headers sent
    metadata_, codec_, ready_, stream_ready_,
    pkts_, bytes_, seq_no_, video_reaped_,
    seg_,            \* the segment cut last, per track
    init_seg_,       \* M4sMediaSource: the tracks with an init segment
    closed, crashed,
    sinks_, posted,
    mpd_init_, segments_, mpd_,    \* MpdLiveMediaSource
    viewer,                        \* what a viewer read, and segments since
    rec,                           \* recorder: its state and whether it came late
    rec_init_, m4s_segs_,
    files, failures, manifest      \* on disk; writes that failed; segments listed

bridgeVars == <<metadata_, codec_, ready_, stream_ready_, pkts_, bytes_, seq_no_, video_reaped_,
                seg_, init_seg_, closed, crashed>>
sourceVars == <<stream, users, sent, headers>>
mpdVars    == <<mpd_init_, segments_, mpd_, viewer>>
recVars    == <<rec, rec_init_, m4s_segs_, files, failures, manifest>>
vars       == <<sourceVars, bridgeVars, sinks_, posted, mpdVars, recVars>>

ByTrack(v) == [t \in Track |-> v]
NoSeg == [n |-> 0, start |-> 0, end |-> 0]

Init ==
    /\ stream \in {s \in [Track -> VideoCodecs \cup AudioCodecs] :
                     /\ s["video"] \in VideoCodecs /\ s["audio"] \in AudioCodecs
                     /\ s # ByTrack("none")}
    /\ users \in Users
    /\ sent = ByTrack(0) /\ headers = 0
    /\ metadata_ = FALSE /\ codec_ = ByTrack("none") /\ ready_ = ByTrack(FALSE)
    /\ stream_ready_ = FALSE
    /\ pkts_ = ByTrack(<<>>) /\ bytes_ = ByTrack(0) /\ seq_no_ = ByTrack(1)
    /\ video_reaped_ = FALSE
    /\ seg_ = ByTrack(NoSeg) /\ init_seg_ = {}
    /\ closed = FALSE /\ crashed = FALSE
    /\ sinks_ = {} /\ posted = <<>>
    /\ mpd_init_ = {} /\ segments_ = ByTrack(<<>>) /\ mpd_ = ByTrack(<<>>)
    /\ viewer = [listed |-> ByTrack({}), since |-> ByTrack(0)]
    /\ rec = [state |-> "none", late |-> FALSE] /\ rec_init_ = {} /\ m4s_segs_ = ByTrack(<<>>)
    /\ files = {} /\ failures = 0 /\ manifest = ByTrack({})

-----------------------------------------------------------------------------
(* The bridge.                                                             *)

Working == ~closed /\ ~crashed /\ Len(posted) < MaxPosted

\* A handler that returns false ends the sink's loop, and with it the bridge.
Fails ==
    /\ closed' = TRUE
    /\ UNCHANGED <<metadata_, ready_, stream_ready_, pkts_, bytes_, seq_no_, video_reaped_,
                   seg_, init_seg_, crashed, posted>>

\* A null pointer is dereferenced: the process is gone.
Crash ==
    /\ crashed' = TRUE
    /\ UNCHANGED <<metadata_, ready_, stream_ready_, pkts_, bytes_, seq_no_, video_reaped_,
                   seg_, init_seg_, closed, posted>>

Post(q, to, kind, t, s) == Append(q, [to |-> to, kind |-> kind, track |-> t, seg |-> s])

\* The worker's queue when M4sMediaSource has posted to each of its sinks.
ToSinks(kind, t, s) ==
    LET q == IF "mpd" \in sinks_ THEN Post(posted, "mpd", kind, t, s) ELSE posted IN
        IF "rec" \in sinks_ THEN Post(q, "rec", kind, t, s) ELSE q

on_metadata ==
    /\ Working
    /\ ~metadata_
    /\ metadata_' = TRUE
    /\ codec_' = stream
    /\ UNCHANGED <<sourceVars, ready_, stream_ready_, pkts_, bytes_, seq_no_, video_reaped_, seg_,
                   init_seg_, closed, crashed, sinks_, posted, mpdVars, recVars>>

\* generate_video_init_seg, generate_audio_init_seg; nothing is made for HEVC.
generate_init_seg(t) ==
    IF stream[t] = "h265" THEN UNCHANGED <<init_seg_, posted>>
    ELSE /\ init_seg_' = init_seg_ \cup {t}
         /\ posted' = ToSinks("init", t, NoSeg)

\* A sequence header: the track is ready and gets an init segment.
seq_header(t) ==
    /\ Working
    /\ headers < MaxHeaders
    /\ stream[t] \notin {"none", "mp3"}
    /\ headers' = headers + 1
    /\ IF codec_[t] = "none" /\ t = "audio" THEN Fails /\ UNCHANGED codec_
       ELSE /\ codec_' = [codec_ EXCEPT ![t] = stream[t]]
            /\ ready_' = [ready_ EXCEPT ![t] = TRUE]
            /\ generate_init_seg(t)
            /\ UNCHANGED <<metadata_, stream_ready_, pkts_, bytes_, seq_no_, video_reaped_, seg_,
                           closed, crashed>>
    /\ UNCHANGED <<stream, users, sent, sinks_, mpdVars, recVars>>

can_reap_mp4(is_key, duration, bytes) ==
    \/ duration >= fmp4_min_seg_dur /\ is_key
    \/ duration >= fmp4_max_seg_dur
    \/ bytes >= max_fmp4_seg_bytes

\* The buffer grows once per call, to twice its size.
alloc_buffer(b, s) ==
    [used |-> b.used + s,
     allocated |-> IF b.used + s >= b.allocated THEN 2 * b.allocated ELSE b.allocated]

\* Mutant: the header of mdat is not counted.
data_offset_bare(n, mdat_bytes) == moof[n].size

\* Where the samples begin, counted from the beginning of moof.
data_offset(n, mdat_bytes) == moof[n].size + (mdat[mdat_bytes].size - mdat_bytes)

SampleBytes(ps) == MapThenSumSet(LAMBDA j : ps[j].size, DOMAIN ps)

\* reap_video_seg and reap_audio_seg: styp, sidx, moof and mdat with these packets;
\* dts is the time of the packet behind them.
reap_seg(ps, dts, n) ==
    LET k == Len(ps)
        mdat_bytes == SampleBytes(ps)
        times == Append([j \in 1..k |-> ps[j].ts], dts)
        offset == data_offset(k, mdat_bytes)
        empty == [used |-> 0, allocated |-> MP4_DEFAULT_SIZE]
        fragment == alloc_buffer(alloc_buffer(alloc_buffer(empty, styp.size), sidx.size), moof[k].size) IN
        [n |-> n, start |-> ps[1].ts, end |-> dts,
         sample_durations |-> [j \in 1..k |-> times[j + 1] - times[j]],
         data_offset |-> offset,
         samples_at |-> moof[k].bytes + mdat[mdat_bytes].bytes - mdat_bytes,
         referenced_size |-> offset + mdat_bytes,
         bytes |-> moof[k].bytes + mdat[mdat_bytes].bytes,
         buf |-> alloc_buffer(fragment, mdat[mdat_bytes].size)]

\* The tracks the metadata names are ready: the combined init segment is made, for
\* H.264 and AAC.  A track the stream does not have is dereferenced all the same.
Ready == metadata_ /\ \A t \in Track : stream[t] # "none" => ready_[t]

Combines == codec_["video"] \in {"h264", "none"} /\ codec_["audio"] \in {"aac", "none"}

Crashes == ~stream_ready_ /\ Ready /\ Combines /\ \E t \in Track : codec_[t] = "none"

\* Mutant: the packet that ends a segment is dropped with the packets of it.
keep_drop(t, reaps, p) ==
    /\ pkts_' = [pkts_ EXCEPT ![t] = IF reaps THEN <<>> ELSE Append(@, p)]
    /\ bytes_' = [bytes_ EXCEPT ![t] = IF reaps THEN 0 ELSE @ + p.size]

keep(t, reaps, p) ==
    /\ pkts_' = [pkts_ EXCEPT ![t] = IF reaps THEN <<p>> ELSE Append(@, p)]
    /\ bytes_' = [bytes_ EXCEPT ![t] = IF reaps THEN p.size ELSE @ + p.size]

\* A frame of a track: cut what there is, if it is time, and keep the frame.
mux(t, reaps, p) ==
    /\ stream_ready_' = (stream_ready_ \/ Ready)
    /\ keep(t, reaps, p)
    /\ IF reaps
       THEN LET s == reap_seg(pkts_[t], p.ts, seq_no_[t]) IN
            /\ seg_' = [seg_ EXCEPT ![t] = s]
            /\ seq_no_' = [seq_no_ EXCEPT ![t] = @ + 1]
            /\ video_reaped_' = (t = "video")
            /\ posted' = ToSinks("seg", t, [n |-> s.n, start |-> s.start, end |-> s.end])
       ELSE UNCHANGED <<seg_, seq_no_, video_reaped_, posted>>
    /\ UNCHANGED <<metadata_, ready_, init_seg_, closed, crashed>>

Duration(t, ts) == ts - pkts_[t][1].ts

process_h264_packet(is_key, ts, size) ==
    IF Crashes THEN Crash
    ELSE IF pkts_["video"] = <<>> /\ ~is_key THEN Fails
    ELSE mux("video", Len(pkts_["video"]) >= 2
                        /\ can_reap_mp4(is_key, Duration("video", ts), bytes_["video"]),
             [ts |-> ts, size |-> size])

process_aac_packet(ts, size) ==
    IF ~ready_["audio"] THEN Fails
    ELSE IF Crashes THEN Crash
    ELSE mux("audio", Len(pkts_["audio"]) >= 2
                        /\ (can_reap_mp4(FALSE, Duration("audio", ts), bytes_["audio"]) \/ video_reaped_),
             [ts |-> ts, size |-> size])

\* The next frame of a track, and its time.
Arrives(t) ==
    /\ sent[t] < Len(FrameTimes[t])
    /\ sent' = [sent EXCEPT ![t] = @ + 1]

Timestamp(t) == FrameTimes[t][sent[t] + 1]

\* The codec is the one of the metadata, or else the one of the first packet.
on_video_packet(is_key, size) ==
    /\ Working
    /\ stream["video"] = "h264"
    /\ Arrives("video")
    /\ codec_' = [codec_ EXCEPT !["video"] = stream["video"]]
    /\ process_h264_packet(is_key, Timestamp("video"), size)
    /\ UNCHANGED <<stream, users, headers, sinks_, mpdVars, recVars>>

\* Audio without metadata has no codec.  MP3 frames, like HEVC frames, are passed over.
on_audio_packet(size) ==
    /\ Working
    /\ stream["audio"] # "none"
    /\ Arrives("audio")
    /\ IF codec_["audio"] = "none" THEN Fails
       ELSE IF stream["audio"] = "mp3" THEN UNCHANGED <<bridgeVars, posted>>
       ELSE process_aac_packet(Timestamp("audio"), size)
    /\ UNCHANGED <<stream, users, headers, codec_, sinks_, mpdVars, recVars>>

-----------------------------------------------------------------------------
(* The live manifest.                                                      *)

\* The bridge M4sToMpd is created for the first viewer: its sink is registered,
\* init segments that were made before are not handed to it.
get_or_create_bridge ==
    /\ ~crashed
    /\ "mpd" \in users \ sinks_
    /\ sinks_' = sinks_ \cup {"mpd"}
    /\ UNCHANGED <<sourceVars, bridgeVars, posted, mpdVars, recVars>>

LastOf(q, n) == SubSeq(q, IF Len(q) >= n THEN Len(q) - n + 1 ELSE 1, Len(q))

\* Mutant: one segment less is kept when the window is full.
Window_short(q, s) == Append(IF Len(q) >= Kept THEN Tail(Tail(q)) ELSE q, s)

Window(q, s) == Append(IF Len(q) >= Kept THEN Tail(q) ELSE q, s)

update_mpd(segs) ==
    IF mpd_init_ = Track /\ \A t \in Track : Len(segs[t]) > 1
    THEN [t \in Track |-> LastOf(segs[t], Listed)]
    ELSE mpd_

mpd_on_init_segment(e) ==
    /\ mpd_init_' = mpd_init_ \cup {e.track}
    /\ UNCHANGED <<segments_, mpd_, viewer>>

mpd_on_segment(e) ==
    /\ segments_' = [segments_ EXCEPT ![e.track] = Window(@, e.seg)]
    /\ mpd_' = update_mpd(segments_')
    /\ viewer' = [viewer EXCEPT !.since[e.track] = Min({@ + 1, Kept})]
    /\ UNCHANGED mpd_init_

\* A viewer reads the manifest.  get_mp4_segment then looks for what it lists.
get_mpd ==
    /\ ~crashed
    /\ mpd_ # ByTrack(<<>>)
    /\ viewer' = [listed |-> [t \in Track |-> {mpd_[t][k].n : k \in DOMAIN mpd_[t]}],
                  since |-> ByTrack(0)]
    /\ UNCHANGED <<sourceVars, bridgeVars, sinks_, posted, mpd_init_, segments_, mpd_, recVars>>

get_mp4_segment(t, n) == \E k \in DOMAIN segments_[t] : segments_[t][k].n = n

-----------------------------------------------------------------------------
(* The recorder.                                                           *)

\* get_or_create_recorder, on_create_source: once per publish.  A recorder of an
\* earlier publish is not found again, so this one may come late.  The init
\* segments there are, audio first, are handed to it.
M4sRecorder_init ==
    /\ ~crashed
    /\ "rec" \in users /\ rec.state = "none"
    /\ rec' = [state |-> "on", late |-> \E t \in Track : seq_no_[t] > 1]
    /\ sinks_' = sinks_ \cup {"rec"}
    /\ LET q == IF "audio" \in init_seg_ THEN Post(posted, "rec", "init", "audio", NoSeg) ELSE posted IN
        posted' = IF "video" \in init_seg_ THEN Post(q, "rec", "init", "video", NoSeg) ELSE q
    /\ UNCHANGED <<sourceVars, bridgeVars, mpdVars, rec_init_, m4s_segs_, files, failures, manifest>>

\* The file cannot be opened: the handler returns, an init segment is noted before.
rec_fails(e) ==
    /\ failures < MaxFailures
    /\ failures' = failures + 1
    /\ rec_init_' = IF e.kind = "init" THEN rec_init_ \cup {e.track} ELSE rec_init_
    /\ UNCHANGED <<rec, m4s_segs_, files, manifest>>

rec_on_init_segment(e) ==
    /\ rec_init_' = rec_init_ \cup {e.track}
    /\ files' = files \cup {<<e.track, 0>>}
    /\ UNCHANGED <<rec, m4s_segs_, failures, manifest>>

\* Mutant: the numbers of the recorder start at 0.
SeqNo_zero(t) == Len(m4s_segs_[t])

\* audio_seq_no_ and video_seq_no_ of the recorder count the segments written, from 1.
SeqNo(t) == Len(m4s_segs_[t]) + 1

rec_on_segment(e) ==
    /\ files' = files \cup {<<e.track, e.seg.n>>}
    /\ m4s_segs_' = [m4s_segs_ EXCEPT ![e.track] =
                        Append(@, [seq_no |-> SeqNo(e.track), file |-> e.seg.n])]
    /\ UNCHANGED <<rec, rec_init_, failures, manifest>>

\* A template with the number of the first segment, and a line for each one.
gen_mpd ==
    [t \in Track |->
        IF t \in rec_init_ /\ m4s_segs_[t] # <<>>
        THEN {m4s_segs_[t][1].seq_no + k - 1 : k \in DOMAIN m4s_segs_[t]}
        ELSE {}]

M4sRecorder_close ==
    /\ ~crashed
    /\ rec.state = "on"
    /\ rec' = [rec EXCEPT !.state = "closed"]
    /\ sinks_' = sinks_ \ {"rec"}
    /\ manifest' = gen_mpd
    /\ UNCHANGED <<sourceVars, bridgeVars, posted, mpdVars, rec_init_, m4s_segs_, files, failures>>

-----------------------------------------------------------------------------
\* The worker runs what was posted first.  A recorder that is closed has no
\* callback any more: the call throws and is forgotten.
deliver ==
    /\ ~crashed
    /\ posted # <<>>
    /\ posted' = Tail(posted)
    /\ LET e == Head(posted) IN
        \/ /\ e.to = "mpd"
           /\ IF e.kind = "init" THEN mpd_on_init_segment(e) ELSE mpd_on_segment(e)
           /\ UNCHANGED recVars
        \/ /\ e.to = "rec" /\ rec.state = "on"
           /\ \/ rec_fails(e)
              \/ IF e.kind = "init" THEN rec_on_init_segment(e) ELSE rec_on_segment(e)
           /\ UNCHANGED mpdVars
        \/ /\ e.to = "rec" /\ rec.state = "closed"
           /\ UNCHANGED <<recVars, mpdVars>>
    /\ UNCHANGED <<sourceVars, bridgeVars, sinks_>>

Next ==
    \/ on_metadata
    \/ \E t \in Track : seq_header(t)
    \/ \E is_key \in BOOLEAN, size \in VideoBytes : on_video_packet(is_key, size)
    \/ \E size \in AudioBytes : on_audio_packet(size)
    \/ get_or_create_bridge \/ get_mpd
    \/ M4sRecorder_init \/ M4sRecorder_close
    \/ deliver

Spec == Init /\ [][Next]_vars

-----------------------------------------------------------------------------
(* Properties.                                                             *)

\* A track is cut without gap or overlap: a segment begins where the one before
\* ended and has the next number (process_h264_packet, process_aac_packet).  The
\* stream is lost with the process only if it has one track, H.264 or AAC, for
\* which the combined init segment uses the codec of the other.
SegmentsTile == [][
    /\ crashed' => \E t \in Track : stream[t] = "none"
    /\ \A t \in Track : seg_'[t] # seg_[t] =>
        /\ seg_'[t].n = seg_[t].n + 1
        /\ seg_[t] # NoSeg => seg_'[t].start = seg_[t].end
    ]_vars

\* data_offset leads to the first sample and the index covers moof and mdat to
\* their end, as the boxes are really written (rtmp_to_m4s.cpp:386-392).  The
\* buffer, which grows at most once per box, holds the segment unless its samples
\* alone are larger than the buffer was at first (m4s_segment.cpp:13).  The
\* durations of the samples add up to the segment's own (the loops of
\* reap_video_seg and reap_audio_seg).
OffsetsTell == \A t \in Track : seg_[t] # NoSeg =>
    /\ seg_[t].data_offset = seg_[t].samples_at
    /\ seg_[t].referenced_size = seg_[t].bytes
    /\ seg_[t].bytes - seg_[t].samples_at <= MP4_DEFAULT_SIZE => seg_[t].buf.used <= seg_[t].buf.allocated
    /\ LET durations == seg_[t].sample_durations IN
        MapThenSumSet(LAMBDA j : durations[j], DOMAIN durations) = seg_[t].end - seg_[t].start

\* The manifest lists consecutive numbers and times, and what a viewer has read in
\* it can be fetched until more segments have come than are kept beyond the listed
\* ones (MpdLiveMediaSource::update_mpd, get_mp4_segment).
FetchInTime ==
    /\ \A t \in Track : \A k \in 1..(Len(mpd_[t]) - 1) :
        /\ mpd_[t][k + 1].n = mpd_[t][k].n + 1
        /\ mpd_[t][k + 1].start = mpd_[t][k].end
    /\ \A t \in Track : viewer.since[t] <= Kept - Listed =>
        \A n \in viewer.listed[t] : get_mp4_segment(t, n)

\* The manifest of a recording names the files that were written, all of them and
\* no others, if the recorder was there from the first segment and no write failed
\* (M4sRecorder::gen_mpd numbers by its own count, the files by the bridge's).
RecordedManifest ==
    rec.state = "closed" /\ ~rec.late /\ failures = 0 =>
        \A t \in rec_init_ : manifest[t] = {n \in 1..Len(FrameTimes[t]) : <<t, n>> \in files}
=============================================================================
