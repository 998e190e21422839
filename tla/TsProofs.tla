------------------------------ MODULE TsProofs ------------------------------
(***************************************************************************)
(* Proofs about TsBridge, for any streams, sizes, limits and window of the *)
(* HLS source: AudioConserved, CutsAreDue and PlaylistServable.            *)
(***************************************************************************)
EXTENDS TsBridge, TLAPS

\* The bridge is its stream's, and the announced codec is the stream's.
FixedInv ==
    /\ stream \in Streams /\ bridge = stream.bridge
    /\ audio_codec_ \in {"none", stream.audio}

\* Every frame that waits has its ADTS header in the buffer, and the buffer is
\* below the size at which it is sent.
AudioInv ==
    /\ audio_buf_.len \in Nat /\ audio_buf_.n \in Nat
    /\ unsent = audio_buf_.n
    /\ 7 * audio_buf_.n <= audio_buf_.len /\ audio_buf_.len < Flush

IsSeq(q) == \E S : q \in Seq(S)

\* The window of the HLS source holds the newest segments, all there were or
\* Kept of them; a playlist names the newest of these.
WindowInv ==
    /\ curr_seq_no_ \in Nat /\ IsSeq(posted) /\ IsSeq(ts_segments_) /\ IsSeq(m3u8_)
    /\ Len(ts_segments_) \in {curr_seq_no_, Kept} /\ Len(ts_segments_) <= Kept
    /\ Len(ts_segments_) <= curr_seq_no_
    /\ \A k \in 1..Len(ts_segments_) :
          ts_segments_[k].seq = curr_seq_no_ - Len(ts_segments_) + k
    /\ Len(m3u8_) <= Listed /\ Len(m3u8_) <= curr_seq_no_
    /\ \A k \in 1..Len(m3u8_) : m3u8_[k].seq = curr_seq_no_ - Len(m3u8_) + k

\* What a player holds was the newest playlist when c segments had come.
ClientInv ==
    /\ client = [list |-> client.list, since |-> client.since]
    /\ IsSeq(client.list) /\ client.since \in 0..Kept
    /\ \E c \in Nat : /\ Len(client.list) <= Listed /\ Len(client.list) <= c
                      /\ client.since < Kept /\ client.list # <<>> => c + client.since = curr_seq_no_
                      /\ \A k \in 1..Len(client.list) : client.list[k] = c - Len(client.list) + k

TsInv == FixedInv /\ AudioInv /\ WindowInv /\ ClientInv

-----------------------------------------------------------------------------
\* Min of a pair.
LEMMA MinIs ==
    ASSUME NEW a \in Int, NEW b \in Int
    PROVE  Min({a, b}) = IF a <= b THEN a ELSE b
<1>1. \E x \in {a, b} : \A y \in {a, b} : x <= y
  OBVIOUS
<1>2. Min({a, b}) \in {a, b} /\ \A y \in {a, b} : Min({a, b}) <= y
  BY <1>1, Zenon DEF Min
<1> QED BY <1>2

\* What the four bridges do with a picture: skip it, refuse it or mux it; the
\* bridges that test for a key frame open no segment with an inter frame.
Pictures == [key : BOOLEAN, bytes : VideoBytes, reordered : BOOLEAN, ok : BOOLEAN]
LEMMA VideoDoes ==
    ASSUME FixedInv, VideoFrame
    PROVE  \E f \in Pictures : \E len :
              \/ Drop \/ Refuse
              \/ mux_video(f, len) /\ (curr_seg_ = NoSeg /\ ~f.key => ~TestsKeyFrame)
<1>1. PICK f \in Pictures : IF Tagged THEN on_video_packet(f) ELSE process_video_packet(f)
  BY Zenon DEF VideoFrame, Pictures
<1>2. /\ bridge \in {"rtmp", "flv", "rtsp", "webrtc"} /\ stream.video \in {"h264", "h265"}
      /\ bridge = "webrtc" => stream.video = "h264"
  BY TsAssumption DEF FixedInv
<1>3. CASE Tagged
  <2>1. CASE stream.video = "h264"
    BY <1>1, <1>2, <1>3, <2>1, Zenon
    DEF Tagged, on_video_packet, process_h264_packet, flv_process_h264_packet, TestsKeyFrame
  <2>2. CASE stream.video = "h265"
    BY <1>1, <1>2, <1>3, <2>2, Zenon
    DEF Tagged, on_video_packet, process_h265_packet, flv_process_h265_packet, TestsKeyFrame
  <2> QED BY <1>2, <2>1, <2>2, Zenon
<1>4. CASE ~Tagged
  BY <1>1, <1>2, <1>4, Zenon
  DEF Tagged, process_video_packet, generate_h264_ts, generate_h265_ts, webrtc_generate_h264_ts,
      TestsKeyFrame, SkipsInter
<1> QED BY <1>3, <1>4, Zenon

\* And with an audio frame.
LEMMA AudioDoes ==
    ASSUME FixedInv, AudioFrame
    PROVE  \E bytes \in AudioBytes : \E shown \in BOOLEAN :
              Drop \/ Refuse \/ mux_aac(bytes, shown) \/ mux_mp3(bytes)
<1>1. PICK bytes \in AudioBytes : IF Tagged THEN on_audio_packet(bytes) ELSE process_audio_packet(bytes)
  BY Zenon DEF AudioFrame
<1>2. /\ bridge \in {"rtmp", "flv", "rtsp", "webrtc"} /\ audio_codec_ \in {"none", "aac", "mp3"}
  BY TsAssumption DEF FixedInv
<1>3. CASE Tagged
  BY <1>1, <1>2, <1>3, Zenon
  DEF Tagged, on_audio_packet, process_aac_packet, flv_process_aac_packet, process_mp3_packet,
      flv_process_mp3_packet
<1>4. CASE ~Tagged
  BY <1>1, <1>2, <1>4, Zenon DEF Tagged, process_audio_packet, generate_aac_ts, process_opus_packet
<1> QED BY <1>3, <1>4, Zenon

\* Sequences of whatever.
LEMMA AppendIs ==
    ASSUME NEW q, IsSeq(q), NEW e
    PROVE  /\ IsSeq(Append(q, e)) /\ Append(q, e) # q
           /\ Len(q) \in Nat /\ Len(Append(q, e)) = Len(q) + 1
           /\ Append(q, e)[Len(q) + 1] = e
           /\ \A k \in 1..Len(q) : Append(q, e)[k] = q[k]
<1>1. PICK S : q \in Seq(S)
  BY Zenon DEF IsSeq
<1>2. PICK T : T = S \cup {e}
  BY Zenon
<1>3. q \in Seq(T) /\ e \in T
  BY <1>1, <1>2
<1>4. /\ Append(q, e) \in Seq(T) /\ Len(q) \in Nat /\ Len(Append(q, e)) = Len(q) + 1
      /\ Append(q, e)[Len(q) + 1] = e
      /\ \A k \in 1..Len(q) : Append(q, e)[k] = q[k]
  BY <1>3
<1>5. Append(q, e) # q
  BY <1>4
<1> QED BY <1>4, <1>5, Zenon DEF IsSeq

LEMMA TailIs ==
    ASSUME NEW q, IsSeq(q), q # <<>>
    PROVE  /\ IsSeq(Tail(q)) /\ Len(q) \in Nat \ {0} /\ Len(Tail(q)) = Len(q) - 1
           /\ \A k \in 1..(Len(q) - 1) : Tail(q)[k] = q[k + 1]
<1>1. PICK S : q \in Seq(S)
  BY Zenon DEF IsSeq
<1>2. /\ Tail(q) \in Seq(S) /\ Len(q) \in Nat \ {0} /\ Len(Tail(q)) = Len(q) - 1
      /\ \A k \in 1..(Len(q) - 1) : Tail(q)[k] = q[k + 1]
  BY <1>1
<1> QED BY <1>2, Zenon DEF IsSeq

LEMMA SubSeqIs ==
    ASSUME NEW q, IsSeq(q), NEW m \in 1..(Len(q) + 1)
    PROVE  /\ IsSeq(SubSeq(q, m, Len(q))) /\ Len(SubSeq(q, m, Len(q))) = Len(q) - m + 1
           /\ \A k \in 1..(Len(q) - m + 1) : SubSeq(q, m, Len(q))[k] = q[m + k - 1]
<1>1. PICK S : q \in Seq(S)
  BY Zenon DEF IsSeq
<1>2. PICK n \in Nat : n = Len(q)
  BY <1>1
<1>3. /\ SubSeq(q, m, n) \in Seq(S) /\ Len(SubSeq(q, m, n)) = n - m + 1
      /\ \A k \in 1..(n - m + 1) : SubSeq(q, m, n)[k] = q[m + k - 1]
  BY <1>1, <1>2
<1> QED BY <1>2, <1>3, Zenon DEF IsSeq

\* A frame hands over at most one segment.
LEMMA Hands ==
    ASSUME NEW key, on_ts_segment(key)
    PROVE  posted' = posted \/ \E e : posted' = Append(posted, e)
  BY Zenon DEF on_ts_segment

-----------------------------------------------------------------------------
\* FixedInv: only the announcement sets a codec.
LEMMA FixedStep == FixedInv /\ [Next]_vars => FixedInv'
<1> SUFFICES ASSUME FixedInv, [Next]_vars PROVE FixedInv'
  OBVIOUS
<1>1. stream' = stream /\ bridge' = bridge
  BY Zenon DEF Next, vars, fixedVars, on_metadata, flv_on_metadata, source_codec_ready,
     webrtc_source_codec_ready, announce, VideoFrame, AudioFrame, Arrives, AudioHeader,
     hls_on_ts_segment, get_m3u8
<1>2. audio_codec_' \in {audio_codec_, "none", stream.audio}
  BY Zenon DEF Next, vars, infoVars, on_metadata, flv_on_metadata, source_codec_ready,
     webrtc_source_codec_ready, announce, VideoFrame, AudioFrame, Arrives, AudioHeader,
     hls_on_ts_segment, get_m3u8
<1> QED BY <1>1, <1>2, Zenon DEF FixedInv

\* AudioInv: a frame joins the buffer or the buffer is sent.
LEMMA AudioStep == FixedInv /\ AudioInv /\ [Next]_vars => AudioInv'
<1> SUFFICES ASSUME FixedInv, AudioInv, [Next]_vars PROVE AudioInv'
  OBVIOUS
<1>1. CASE UNCHANGED <<audio_buf_, unsent>>
  BY <1>1, Zenon DEF AudioInv
<1>2. CASE VideoFrame
  BY <1>1, <1>2, VideoDoes, Zenon DEF Drop, Refuse, mux_video, muxVars
<1>3. CASE AudioFrame
  <2>1. PICK bytes \in AudioBytes, shown \in BOOLEAN :
           Drop \/ Refuse \/ mux_aac(bytes, shown) \/ mux_mp3(bytes)
    BY <1>3, AudioDoes, Zenon
  <2>2. CASE mux_aac(bytes, shown)
    <3> DEFINE len == audio_buf_.len + 7 + bytes
               n == audio_buf_.n + 1
    <3>1. bytes \in Nat /\ Flush \in Nat \ {0}
      BY TsAssumption
    <3>2. \/ /\ len < Flush /\ audio_buf_'.len = len /\ audio_buf_'.n = n
             /\ unsent' = unsent + 1
          \/ /\ audio_buf_'.len = 0 /\ audio_buf_'.n = 0
             /\ unsent' = unsent + 1 - n
      <4>1. CASE len < Flush
        <5>1. PICK t : audio_buf_' = [len |-> len, n |-> n, ts |-> t]
          BY <2>2, <4>1, Zenon DEF mux_aac
        <5>2. unsent' = unsent + 1
          BY <2>2, <4>1, Zenon DEF mux_aac
        <5> QED BY <4>1, <5>1, <5>2, Zenon
      <4>2. CASE ~(len < Flush)
        <5>1. audio_buf_' = [len |-> 0, n |-> 0, ts |-> 0] /\ unsent' = unsent + 1 - n
          BY <2>2, <4>2, Zenon DEF mux_aac
        <5> QED BY <5>1, Zenon
      <4> QED BY <4>1, <4>2, Zenon
    <3> QED BY <3>1, <3>2 DEF AudioInv
  <2> QED BY <1>1, <2>1, <2>2, Zenon DEF Drop, Refuse, mux_mp3, muxVars
<1> QED
  BY <1>1, <1>2, <1>3, Zenon
  DEF Next, vars, muxVars, on_metadata, flv_on_metadata, source_codec_ready,
      webrtc_source_codec_ready, announce, AudioHeader, hls_on_ts_segment, get_m3u8

\* What a step does to the posted segments: it leaves them, adds one, or the
\* HLS source takes the first.
LEMMA PostedStep ==
    ASSUME FixedInv, [Next]_vars
    PROVE  posted' = posted \/ (\E e : posted' = Append(posted, e)) \/ hls_on_ts_segment
<1>1. CASE VideoFrame
  BY <1>1, VideoDoes, Hands, Zenon DEF Drop, Refuse, mux_video
<1>2. CASE AudioFrame
  BY <1>2, AudioDoes, Hands, Zenon DEF Drop, Refuse, mux_aac, mux_mp3
<1> QED
  BY <1>1, <1>2, Zenon
  DEF Next, vars, on_metadata, flv_on_metadata, source_codec_ready, webrtc_source_codec_ready,
      announce, AudioHeader, get_m3u8

\* Only the HLS source and the player change what they hold.
LEMMA HlsStep ==
    ASSUME [Next]_vars
    PROVE  UNCHANGED hlsVars \/ hls_on_ts_segment \/ get_m3u8
  BY Zenon
  DEF Next, vars, on_metadata, flv_on_metadata, source_codec_ready, webrtc_source_codec_ready,
      announce, AudioHeader, VideoFrame, AudioFrame, Arrives

\* The window after a new segment: still the newest ones.
LEMMA WindowMoves ==
    ASSUME WindowInv, hls_on_ts_segment
    PROVE  /\ curr_seq_no_' = curr_seq_no_ + 1 /\ curr_seq_no_ \in Nat /\ IsSeq(ts_segments_')
           /\ Len(ts_segments_') \in {curr_seq_no_', Kept} /\ Len(ts_segments_') \in 1..Kept
           /\ Len(ts_segments_') <= curr_seq_no_'
           /\ \A k \in 1..Len(ts_segments_') :
                 ts_segments_'[k].seq = curr_seq_no_' - Len(ts_segments_') + k
<1> DEFINE kept == IF Len(ts_segments_) >= Kept THEN Tail(ts_segments_) ELSE ts_segments_
           new == [seq |-> curr_seq_no_', dur |-> Head(posted).dur]
<1>1. /\ Kept \in Nat \ {0} /\ curr_seq_no_ \in Nat /\ IsSeq(ts_segments_)
      /\ Len(ts_segments_) \in {curr_seq_no_, Kept} /\ Len(ts_segments_) <= Kept
      /\ Len(ts_segments_) <= curr_seq_no_
      /\ \A k \in 1..Len(ts_segments_) :
            ts_segments_[k].seq = curr_seq_no_ - Len(ts_segments_) + k
  BY TsAssumption, Zenon DEF WindowInv
<1>2. curr_seq_no_' = curr_seq_no_ + 1 /\ ts_segments_' = Append(kept, new)
  BY Zenon DEF hls_on_ts_segment
<1>3. new.seq = curr_seq_no_'
  OBVIOUS
<1>4. PICK l \in Nat : l = Len(ts_segments_)
  BY <1>1
<1> HIDE DEF kept, new
<1>5. /\ IsSeq(kept) /\ Len(kept) \in {curr_seq_no_, Kept - 1}
      /\ Len(kept) <= Kept - 1 /\ Len(kept) <= curr_seq_no_ /\ Len(kept) \in Nat
      /\ \A k \in 1..Len(kept) : kept[k].seq = curr_seq_no_ - Len(kept) + k
  <2>1. CASE l >= Kept
    <3>1. ts_segments_ # <<>>
      BY <1>1, <1>4, <2>1
    <3>2. /\ IsSeq(kept) /\ Len(kept) = l - 1
          /\ \A k \in 1..(l - 1) : kept[k] = ts_segments_[k + 1]
      BY <1>1, <1>4, <2>1, <3>1, TailIs, Zenon DEF kept
    <3> QED BY <1>1, <1>4, <2>1, <3>2
  <2>2. CASE ~(l >= Kept)
    <3>1. kept = ts_segments_
      BY <1>4, <2>2, Zenon DEF kept
    <3> QED BY <1>1, <1>4, <2>2, <3>1
  <2> QED BY <2>1, <2>2, Zenon
<1>6. /\ IsSeq(ts_segments_') /\ Len(ts_segments_') = Len(kept) + 1
      /\ ts_segments_'[Len(kept) + 1] = new
      /\ \A k \in 1..Len(kept) : ts_segments_'[k] = kept[k]
  <2>1. IsSeq(kept)
    BY <1>5, Zenon
  <2>2. PICK q, e : q = kept /\ e = new
    BY Zenon
  <2>3. /\ IsSeq(Append(q, e)) /\ Len(Append(q, e)) = Len(q) + 1
        /\ Append(q, e)[Len(q) + 1] = e
        /\ \A k \in 1..Len(q) : Append(q, e)[k] = q[k]
    BY <2>1, <2>2, AppendIs
  <2> QED BY <1>2, <2>2, <2>3
<1>7. PICK n \in Nat : n = Len(kept)
  BY <1>5
<1>8. Len(ts_segments_') = n + 1
  BY <1>6, <1>7
<1>9. ASSUME NEW k \in 1..(n + 1)
      PROVE  ts_segments_'[k].seq = curr_seq_no_' - (n + 1) + k
  <2>1. CASE k = n + 1
    BY <1>1, <1>2, <1>3, <1>6, <1>7, <2>1
  <2>2. CASE k # n + 1
    <3>1. k \in 1..n
      BY <1>7, <2>2
    <3>2. ts_segments_'[k].seq = curr_seq_no_ - n + k
      BY <1>5, <1>6, <1>7, <3>1, Zenon
    <3> QED BY <1>1, <1>2, <3>2
  <2> QED BY <2>1, <2>2
<1>10. /\ n + 1 \in {curr_seq_no_', Kept} /\ n + 1 \in 1..Kept /\ n + 1 <= curr_seq_no_'
  BY <1>1, <1>2, <1>5, <1>7
<1> QED BY <1>1, <1>2, <1>6, <1>8, <1>9, <1>10, Zenon

\* The playlist after a new segment: the newest of the window.
LEMMA PlaylistMoves ==
    ASSUME WindowInv, hls_on_ts_segment
    PROVE  /\ IsSeq(m3u8_') /\ Len(m3u8_') \in 0..Listed /\ Len(m3u8_') <= curr_seq_no_'
           /\ \A k \in 1..Len(m3u8_') : m3u8_'[k].seq = curr_seq_no_' - Len(m3u8_') + k
<1> DEFINE segs == ts_segments_'
           first == IF Len(segs) >= Listed THEN Len(segs) - Listed + 1 ELSE 1
<1>1. Listed \in Nat /\ Listed >= 1 /\ curr_seq_no_' \in Nat
  BY WindowMoves, TsAssumption
<1>2. m3u8_' = IF m3u8_ = <<>> /\ Len(segs) < min_ts_count_for_m3u8 THEN m3u8_
               ELSE SubSeq(segs, first, Len(segs))
  BY Zenon DEF hls_on_ts_segment, update_m3u8
<1>3. /\ IsSeq(segs) /\ Len(segs) \in Nat /\ Len(segs) <= curr_seq_no_'
      /\ \A k \in 1..Len(segs) : segs[k].seq = curr_seq_no_' - Len(segs) + k
  BY WindowMoves
<1> HIDE DEF segs
<1>4. CASE m3u8_' = <<>>
  <2>1. m3u8_' \in Seq({}) /\ Len(m3u8_') = 0
    BY <1>4
  <2>2. IsSeq(m3u8_')
    BY <2>1, Zenon DEF IsSeq
  <2> QED BY <1>1, <2>1, <2>2
<1>5. CASE m3u8_' = SubSeq(segs, first, Len(segs))
  <2>1. first \in 1..(Len(segs) + 1) /\ Len(segs) - first + 1 \in 0..Listed
    BY <1>1, <1>3
  <2>2. PICK m \in Nat : m = first
    BY <2>1
  <2> HIDE DEF first
  <2>3. /\ IsSeq(m3u8_') /\ Len(m3u8_') = Len(segs) - m + 1
        /\ \A k \in 1..(Len(segs) - m + 1) : m3u8_'[k] = segs[m + k - 1]
    <3>1. IsSeq(segs) /\ m \in 1..(Len(segs) + 1) /\ m3u8_' = SubSeq(segs, m, Len(segs))
      BY <1>3, <1>5, <2>1, <2>2, Zenon
    <3> QED BY <3>1, SubSeqIs, Zenon
  <2>4. PICK n \in Nat : n = Len(segs)
    BY <1>3
  <2>5. PICK l \in Nat : l = n - m + 1 /\ l <= Listed /\ l <= n /\ m >= 1
    BY <1>1, <2>1, <2>2, <2>4
  <2>6. ASSUME NEW k \in 1..l PROVE m3u8_'[k].seq = curr_seq_no_' - l + k
    <3>1. m3u8_'[k] = segs[m + k - 1] /\ m + k - 1 \in 1..n
      BY <2>3, <2>4, <2>5
    <3>2. segs[m + k - 1].seq = curr_seq_no_' - n + (m + k - 1)
      BY <1>3, <2>4, <3>1, Zenon
    <3> QED BY <1>1, <2>4, <2>5, <3>1, <3>2
  <2>7. Len(m3u8_') = l /\ l \in 0..Listed /\ l <= curr_seq_no_'
    BY <1>1, <1>3, <2>3, <2>4, <2>5
  <2> QED BY <2>3, <2>6, <2>7, Zenon
<1> QED BY <1>2, <1>4, <1>5, Zenon

\* WindowInv is inductive.
LEMMA WindowStep == FixedInv /\ WindowInv /\ [Next]_vars => WindowInv'
<1> SUFFICES ASSUME FixedInv, WindowInv, [Next]_vars PROVE WindowInv'
  OBVIOUS
<1>1. CASE hls_on_ts_segment
  <2>1. posted # <<>> /\ posted' = Tail(posted) /\ IsSeq(posted)
    BY <1>1, Zenon DEF hls_on_ts_segment, WindowInv
  <2>2. IsSeq(posted')
    BY <2>1, TailIs, Zenon
  <2>3. /\ curr_seq_no_' \in Nat /\ IsSeq(ts_segments_')
        /\ Len(ts_segments_') \in {curr_seq_no_', Kept} /\ Len(ts_segments_') <= Kept
        /\ Len(ts_segments_') <= curr_seq_no_'
        /\ \A k \in 1..Len(ts_segments_') :
              ts_segments_'[k].seq = curr_seq_no_' - Len(ts_segments_') + k
    BY <1>1, WindowMoves, TsAssumption
  <2>4. /\ IsSeq(m3u8_') /\ Len(m3u8_') <= Listed /\ Len(m3u8_') <= curr_seq_no_'
        /\ \A k \in 1..Len(m3u8_') : m3u8_'[k].seq = curr_seq_no_' - Len(m3u8_') + k
    BY <1>1, PlaylistMoves, TsAssumption
  <2> QED BY <2>2, <2>3, <2>4, Zenon DEF WindowInv
<1>2. CASE ~hls_on_ts_segment
  <2>1. UNCHANGED <<curr_seq_no_, ts_segments_, m3u8_>>
    BY <1>2, HlsStep, Zenon DEF hlsVars, get_m3u8
  <2>2. IsSeq(posted')
    BY <1>2, PostedStep, AppendIs, Zenon DEF WindowInv
  <2> QED BY <2>1, <2>2, Zenon DEF WindowInv
<1> QED BY <1>1, <1>2, Zenon

\* ClientInv is inductive: every new segment makes the playlist one older.
LEMMA ClientStep == FixedInv /\ WindowInv /\ ClientInv /\ [Next]_vars => ClientInv'
<1> SUFFICES ASSUME WindowInv, ClientInv, [Next]_vars PROVE ClientInv'
  OBVIOUS
<1>1. CASE UNCHANGED hlsVars
  BY <1>1, Zenon DEF hlsVars, ClientInv
<1>2. CASE hls_on_ts_segment
  <2>1. /\ client'.list = client.list /\ client'.since = Min({client.since + 1, Kept})
        /\ client' = [list |-> client'.list, since |-> client'.since]
    <3>1. PICK a, b, m : /\ client = [list |-> a, since |-> b]
                         /\ m = Min({client.since + 1, Kept})
      BY Zenon DEF ClientInv
    <3>2. client' = [client EXCEPT !.since = m]
      BY <1>2, <3>1, Zenon DEF hls_on_ts_segment
    <3> QED BY <3>1, <3>2
  <2>2. client.since \in 0..Kept /\ Kept \in Nat /\ curr_seq_no_' = curr_seq_no_ + 1
        /\ curr_seq_no_ \in Nat
    BY <1>2, TsAssumption, WindowMoves, Zenon DEF ClientInv
  <2>3. client'.since = IF client.since + 1 <= Kept THEN client.since + 1 ELSE Kept
    BY <2>1, <2>2, MinIs
  <2>4. client'.since \in 0..Kept
    BY <2>2, <2>3
  <2>5. \A c \in Nat : client'.since < Kept /\ (client.since < Kept => c + client.since = curr_seq_no_)
                         => c + client'.since = curr_seq_no_'
    BY <2>2, <2>3
  <2>6. client'.since < Kept => client.since < Kept
    BY <2>2, <2>3
  <2> QED BY <2>1, <2>4, <2>5, <2>6, Zenon DEF ClientInv
<1>3. CASE get_m3u8
  <2> DEFINE l == [k \in 1..Len(m3u8_) |-> m3u8_[k].seq]
  <2>1. client' = [list |-> l, since |-> 0] /\ curr_seq_no_' = curr_seq_no_
    BY <1>3, Zenon DEF get_m3u8
  <2>2. client'.list = l /\ client'.since = 0 /\ client' = [list |-> client'.list, since |-> client'.since]
    BY <2>1
  <2>3. /\ IsSeq(m3u8_) /\ curr_seq_no_ \in Nat /\ Kept \in Nat
        /\ Len(m3u8_) <= Listed /\ Len(m3u8_) <= curr_seq_no_
        /\ \A k \in 1..Len(m3u8_) : m3u8_[k].seq = curr_seq_no_ - Len(m3u8_) + k
    BY TsAssumption, Zenon DEF WindowInv
  <2>4. PICK S : m3u8_ \in Seq(S)
    BY <2>3, Zenon DEF IsSeq
  <2>5. l \in Seq(Int) /\ Len(l) = Len(m3u8_) /\ \A k \in 1..Len(l) : l[k] = m3u8_[k].seq
    BY <2>3, <2>4
  <2> HIDE DEF l
  <2>6. IsSeq(l) /\ 0 \in 0..Kept
    BY <2>3, <2>5 DEF IsSeq
  <2>7. /\ Len(l) <= Listed /\ Len(l) <= curr_seq_no_ /\ curr_seq_no_ + 0 = curr_seq_no_
        /\ \A k \in 1..Len(l) : l[k] = curr_seq_no_ - Len(l) + k
    BY <2>3, <2>5
  <2> QED BY <2>1, <2>2, <2>3, <2>6, <2>7, Zenon DEF ClientInv
<1> QED BY <1>1, <1>2, <1>3, HlsStep, Zenon

-----------------------------------------------------------------------------
\* The inductive invariant.
THEOREM Invariance == Spec => []TsInv
<1>1. Init => TsInv
  <2> SUFFICES ASSUME Init PROVE TsInv
    OBVIOUS
  <2>1. FixedInv
    BY Zenon DEF Init, FixedInv
  <2>2. AudioInv
    BY TsAssumption DEF Init, AudioInv
  <2>3. IsSeq(<<>>) /\ Len(<<>>) = 0
    <3>1. <<>> \in Seq({}) /\ Len(<<>>) = 0
      OBVIOUS
    <3> QED BY <3>1, Zenon DEF IsSeq
  <2>4. WindowInv
    BY <2>3, TsAssumption DEF Init, WindowInv
  <2>5. client = [list |-> <<>>, since |-> 0]
    BY Zenon DEF Init
  <2>6. client.list = <<>> /\ client.since = 0
    BY <2>5
  <2>7. ClientInv
    BY <2>3, <2>5, <2>6, TsAssumption DEF ClientInv
  <2> QED BY <2>1, <2>2, <2>4, <2>7, Zenon DEF TsInv
<1>2. TsInv /\ [Next]_vars => TsInv'
  BY FixedStep, AudioStep, WindowStep, ClientStep, Zenon DEF TsInv
<1> QED BY <1>1, <1>2, PTL DEF Spec

\* No audio frame is lost or sent twice when segments are cut between the
\* frames of a buffer, and the headers of those that wait fit the reserved
\* slots, for every size of buffer and frame (audio_buf_.clear, reserve(200)).
THEOREM AudioConservedHolds == Spec => []AudioConserved
<1>1. TsInv => AudioConserved
  BY TsAssumption DEF TsInv, AudioInv, AudioConserved
<1> QED BY <1>1, Invariance, PTL

\* A player that fetches a playlist can fetch what it names until more than
\* Kept - Listed newer segments have come, for every window and list length
\* (HlsLiveMediaSource::on_ts_segment and update_m3u8).
THEOREM PlaylistServableHolds == Spec => []PlaylistServable
<1>1. TsInv => PlaylistServable
  <2> SUFFICES ASSUME TsInv PROVE PlaylistServable
    OBVIOUS
  <2> DEFINE l == Len(client.list)
             n == Len(ts_segments_)
  <2>1. PICK c \in Nat : /\ l <= Listed /\ l <= c
                         /\ client.since < Kept /\ client.list # <<>> => c + client.since = curr_seq_no_
                         /\ \A k \in 1..l : client.list[k] = c - l + k
    BY Zenon DEF TsInv, ClientInv
  <2>2. l \in Nat /\ n \in Nat
    BY AppendIs, Zenon DEF TsInv, ClientInv, WindowInv
  <2>3. /\ client.since \in Nat /\ curr_seq_no_ \in Nat /\ Kept \in Nat /\ Listed \in 1..Kept
        /\ n \in {curr_seq_no_, Kept} /\ n <= curr_seq_no_
        /\ \A k \in 1..n : ts_segments_[k].seq = curr_seq_no_ - n + k
    BY TsAssumption DEF TsInv, ClientInv, WindowInv
  <2> HIDE DEF l, n
  <2>4. \A k \in 2..l : client.list[k] = client.list[k - 1] + 1
    BY <2>1, <2>2
  <2>5. ASSUME client.since <= Kept - Listed, NEW k \in 1..l
        PROVE  get_ts_segment(client.list[k])
    <3>1. client.list # <<>>
      <4>1. CASE client.list = <<>>
        <5>1. l = 0
          BY <4>1 DEF l
        <5> QED BY <5>1
      <4> QED BY <4>1
    <3>2. c + client.since = curr_seq_no_
      BY <2>1, <2>3, <2>5, <3>1
    <3>3. PICK j \in Int : j = c - l + k - curr_seq_no_ + n
      BY <2>2, <2>3
    <3>4. j \in 1..n
      <4>1. PICK t \in Nat : t = client.since
        BY <2>3
      <4>2. j = n - t - l + k /\ k >= 1 /\ k <= l
        BY <2>2, <2>3, <3>2, <3>3, <4>1
      <4>3. t <= Kept - Listed /\ l <= Listed /\ l <= c
        BY <2>1, <2>5, <4>1
      <4>4. j >= 1
        BY <2>2, <2>3, <3>2, <4>1, <4>2, <4>3
      <4> QED BY <2>2, <4>2, <4>4
    <3>5. ts_segments_[j].seq = curr_seq_no_ - n + j
      BY <2>3, <3>4, Zenon
    <3>6. client.list[k] = c - l + k
      BY <2>1, Zenon
    <3>7. ts_segments_[j].seq = client.list[k]
      BY <2>2, <2>3, <3>3, <3>5, <3>6
    <3> QED BY <3>4, <3>7, Zenon DEF get_ts_segment, n
  <2> QED BY <2>4, <2>5, Zenon DEF PlaylistServable, l
<1> QED BY <1>1, Invariance, PTL

-----------------------------------------------------------------------------
\* A new segment has no picture yet, and neither PAT, PMT nor the packets of a
\* PES change which picture is its first.
IsEmptyOfVideo(s) == "first" \in DOMAIN s /\ s.first = "none"

LEMMA NewHasNone ==
    ASSUME FixedInv
    PROVE  IsEmptyOfVideo(NewSegment)
<1>1. bridge \in {"rtmp", "flv", "rtsp", "webrtc"}
  BY TsAssumption DEF FixedInv
<1>2. \A p : IsEmptyOfVideo([alloc_ts_packet(alloc_ts_packet(EmptySegment)) EXCEPT !.pmt = p])
  BY DEF alloc_ts_packet, EmptySegment, IsEmptyOfVideo
<1>3. NewSegment = [alloc_ts_packet(alloc_ts_packet(EmptySegment)) EXCEPT !.pmt = Announced]
  BY <1>1, Zenon
  DEF NewSegment, create_pmt, create_pat, flv_create_pmt, flv_create_pat, rtsp_create_pmt,
      rtsp_create_pat, webrtc_create_pmt, webrtc_create_pat
<1> QED BY <1>2, <1>3, Zenon

LEMMA PacketsKeepFirst ==
    ASSUME FixedInv, NEW s, IsEmptyOfVideo(s), NEW len, NEW key
    PROVE  IsEmptyOfVideo(video_ts(s, len, key).seg)
<1>1. bridge \in {"rtmp", "flv", "rtsp", "webrtc"}
  BY TsAssumption DEF FixedInv
<1>2. \A at, index, off : IsEmptyOfVideo([s EXCEPT !.at = at, !.index = index, !.off = off])
  BY DEF IsEmptyOfVideo
<1>3. \A n : IsEmptyOfVideo(alloc_packets(s, n))
  BY <1>2, Zenon DEF alloc_packets
<1>4. \A pcr : IsEmptyOfVideo(create_ts(s, "video", len, pcr).seg)
  BY <1>3, Zenon DEF create_ts
<1> QED
  BY <1>1, <1>4, Zenon
  DEF video_ts, create_video_ts, flv_create_video_ts, rtsp_create_video_ts, webrtc_create_video_ts

\* The first picture decides.
LEMMA FirstIsKind ==
    ASSUME NEW s, IsEmptyOfVideo(s), NEW t, NEW kind
    PROVE  update_video_dts(s, t, kind).first = kind
<1>1. \A a, b, f : [s EXCEPT !.vstart = a, !.vend = b, !.first = f].first = f
  BY DEF IsEmptyOfVideo
<1>2. \E a, b, f : /\ update_video_dts(s, t, kind) = [s EXCEPT !.vstart = a, !.vend = b, !.first = f]
                   /\ f = IF s.first = "none" THEN kind ELSE s.first
  BY Zenon DEF update_video_dts
<1> QED BY <1>1, <1>2, Zenon DEF IsEmptyOfVideo

\* A full segment is cut whatever comes.
LEMMA FullIsCut ==
    ASSUME NEW s, NEW key
    PROVE  Full(s) => can_reap_ts(key, s)
  BY Zenon DEF Full, can_reap_ts

\* A picture adds to a segment only behind its cut.
LEMMA VideoCuts ==
    ASSUME TsInv, VideoFrame
    PROVE  /\ curr_seg_ # NoSeg /\ curr_seg_' \notin {NoSeg, curr_seg_} /\ Full(curr_seg_)
                 => posted' # posted
           /\ curr_seg_' # NoSeg /\ curr_seg_'.first = "inter" =>
                 IF curr_seg_ = NoSeg THEN ~TestsKeyFrame
                 ELSE Len(posted') > Len(posted) => Full(curr_seg_) \/ curr_seg_.vstart = -1
<1>0. FixedInv /\ IsSeq(posted)
  BY Zenon DEF TsInv, WindowInv
<1>a. PICK f \in Pictures : \E len :
         \/ Drop \/ Refuse
         \/ mux_video(f, len) /\ (curr_seg_ = NoSeg /\ ~f.key => ~TestsKeyFrame)
  BY <1>0, VideoDoes, Zenon
<1>1. PICK len :
         \/ Drop \/ Refuse
         \/ mux_video(f, len) /\ (curr_seg_ = NoSeg /\ ~f.key => ~TestsKeyFrame)
  BY <1>a, Zenon
<1>2. CASE Drop \/ Refuse
  <2>1. curr_seg_' = curr_seg_ /\ posted' = posted
    BY <1>2, Zenon DEF Drop, Refuse, muxVars
  <2>2. ~(Len(posted) > Len(posted))
    BY <1>0, AppendIs
  <2> QED BY <2>1, <2>2, Zenon
<1>3. CASE mux_video(f, len) /\ (curr_seg_ = NoSeg /\ ~f.key => ~TestsKeyFrame)
  <2>1. on_ts_segment(f.key)
    BY <1>3, Zenon DEF mux_video
  <2>2. Reaps(f.key) => posted' # posted
    BY <1>0, <2>1, AppendIs, Zenon DEF on_ts_segment
  <2>3. ~Reaps(f.key) => ~(Len(posted') > Len(posted))
    <3>1. ~(Len(posted) > Len(posted))
      BY <1>0, AppendIs
    <3> QED BY <2>1, <3>1, Zenon DEF on_ts_segment
  <2>4. ASSUME curr_seg_ = NoSeg \/ Reaps(f.key), curr_seg_'.first = "inter"
        PROVE  ~f.key
    <3>1. IsEmptyOfVideo(OpenSegment(f.key))
      BY <1>0, <2>4, NewHasNone, Zenon DEF OpenSegment
    <3>2. CASE f.ok
      <4>1. IsEmptyOfVideo(video_ts(OpenSegment(f.key), len, f.key).seg)
        BY <1>0, <3>1, PacketsKeepFirst, Zenon
      <4>2. curr_seg_' = update_video_dts(video_ts(OpenSegment(f.key), len, f.key).seg, now', Kind(f))
        BY <1>3, <3>2, Zenon DEF mux_video
      <4>3. PICK g : g = video_ts(OpenSegment(f.key), len, f.key).seg
        BY Zenon
      <4>4. curr_seg_'.first = Kind(f)
        BY <4>1, <4>2, <4>3, FirstIsKind, Zenon
      <4>5. Kind(f) = "inter"
        BY <2>4, <4>4, Zenon
      <4> QED BY <4>5 DEF Kind
    <3>3. CASE ~f.ok
      BY <1>3, <2>4, <3>1, <3>3 DEF mux_video, IsEmptyOfVideo
    <3> QED BY <3>2, <3>3, Zenon
  <2>5. curr_seg_ # NoSeg /\ Full(curr_seg_) => Reaps(f.key)
    BY FullIsCut, Zenon DEF Reaps
  <2>6. Reaps(f.key) /\ ~f.key => Full(curr_seg_) \/ curr_seg_.vstart = -1
    BY Zenon DEF Reaps, Full, can_reap_ts
  <2> QED BY <1>3, <2>2, <2>3, <2>4, <2>5, <2>6, Zenon
<1> QED BY <1>1, <1>2, <1>3, Zenon

\* And so does an audio frame.
LEMMA AudioCuts ==
    ASSUME TsInv, AudioFrame, curr_seg_ # NoSeg, curr_seg_' \notin {NoSeg, curr_seg_}, Full(curr_seg_)
    PROVE  posted' # posted
<1>0. FixedInv /\ IsSeq(posted)
  BY Zenon DEF TsInv, WindowInv
<1>1. on_ts_segment(FALSE)
  BY <1>0, AudioDoes, Zenon DEF Drop, Refuse, mux_aac, mux_mp3, muxVars
<1>2. Reaps(FALSE)
  BY FullIsCut, Zenon DEF Reaps
<1> QED BY <1>0, <1>1, <1>2, AppendIs, Zenon DEF on_ts_segment

\* A full segment is handed over before anything is added to one, and an inter
\* frame begins a segment only behind a cut that was due, for every limit and
\* every frame size, by whichever handler runs next (can_reap_ts).
THEOREM CutsAreDueHolds == Spec => CutsAreDue
<1>1. TsInv /\ [Next]_vars =>
        [/\ curr_seg_ # NoSeg /\ curr_seg_' \notin {NoSeg, curr_seg_} /\ Full(curr_seg_)
              => posted' # posted
         /\ VideoFrame /\ curr_seg_' # NoSeg /\ curr_seg_'.first = "inter" =>
              IF curr_seg_ = NoSeg THEN ~TestsKeyFrame
              ELSE Len(posted') > Len(posted) => Full(curr_seg_) \/ curr_seg_.vstart = -1]_vars
  <2> SUFFICES ASSUME TsInv, [Next]_vars
               PROVE  /\ curr_seg_ # NoSeg /\ curr_seg_' \notin {NoSeg, curr_seg_} /\ Full(curr_seg_)
                            => posted' # posted
                      /\ VideoFrame /\ curr_seg_' # NoSeg /\ curr_seg_'.first = "inter" =>
                            IF curr_seg_ = NoSeg THEN ~TestsKeyFrame
                            ELSE Len(posted') > Len(posted) => Full(curr_seg_) \/ curr_seg_.vstart = -1
    BY Zenon
  <2>1. CASE VideoFrame
    BY <2>1, VideoCuts, Zenon
  <2>2. CASE ~VideoFrame /\ AudioFrame
    BY <2>2, AudioCuts, Zenon
  <2>3. CASE ~VideoFrame /\ ~AudioFrame
    BY <2>3, Zenon
    DEF Next, vars, muxVars, on_metadata, flv_on_metadata, source_codec_ready,
        webrtc_source_codec_ready, announce, AudioHeader, hls_on_ts_segment, get_m3u8
  <2> QED BY <2>1, <2>2, <2>3, Zenon
<1> QED BY <1>1, Invariance, PTL DEF Spec, CutsAreDue
=============================================================================
