------------------------------ MODULE RtpBridge ------------------------------
(***************************************************************************)
(* Frames over RTP.  On one side a bridge that turns a stream into RTP     *)
(* packets (RtmpToRtsp, FlvToRtsp, RtmpToWebRtc) or a remote publisher; on *)
(* the other a bridge that turns packets back into a stream (RtspToRtmp,   *)
(* RtspToFlv, WebRtcToRtmp, WebRtcToFlv).  Between them packets arrive as  *)
(* sent ("ordered": RTSP interleaved in its TCP connection) or some, in    *)
(* any order, possibly twice ("lossy": UDP).                               *)
(***************************************************************************)
EXTENDS RtpPayload

CONSTANTS
    Links,       \* [send, recv, codec, net]: the pairs looked at
    Shapes,      \* codec -> the frames a publisher sends, as NAL units
    ParamSize,   \* parameter set -> its size
    Clock,       \* RTP ticks per millisecond of video (90)
    TsMod,       \* timestamps are 32 bits wide (2^32)
    AudioNum, AudioDen,   \* sampling_frequency / 1000
    FrameMs,     \* 1000 / video_fps_
    Steps,       \* net -> milliseconds between two frames
    Offsets,     \* net -> composition times
    Bases,       \* first RTP timestamps of a remote publisher
    MaxFrames,   \* bound: net -> frames sent
    MaxDups      \* bound: packets the network duplicates

ASSUME RtpBridgeAssumption ==
    /\ Clock \in Nat \ {0} /\ TsMod \in Nat \ {0} /\ FrameMs \in Nat
    /\ AudioNum \in Nat \ {0} /\ AudioDen \in Nat \ {0}
    /\ \A net \in {"ordered", "lossy"} :
        Steps[net] \subseteq Nat \ {0} /\ Offsets[net] \subseteq Nat /\ MaxFrames[net] \in Nat
    /\ Bases \subseteq 0..(TsMod - 1)

VARIABLES
    link, base,           \* fixed: the pair, and a remote publisher's base
    dts, first_pts_, got_video_key_frame_, rtp_seqnum_,    \* sender
    net, dups,            \* packets under way, duplicates so far
    time_rtp_pkts_buf_, first_rtp_ts_, video_dts_,         \* receiver
    params,               \* parameter sets a WebRTC receiver has seen
    header_ready_,        \* it has sent its metadata and headers
    sent, out             \* history: frames packed; messages made

senderVars == <<dts, first_pts_, got_video_key_frame_, rtp_seqnum_, sent>>
receiverVars == <<time_rtp_pkts_buf_, first_rtp_ts_, video_dts_, params, header_ready_, out>>
vars == <<link, base, senderVars, net, dups, receiverVars>>

Remote == link.send = "remote"
Video == link.codec # "aac"

-----------------------------------------------------------------------------
(* The frame a sender packs.                                               *)

Types(nalus) == {nalus[i].type : i \in DOMAIN nalus}

ParamSet(type, frame) ==
    [type |-> type, level |-> 1, size |-> ParamSize[type],
     id |-> frame * 10 + (CASE type = "aud" -> 6 [] type = "vps" -> 7
                            [] type = "sps" -> 8 [] type = "pps" -> 9)]

h264_nalus_bare(nalus, frame) ==
    IF "aud" \in Types(nalus) THEN nalus ELSE <<ParamSet("aud", frame)>> \o nalus

\* SPS and PPS go in front of the first IDR slice unless one of the two was
\* met before it; an access unit delimiter goes in front if there is none.
h264_nalus(nalus, frame) ==
    LET idrs == {i \in DOMAIN nalus : nalus[i].type = "idr"}
        first == Min(idrs)
        before == Types(SubSeq(nalus, 1, first - 1))
        with == IF idrs = {} \/ before \cap {"sps", "pps"} # {} THEN nalus
                ELSE SubSeq(nalus, 1, first - 1)
                        \o <<ParamSet("sps", frame), ParamSet("pps", frame)>>
                        \o SubSeq(nalus, first, Len(nalus))
    IN  IF "aud" \in Types(nalus) THEN with ELSE <<ParamSet("aud", frame)>> \o with

\* The VPS is inserted with the length of the SPS.
h265_nalus(nalus, frame) ==
    LET missing(type) == IF type \in Types(nalus) THEN <<>> ELSE <<ParamSet(type, frame)>>
        vps == IF "vps" \in Types(nalus) THEN <<>>
               ELSE <<[ParamSet("vps", frame) EXCEPT !.size = ParamSize["sps"]]>>
    IN  IF Types(nalus) \cap KeyTypes = {} THEN nalus
        ELSE vps \o missing("sps") \o missing("pps") \o nalus

Key(nalus) == Types(nalus) \cap KeyTypes # {}

\* What each sender packs of a frame: whether at all, and its packets.
rtmp_to_rtsp_h264(nalus, frame) ==
    [packs |-> got_video_key_frame_ \/ Key(nalus), nalus |-> h264_nalus(nalus, frame),
     packets |-> RtpPacker_pack(h264_nalus(nalus, frame))]
rtmp_to_rtsp_h265(nalus, frame) ==
    [packs |-> TRUE, nalus |-> h265_nalus(nalus, frame),
     packets |-> H265RtpPacker_pack(h265_nalus(nalus, frame))]
flv_to_rtsp_h264(nalus, frame) ==
    [packs |-> TRUE, nalus |-> h264_nalus(nalus, frame),
     packets |-> RtpPacker_pack(h264_nalus(nalus, frame))]
flv_to_rtsp_h265(nalus, frame) ==
    [packs |-> TRUE, nalus |-> h265_nalus(nalus, frame),
     packets |-> RtpPacker_pack_h265(h265_nalus(nalus, frame))]
rtmp_to_webrtc_h264(nalus, frame) ==
    [packs |-> TRUE, nalus |-> h264_nalus(nalus, frame),
     packets |-> RtpPacker_pack(h264_nalus(nalus, frame))]

AuBytes(nalus) ==
    [i \in 1..nalus[1].size |-> <<"data", nalus[1].id, i>>]
rtmp_to_rtsp_aac(nalus) ==
    [packs |-> TRUE, nalus |-> nalus, packets |-> RtpPacker_pack_data(AuBytes(nalus))]
flv_to_rtsp_aac(nalus) == rtmp_to_rtsp_aac(nalus)

\* A remote publisher: a long NAL unit as two fragments, small ones in front
\* perhaps aggregated in a STAP-A; any number of access units in one packet.
remote_nalu(nalu, last) ==
    LET data == After(link.codec, nalu, HeaderBytes(link.codec))
        half == Len(data) \div 2
    IN  IF nalu.size > Mtu - 3
        THEN <<Packet("fu", nalu.type, nalu.level, TRUE, FALSE, FALSE, SubSeq(data, 1, half)),
               Packet("fu", nalu.type, nalu.level, FALSE, TRUE, last,
                      SubSeq(data, half + 1, Len(data)))>>
        ELSE <<single_nalu(link.codec, nalu, last)>>

remote_each(nalus) ==
    FlattenSeq([i \in DOMAIN nalus |-> remote_nalu(nalus[i], i = Len(nalus))])

remote_packings(nalus) ==
    LET small == {i \in DOMAIN nalus : \A j \in 1..i : nalus[j].size <= Mtu - 3}
        stap(n) == Packet("stap", "stap", 0, FALSE, FALSE, n = Len(nalus),
                    [j \in 1..n |-> [type |-> nalus[j].type,
                                     bytes |-> Bytes(link.codec, nalus[j])]])
    IN  IF ~Video
        THEN {<<Packet("au", "au", 0, TRUE, TRUE, TRUE, AuBytes(nalus))>>}
        ELSE {remote_each(nalus)} \cup
             {<<stap(n)>> \o remote_each(SubSeq(nalus, n + 1, Len(nalus))) :
                n \in IF link.codec = "h264" THEN small \ {1} ELSE {}}

sender(nalus, frame) ==
    CASE link.send = "rtmp_to_rtsp" /\ link.codec = "h264" -> rtmp_to_rtsp_h264(nalus, frame)
      [] link.send = "rtmp_to_rtsp" /\ link.codec = "h265" -> rtmp_to_rtsp_h265(nalus, frame)
      [] link.send = "rtmp_to_rtsp" /\ link.codec = "aac" -> rtmp_to_rtsp_aac(nalus)
      [] link.send = "flv_to_rtsp" /\ link.codec = "h264" -> flv_to_rtsp_h264(nalus, frame)
      [] link.send = "flv_to_rtsp" /\ link.codec = "h265" -> flv_to_rtsp_h265(nalus, frame)
      [] link.send = "flv_to_rtsp" /\ link.codec = "aac" -> flv_to_rtsp_aac(nalus)
      [] link.send = "rtmp_to_webrtc" -> rtmp_to_webrtc_h264(nalus, frame)

\* The RTP timestamp of a frame at time t; flv multiplies audio in 32 bits.
rtp_timestamp(t, first) ==
    CASE Remote /\ Video -> (base + t * Clock) % TsMod
      [] Remote /\ ~Video -> (base + (t * AudioNum) \div AudioDen) % TsMod
      [] ~Remote /\ Video -> ((t - first) * Clock) % TsMod
      [] link.send = "flv_to_rtsp" /\ ~Video -> ((t * AudioNum) % TsMod) \div AudioDen
      [] link.send = "rtmp_to_rtsp" /\ ~Video ->
            (((t - first) * AudioNum) \div AudioDen) % TsMod

-----------------------------------------------------------------------------
(* The message a receiver makes of the packets of one timestamp.           *)

depacketize(buf, p) ==
    CASE link.codec = "h264" -> on_packet(buf, p)
      [] link.codec = "h265" -> h265_on_packet(buf, p)
      [] link.codec = "aac" -> aac_on_packet(buf, p)

messages(ps) ==
    CASE link.recv = "rtsp_to_rtmp" /\ link.codec = "h264" -> {rtsp_to_rtmp_h264(ps)}
      [] link.recv = "rtsp_to_rtmp" /\ link.codec = "h265" -> {rtsp_to_rtmp_h265(ps)}
      [] link.recv = "rtsp_to_rtmp" /\ link.codec = "aac" -> rtsp_to_rtmp_aac(ps)
      [] link.recv = "rtsp_to_flv" /\ link.codec = "h264" -> {rtsp_to_flv_h264(ps)}
      [] link.recv = "rtsp_to_flv" /\ link.codec = "h265" -> {rtsp_to_flv_h265(ps)}
      [] link.recv = "rtsp_to_flv" /\ link.codec = "aac" -> rtsp_to_flv_aac(ps)
      [] link.recv = "webrtc_to_rtmp" -> {webrtc_to_rtmp_h264(ps)}
      [] link.recv = "webrtc_to_flv" -> {webrtc_to_flv_h264(ps)}

WebRtc == link.recv \in {"webrtc_to_rtmp", "webrtc_to_flv"}

message_time_signed(ts, first) ==
    IF Video THEN (ts - first) \div Clock ELSE ((ts - first) * AudioDen) \div AudioNum

\* process_h264_packet and process_aac_packet: the timestamp of the message in
\* milliseconds, from differences of 32-bit numbers.
message_time(ts, first) ==
    IF Video THEN ((ts - first) % TsMod) \div Clock
    ELSE ((((ts - first) % TsMod) * AudioDen) % TsMod) \div AudioNum

first_rtp_ts(p) == IF first_rtp_ts_ = 0 THEN p.ts ELSE first_rtp_ts_

\* A WebRTC receiver sends metadata and headers once its codec is ready, and
\* no frame before.
header_ready(seen) == header_ready_ \/ (WebRtc /\ seen = {"sps", "pps"})

\* RTSP receivers guess a decoding time from the frame rate.
composition_time(key, time) ==
    IF key \/ WebRtc \/ ~Video THEN 0 ELSE time - (video_dts_ + FrameMs)

-----------------------------------------------------------------------------
Init ==
    /\ link \in Links
    /\ base \in IF link.send = "remote" THEN Bases ELSE {0}
    \* a fresh stream, or one that has been running when the receiver joins
    /\ \E fresh \in BOOLEAN :
        /\ dts = IF fresh THEN 0 ELSE 4
        /\ first_pts_ = IF fresh THEN 0 ELSE 1
        /\ got_video_key_frame_ = ~fresh
        /\ rtp_seqnum_ = IF fresh THEN 0 ELSE SeqWrap - 4
    /\ net = <<>> /\ dups = 0 /\ sent = <<>> /\ out = <<>>
    /\ time_rtp_pkts_buf_ = [t \in {} |-> 0]
    /\ first_rtp_ts_ = 0 /\ video_dts_ = 0 /\ params = {}
    /\ header_ready_ = (link.recv \in {"rtsp_to_rtmp", "rtsp_to_flv"})

\* Nothing flows back to the sender, so only the order of packets matters:
\* frames are sent one by one, or all before the network mixes them.
Packets == FoldLeft(LAMBDA n, f : n + f.count, 0, sent)
Quiet == IF link.net = "ordered" THEN net = <<>>
         ELSE out = <<>> /\ time_rtp_pkts_buf_ = <<>> /\ Len(net) = Packets

\* A frame reaches the sending bridge, step milliseconds after the last, to be
\* shown "offset" later: in an order of presentation of its own, after the
\* first frame and at no other's time.
SendFrame(shape, step, offset) ==
    LET frame == Len(sent) + 1
        nalus == [i \in DOMAIN shape |-> [type |-> shape[i].type, level |-> shape[i].level,
                                          size |-> shape[i].size, id |-> frame * 10 + i]]
        now == IF sent = <<>> THEN dts ELSE dts + step
        t == now + (IF link.send = "rtmp_to_webrtc" \/ ~Video THEN 0 ELSE offset)
        first == IF first_pts_ = 0 THEN t ELSE first_pts_
        ts == rtp_timestamp(t, first)
        packed(packets) == Stamped(packets, rtp_seqnum_, Remote, ts, frame)
        goes(ns, stamped) ==
            /\ rtp_seqnum_' = stamped.seq
            /\ net' = net \o stamped.out
            /\ sent' = Append(sent, [nalus |-> ns, given |-> nalus, t |-> t, ts |-> ts,
                                     count |-> Len(stamped.out), wraps |-> stamped.seq < stamped.out[1].seq])
    IN  /\ Len(sent) < MaxFrames[link.net]
        /\ Quiet
        /\ \A k \in DOMAIN sent : sent[k].t # t /\ sent[1].t < t
        /\ first_pts_' = first
        /\ dts' = now
        /\ got_video_key_frame_' = (got_video_key_frame_ \/ Key(nalus))
        /\ \/ /\ Remote
              /\ \E packets \in remote_packings(nalus) :
                    goes(nalus, packed(packets))
           \/ /\ ~Remote
              /\ LET s == sender(nalus, frame)
                 IN  IF s.packs THEN goes(s.nalus, packed(s.packets))
                     ELSE UNCHANGED <<rtp_seqnum_, net, sent>>
        /\ UNCHANGED <<link, base, dups, receiverVars>>

\* The callback of the receiver's RtpMediaSink, for one packet.
Receive(p) ==
    LET first == first_rtp_ts(p)
        d == depacketize(time_rtp_pkts_buf_, p)
        time == message_time(p.ts, first)
        taken(m) ==
            /\ params' = params \cup (m.types \cap {"sps", "pps"})
            /\ header_ready_' = header_ready(params')
            /\ video_dts_' = IF ~m.made \/ ~Video THEN video_dts_
                             ELSE IF m.key THEN time ELSE video_dts_ + FrameMs
            /\ out' = IF ~m.made \/ ~header_ready_' THEN out
                      ELSE Append(out, [nalus |-> m.nalus, key |-> m.key, time |-> time,
                                        cts |-> composition_time(m.key, time), ts |-> p.ts,
                                        frames |-> {d.pkts[i].frame : i \in DOMAIN d.pkts}])
    IN  /\ first_rtp_ts_' = first
        /\ time_rtp_pkts_buf_' = d.buf
        /\ IF d.pkts = <<>> THEN UNCHANGED <<params, header_ready_, video_dts_, out>>
           ELSE \E m \in messages(d.pkts) : taken(m)
        /\ UNCHANGED <<link, base, senderVars>>

Deliver ==
    /\ net # <<>>
    /\ \/ /\ link.net = "ordered"
          /\ net' = Tail(net) /\ Receive(Head(net))
       \/ /\ link.net = "lossy"
          /\ \E i \in DOMAIN net : net' = RemoveAt(net, i) /\ Receive(net[i])
    /\ UNCHANGED dups

\* The network delivers a packet and keeps a copy.
Duplicate ==
    /\ link.net = "lossy" /\ dups < MaxDups
    /\ dups' = dups + 1
    /\ \E i \in DOMAIN net : Receive(net[i])
    /\ UNCHANGED net

Next ==
    \/ \E shape \in Shapes[link.codec], step \in Steps[link.net], offset \in Offsets[link.net] :
        SendFrame(shape, step, offset)
    \/ Deliver
    \/ Duplicate

Spec == Init /\ [][Next]_vars

-----------------------------------------------------------------------------
(* Properties.                                                             *)

\* Type correctness.
TypeOK ==
    /\ link \in Links /\ base \in 0..(TsMod - 1) /\ dups \in 0..MaxDups
    /\ rtp_seqnum_ \in 0..(SeqWrap - 1) /\ first_rtp_ts_ \in 0..(TsMod - 1)
    /\ DOMAIN time_rtp_pkts_buf_ \subseteq 0..(TsMod - 1)
    /\ \A i \in DOMAIN net : net[i].seq \in 0..(SeqWrap - 1) /\ net[i].ts \in 0..(TsMod - 1)
    /\ params \subseteq {"sps", "pps"} /\ header_ready_ \in BOOLEAN
    /\ got_video_key_frame_ \in BOOLEAN /\ video_dts_ \in Int

Long(nalu) == nalu.size > Mtu - 3
OneFragment(nalu) == Long(nalu) /\ nalu.size - HeaderBytes(link.codec) <= Mtu

\* The frames the code cannot carry: one whose sequence numbers wrap; from the
\* server's own packers, one with a NAL unit that is "fragmented" into a single
\* packet, with a long H.265 NAL unit of another temporal layer or packed as
\* H.264, and an access unit that fills a packet or does not fit it.
Fits(k) ==
    LET f == sent[k] IN
    /\ ~f.wraps
    /\ \/ Remote
       \/ Video /\ \A i \in DOMAIN f.nalus :
            LET n == f.nalus[i] IN
            /\ ~OneFragment(n)
            /\ link.codec = "h265" /\ Long(n) => n.level = 1 /\ link.send # "flv_to_rtsp"
       \/ ~Video /\ f.nalus[1].size + 4 < Mtu

\* Neither the frame nor one that shares its timestamp is of that kind.
Carried(k) == \A j \in DOMAIN sent : sent[j].ts = sent[k].ts => Fits(j)

Image(k) ==
    IF Video THEN [i \in DOMAIN sent[k].nalus |->
                    [len |-> sent[k].nalus[i].size, bytes |-> Bytes(link.codec, sent[k].nalus[i])]]
    ELSE <<[len |-> sent[k].nalus[1].size, bytes |-> AuBytes(sent[k].nalus)]>>

\* Over an ordered connection the bridge from RTP (generate_h264_rtmp_message
\* and its copies) hands on exactly the NAL units the bridge to RTP packed, with
\* their lengths and the right frame type, for every frame the packers carry;
\* and none of them is missing once the packets have arrived (except from a
\* WebRTC receiver, which waits for SPS and PPS).  Whatever the network loses,
\* reorders or repeats, a length the receiver wrote in front of a NAL unit is
\* the number of bytes that follow it.
FramesSurvive ==
    /\ link.net = "ordered" =>
        /\ \A i \in DOMAIN out : \A k \in out[i].frames : Carried(k) =>
            /\ out[i].nalus = Image(k)
            /\ out[i].key <=> Key(sent[k].nalus)
        /\ net = <<>> /\ ~WebRtc =>
            \A k \in DOMAIN sent : Carried(k) => \E i \in DOMAIN out : k \in out[i].frames
    /\ \A i \in DOMAIN out : \A j \in DOMAIN out[i].nalus :
        out[i].nalus[j].len \in {Unset, Len(out[i].nalus[j].bytes)}

\* The depacketizer never mixes two frames in one message, as long as the
\* sender gave them different timestamps; and on an ordered connection every
\* frame takes its packets out of time_rtp_pkts_buf_ before the next begins.
OneFramePerMessage ==
    /\ (\A j, k \in DOMAIN sent : j # k => sent[j].ts # sent[k].ts) =>
        \A i \in DOMAIN out : Cardinality(out[i].frames) = 1
    /\ link.net = "ordered" /\ (\A k \in DOMAIN sent : Video \/ Remote \/ Carried(k)) =>
        Cardinality(DOMAIN time_rtp_pkts_buf_) <= 1

Rising == \A j, k \in DOMAIN sent : j < k => sent[j].t < sent[k].t

\* Milliseconds from the first frame that still fit the code's 32-bit products.
InRange(t) ==
    LET d == t - sent[1].t
    IN  IF Video THEN d * Clock < TsMod ELSE d * AudioNum < TsMod - AudioNum * AudioDen

\* On an ordered connection messages keep the order in time of the frames they
\* carry, if frames come in order of presentation, or no first timestamp was
\* taken for "not set yet" because it is 0.
TimesKeepOrder ==
    link.net = "ordered" /\ sent # <<>>
        /\ (Rising \/ (sent[1].t # 0 /\ sent[1].ts # 0))
        /\ (~Remote /\ ~Video => sent[1].t * AudioNum < TsMod) =>
        \A i, j \in DOMAIN out : \A k \in out[i].frames, l \in out[j].frames :
            sent[k].t < sent[l].t /\ InRange(sent[l].t) => out[i].time <= out[j].time

\* The bridges to RTP put SPS and PPS in front of every IDR slice of a frame
\* that brought neither or both, and the fragments keep them whole.
KeyFramesDecodable ==
    ~Remote /\ Video => \A k \in DOMAIN sent :
        LET given == Types(sent[k].given)
            ns == sent[k].nalus
            fits == \A type \in {"sps", "pps"} : type \in given
            none == given \cap {"sps", "pps"} = {}
        IN  Key(ns) /\ (fits \/ none) => \A i \in DOMAIN ns : ns[i].type \in KeyTypes =>
                \A type \in {"sps", "pps"} : \E j \in 1..(i - 1) :
                    ns[j].type = type /\ ns[j].size = ParamSize[type]
=============================================================================
