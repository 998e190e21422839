------------------------------ MODULE RtmpWire ------------------------------
(***************************************************************************)
(* What RTMP puts on the wire: AMF0 values, the control and command        *)
(* messages made of them, and the FLV tags the same media travels in.      *)
(***************************************************************************)
EXTENDS WireFormat

-----------------------------------------------------------------------------
(* AMF0 values (libs/protocol/rtmp/amf0).  Each starts with its marker.    *)

Marker == Field("marker", 1)

\* A value that is written the way it is read.
Amf0Plain(name, size, fs) == Format(name, size, fs, fs, TRUE)

Amf0Number  == Amf0Plain("number", 9, <<Marker, Field("value", 8)>>)
Amf0Boolean == Amf0Plain("boolean", 2, <<Marker, Field("value", 1)>>)

Amf0String(n) ==
    Amf0Plain("string", 1 + 2 + n, <<Marker, Field("length", 2), Field("value", n)>>)
Amf0Null      == Amf0Plain("null", 1, <<Marker>>)
Amf0Undefined == Amf0Plain("undefined", 1, <<Marker>>)
Amf0ObjEnd    == Amf0Plain("object end", 3, <<Field("empty key", 2), Marker>>)

\* encode() of a date and of a reference is a stub that writes nothing.
Amf0Date ==
    Format("date", 11, <<>>, <<Marker, Field("utc", 8), Field("zone", 2)>>, FALSE)
Amf0Reference ==
    Format("reference", 3, <<>>, <<Marker, Field("value", 2)>>, FALSE)

\* The fields of the k-th value inside another one.
Nested(fs, k) == [j \in 1..Len(fs) |-> [fs[j] EXCEPT !.i = 16 * @ + k]]

\* Values one after the other: decode() stops at the first that it refuses.
Values(vs) ==
    LET n == Max({m \in 0..Len(vs) : \A k \in 1..m : vs[k].ok}) IN
        [size   |-> FoldLeft(LAMBDA s, v : s + v.size, 0, vs),
         writes |-> FlattenSeq([k \in 1..Len(vs) |-> Nested(vs[k].writes, k)]),
         reads  |-> FlattenSeq([k \in 1..n |-> Nested(vs[k].reads, k)]),
         ok     |-> n = Len(vs)]

\* A key and its value.
Property(v) ==
    [v EXCEPT !.size = 2 + 3 + @,
              !.writes = <<Field("key length", 2), Field("key", 3)>> \o @,
              !.reads = <<Field("key length", 2), Field("key", 3)>> \o @]

\* The kinds of value Amf0Object::decode can make; others end it with an error.
ObjectKinds == {"number", "boolean", "string", "object", "null", "undefined",
                "reference", "strict array", "date"}

Properties(vs, kinds) ==
    Values([k \in 1..Len(vs) |-> [Property(vs[k]) EXCEPT !.ok = @ /\ vs[k].name \in kinds]])

\* Values whose encode() does not write what size() counts or decode() needs.
Stub(vs) == \E v \in Range(vs) : v.name \in {"date", "reference", "strict array", "stub object"}

\* Mutant: decode() leaves the end marker in the buffer.
Amf0Object_open(vs) ==
    LET p == Properties(vs, ObjectKinds) IN
        Format(IF Stub(vs) THEN "stub object" ELSE "object", 1 + p.size + 3,
               <<Marker>> \o p.writes \o Amf0ObjEnd.writes, <<Marker>> \o p.reads, p.ok)

Amf0Object(vs) ==
    LET p == Properties(vs, ObjectKinds) IN
        Format(IF Stub(vs) THEN "stub object" ELSE "object", 1 + p.size + 3,
               <<Marker>> \o p.writes \o Amf0ObjEnd.writes,
               <<Marker>> \o p.reads \o When(p.ok, Amf0ObjEnd.reads), p.ok)

\* encode() of an ECMA array writes an object, without a count: its own decode()
\* refuses the marker.  size() is the one of Amf0Data.
Amf0EcmaArray(vs) ==
    Format("ecma array", 0, Amf0Object(vs).writes, <<Marker>>, FALSE)

\* The four bytes of the count are skipped by encode(); held is the count decode()
\* finds in them.
Amf0StrictArray(vs, held) ==
    LET all  == Values(vs)
        read == Values(SubSeq(vs, 1, Min({held, Len(vs)}))) IN
        Format(IF Stub(vs) THEN "stub object" ELSE "strict array", 5 + all.size, <<Marker, Pad(4)>> \o all.writes,
               <<Marker, Field("count", 4)>> \o read.reads, read.ok /\ held <= Len(vs))

-----------------------------------------------------------------------------
(* Control messages: fixed fields (rtmp_message/chunk_message and others).  *)

Control(name, fs) == Format(name, Width(fs), fs, fs, TRUE)

RtmpAbortMessage        == Control("abort", <<Field("chunk_id", 4)>>)
RtmpAcknwledgeMessage   == Control("acknowledge", <<Field("acknowledge", 4)>>)
RtmpSetChunkSizeMessage == Control("set chunk size", <<Field("chunk_size", 4)>>)
RtmpWindowAcknwledgeSizeMessage ==
    Control("window acknowledge size", <<Field("acknowledge_windows_size", 4)>>)
RtmpWindowAckSizeMessage == Control("window ack size", <<Field("ack_window_size", 4)>>)
RtmpSetPeerBandwidthMessage ==
    Control("set peer bandwidth", <<Field("ack_window_size", 4), Field("limit_type", 1)>>)

\* decode() is empty: the server only sends it.
RtmpStreamBeginMessage ==
    [Control("stream begin", <<Field("event_type", 2), Field("stream_id", 4)>>)
        EXCEPT !.reads = <<>>]

-----------------------------------------------------------------------------
(* Command and data messages: AMF0 values one after the other.             *)

Command(name, vs) ==
    LET b == Values(vs) IN Format(name, b.size, b.writes, b.reads, b.ok)

\* decode() is empty here too.
RtmpAccessSampleMessage ==
    [Command("access sample", <<Amf0String(17), Amf0Boolean, Amf0Boolean>>) EXCEPT !.reads = <<>>]

\* decode() wants a tcUrl in the command object.
RtmpConnectCommandMessage(obj, args, tcUrl) ==
    LET m == Command("connect", <<Amf0String(7), Amf0Number, obj>> \o args) IN
        [m EXCEPT !.ok = @ /\ tcUrl]

RtmpConnectRespMessage(props, info) ==
    Command("connect response", <<Amf0String(7), Amf0Number, props, info>>)

\* An empty command object is sent as null, and either is read.
RtmpCreateStreamMessage(vs) ==
    Command("create stream",
            <<Amf0String(12), Amf0Number, IF vs = <<>> THEN Amf0Null ELSE Amf0Object(vs)>>)

RtmpCreateStreamRespMessage ==
    Command("create stream response", <<Amf0String(7), Amf0Number, Amf0Null, Amf0Number>>)

RtmpReleaseStreamMessage(n) ==
    Command("release stream", <<Amf0String(13), Amf0Number, Amf0Null, Amf0String(n)>>)

RtmpReleaseStreamRespMessage ==
    Command("release stream response", <<Amf0String(7), Amf0Number, Amf0Null, Amf0Undefined>>)

RtmpFCPublishMessage(n) ==
    Command("FCPublish", <<Amf0String(9), Amf0Number, Amf0Null, Amf0String(n)>>)

RtmpFCPublishRespMessage ==
    Command("FCPublish response", <<Amf0String(7), Amf0Number, Amf0Null, Amf0Undefined>>)

RtmpPublishMessage(n) ==
    Command("publish", <<Amf0String(7), Amf0Number, Amf0Null, Amf0String(n), Amf0String(4)>>)

\* start, duration and reset follow the stream name, as many as were set.
RtmpPlayMessage(n, opts) ==
    Command("play", <<Amf0String(4), Amf0Number, Amf0Null, Amf0String(n)>>
                        \o SubSeq(<<Amf0Number, Amf0Number, Amf0Boolean>>, 1, opts))

RtmpOnStatusMessage(info) ==
    Command("onStatus", <<Amf0String(8), Amf0Number, Amf0Null, info>>)

\* The metadata of a stream the server makes itself: @setDataFrame, onMetaData and
\* an object, written by the bridges and read by RtmpMetaDataMessage::decode.
RtmpMetaDataMessage(vs) ==
    Command("metadata", <<Amf0String(13), Amf0String(10), Amf0Object(vs)>>)

-----------------------------------------------------------------------------
(* FLV (libs/protocol/rtmp/flv).                                           *)

FlvHeader ==
    Control("flv header", <<Field("signature", 3), Field("version", 1), Field("flags", 1),
                            Field("data_offset", 4)>>)

FlvTagHeader ==
    <<Field("tag_type", 1), Field("data_size", 3), Field("timestamp", 4), Field("stream_id", 3)>>

\* Sound format, rate, size and type share a byte; AAC has one byte more.
AudioTagHeader(aac) == <<Field("sound", 1)>> \o When(aac, <<Field("aac_packet_type", 1)>>)

\* Frame type and codec, or the enhanced header with its four-character code; coded
\* frames with a composition time of their own are kind "CodedFrames".
VideoTagHeader(ext, kind) ==
    LET time == <<Field("composition_time", 3)>> IN
        IF ext THEN <<Field("frame and packet type", 1), Field("fourcc", 4)>>
                        \o When(kind = "CodedFrames", time)
        ELSE <<Field("frame type and codec", 1), Field("avc_packet_type", 1)>> \o time

VideoTagHeader_size(ext, kind) ==
    IF ext THEN 5 + (IF kind = "CodedFrames" THEN 3 ELSE 0) ELSE 1 + 4

\* A tag with this header in its data and n bytes of payload; the caller allocates
\* hsize + n bytes behind the tag header.
FlvTag(name, hsize, header, n) ==
    LET fs == FlvTagHeader \o header \o <<Field("payload", n)>> IN
        Format(name, 11 + hsize + n, fs, fs, TRUE)

AUDIODATA(aac, n) ==
    FlvTag("audio tag", IF aac THEN 2 ELSE 1, AudioTagHeader(aac), n)
VIDEODATA(ext, kind, n) ==
    FlvTag("video tag", VideoTagHeader_size(ext, kind), VideoTagHeader(ext, kind), n)
SCRIPTDATA(n) == FlvTag("script tag", 0, <<>>, n)
=============================================================================
