------------------------------ MODULE RtmpChunk ------------------------------
(***************************************************************************)
(* The RTMP chunk stream (RtmpChunkProtocol): how messages are cut into    *)
(* chunks with compressed headers, and how process_recv_buffer puts them   *)
(* together again from whatever part of them has arrived.                  *)
(*                                                                         *)
(* A message is [csid, type, msid, ts, len, id].  On the wire it is a      *)
(* sequence of fields, each read as a whole or not at all: the bytes of    *)
(* the basic header, the fields of the message header, one token per byte  *)
(* of payload.  Timestamps are signed and wrap; a 24-bit field holds the   *)
(* values below Low, and Low - 1 stands for "see the extended field".      *)
(***************************************************************************)
EXTENDS Integers, Sequences

CONSTANTS
    TsMod,      \* timestamps and deltas are 32 bits wide (2^32)
    Low,        \* the short timestamp field has 24 bits (2^24)
    MaxChunks,  \* chunk headers a send_rtmp_messages call has room for (200)
    MaxMessage, \* MAX_RTMP_BUF_BYTES, as a limit to the length of a message
    FirstSize   \* the chunk size both sides begin with (128)

ASSUME ChunkAssumption ==
    /\ TsMod \in Nat \ {0} /\ Low \in 2..TsMod
    /\ MaxChunks \in Nat /\ MaxMessage \in Nat /\ FirstSize \in Nat \ {0}

Signed(n) == LET m == n % TsMod IN IF 2 * m < TsMod THEN m ELSE m - TsMod

Escape == Low - 1

NoChunk == [none |-> TRUE]

Field(name, value) == [name |-> name, value |-> value]

-----------------------------------------------------------------------------
(* The sender.  It remembers the last chunk of every chunk stream.         *)

\* mutant of fmt: the length is not compared.
fmt_any_length(prev, m) ==
    CASE prev = NoChunk \/ prev.msid # m.msid -> 0
      [] prev.msid = m.msid /\ prev.type # m.type -> 1
      [] prev.msid = m.msid /\ prev.type = m.type ->
            IF prev.delta = Signed(m.ts - prev.ts) THEN 3 ELSE 2

fmt(prev, m) ==
    CASE prev = NoChunk \/ prev.msid # m.msid -> 0
      [] prev.msid = m.msid /\ (prev.type # m.type \/ prev.len # m.len) -> 1
      [] prev.msid = m.msid /\ prev.type = m.type /\ prev.len = m.len ->
            IF prev.delta = Signed(m.ts - prev.ts) THEN 3 ELSE 2

basic_header(f, csid) ==
    CASE csid \in 2..63 -> <<Field("basic", <<f, csid>>)>>
      [] csid \in 64..319 -> <<Field("basic", <<f, 0>>), Field("csid", csid - 64)>>
      [] csid \in 320..65599 ->
            <<Field("basic", <<f, 1>>), Field("csid", (csid - 64) % 256),
              Field("csid", (csid - 64) \div 256)>>

message_header(f, prev, m) ==
    LET delta == (m.ts - prev.ts) % TsMod
        short(n) == IF n >= Escape THEN Escape ELSE n % Low
        extended(n) == IF n >= Escape THEN <<Field("extended", n)>> ELSE <<>>
        length == <<Field("length", m.len), Field("type", m.type)>>
    IN  CASE f = 0 -> <<Field("time", short(m.ts))>> \o length
                        \o <<Field("stream", m.msid)>> \o extended(m.ts)
          [] f = 1 -> <<Field("time", short(delta))>> \o length \o extended(delta)
          [] f = 2 -> <<Field("time", short(delta))>> \o extended(delta)
          [] f = 3 -> extended(delta)

\* One turn of the loop of send_rtmp_messages: the fields of the chunk of m that
\* starts behind pos, and what is remembered of it.
send_chunk(prev, m, pos, size) ==
    LET f == fmt(prev, m)
        n == IF size <= m.len - pos THEN size ELSE m.len - pos
    IN  [fields |-> basic_header(f, m.csid) \o message_header(f, prev, m)
                      \o [i \in 1..n |-> Field("data", <<m.id, pos + i>>)],
         pos |-> pos + n,
         prev |-> [msid |-> m.msid, type |-> m.type, len |-> m.len, ts |-> m.ts,
                   delta |-> IF prev = NoChunk THEN 0 ELSE Signed(m.ts - prev.ts)]]

-----------------------------------------------------------------------------
(* The receiver: the last chunk of every chunk stream, the part of the      *)
(* message under construction with it, and the chunk size of the peer.      *)

Names(fields) == [i \in DOMAIN fields |-> fields[i].name]

\* Bytes of the basic header, by its first field.
basic_size(first) == CASE first.value[2] = 0 -> 2
                       [] first.value[2] = 1 -> 3
                       [] OTHER -> 1

csid_of(buf) ==
    CASE buf[1].value[2] = 0 -> 64 + buf[2].value
      [] buf[1].value[2] = 1 -> 64 + buf[2].value + 256 * buf[3].value
      [] OTHER -> buf[1].value[2]

\* The fields of a message header of format f, without the extended time.
header_names(f) ==
    SubSeq(<<"time", "length", "type", "stream">>, 1, CASE f = 0 -> 4 [] f = 1 -> 3 [] f = 2 -> 1 [] f = 3 -> 0)

\* mutant of chunk_header: the delta counts again when the payload arrives late.
chunk_header_again(f, h, extended, prev, first) ==
    LET time == IF extended # <<>> THEN extended[1].value ELSE h[1].value
        moved == Signed(prev.ts + time)
    IN  CASE f = 0 -> [ts |-> Signed(time), delta |-> 0, len |-> h[2].value,
                       type |-> h[3].value, msid |-> h[4].value]
          [] f = 1 -> [ts |-> moved, delta |-> Signed(time), len |-> h[2].value,
                       type |-> h[3].value, msid |-> prev.msid]
          [] f = 2 -> [ts |-> moved, delta |-> Signed(time), len |-> prev.len,
                       type |-> prev.type, msid |-> prev.msid]
          [] f = 3 -> [ts |-> prev.ts, delta |-> prev.delta, len |-> prev.len,
                       type |-> prev.type, msid |-> prev.msid]

\* The header of a chunk: what it does not say is taken from the one before.
\* The delta counts only for the first chunk of a message, and not with fmt 3.
chunk_header(f, h, extended, prev, first) ==
    LET time == IF extended # <<>> THEN extended[1].value ELSE h[1].value
        moved == IF first THEN Signed(prev.ts + time) ELSE prev.ts
    IN  CASE f = 0 -> [ts |-> Signed(time), delta |-> 0, len |-> h[2].value,
                       type |-> h[3].value, msid |-> h[4].value]
          [] f = 1 -> [ts |-> moved, delta |-> Signed(time), len |-> h[2].value,
                       type |-> h[3].value, msid |-> prev.msid]
          [] f = 2 -> [ts |-> moved, delta |-> Signed(time), len |-> prev.len,
                       type |-> prev.type, msid |-> prev.msid]
          [] f = 3 -> [ts |-> prev.ts, delta |-> prev.delta, len |-> prev.len,
                       type |-> prev.type, msid |-> prev.msid]

\* handle_protocol_control_message, for the messages that change the receiver.
\* The first byte of the payload stands for the value it carries.
IsControl(m) == m.csid = 2 /\ m.msid = 0 /\ m.type \in {"chunk_size", "abort", "window"}

handle_set_chunk_size(p, value) == [p EXCEPT !.size = value]
handle_abort(p, value) ==
    [p EXCEPT !.streams = [c \in DOMAIN p.streams \ {value} |-> p.streams[c]]]
handle_window_acknowledge_size(p, value) == [p EXCEPT !.window = value]

handle_protocol_control_message(p, m, value) ==
    CASE m.type = "chunk_size" -> handle_set_chunk_size(p, value)
      [] m.type = "abort" -> handle_abort(p, value)
      [] m.type = "window" -> handle_window_acknowledge_size(p, value)

More(p) == [code |-> "more", used |-> 0, p |-> p, out |-> <<>>]
Fail(p) == [code |-> "fail", used |-> 0, p |-> p, out |-> <<>>]
Took(n, p, out) == [code |-> "ok", used |-> n, p |-> p, out |-> out]

RtmpStart == [streams |-> [c \in {} |-> NoChunk], size |-> FirstSize, window |-> 0]

SetStream(p, csid, chunk) ==
    [p EXCEPT !.streams = [c \in DOMAIN p.streams \cup {csid} |->
                            IF c = csid THEN chunk ELSE p.streams[c]]]

\* A whole header has been read from the first n fields: the payload.
chunk_payload(buf, p, csid, head, got, n) ==
    LET size == IF p.size <= head.len - Len(got) THEN p.size ELSE head.len - Len(got)
        part == got \o SubSeq(buf, n + 1, n + size)
        chunk(msg) == [head |-> head, open |-> msg # "done",
                       got |-> IF msg = "done" THEN <<>> ELSE msg]
        m == [csid |-> csid, type |-> head.type, msid |-> head.msid, ts |-> head.ts,
              len |-> head.len, body |-> part]
        done == SetStream(p, csid, chunk("done"))
    IN  CASE head.len >= MaxMessage -> Fail(SetStream(p, csid, chunk(got)))
          [] head.len < MaxMessage /\ Len(buf) < n + size -> More(SetStream(p, csid, chunk(got)))
          [] head.len < MaxMessage /\ Len(buf) >= n + size ->
                IF Len(part) # head.len
                THEN Took(n + size, SetStream(p, csid, chunk(part)), <<>>)
                ELSE IF IsControl(m)
                THEN Took(n + size, handle_protocol_control_message(done, m, part[1].value[1]), <<>>)
                ELSE Took(n + size, done, <<m>>)

\* process_recv_buffer.  Until the header is complete nothing changes; a header
\* without its payload is remembered, and read again later.  Fields out of place
\* (the two sides disagree about an earlier header) are read as an error here.
process_recv_buffer(buf, p) ==
    LET f == buf[1].value[1]
        b == basic_size(buf[1])
        csid == csid_of(buf)
        known == csid \in DOMAIN p.streams
        prev == IF known THEN p.streams[csid].head ELSE NoChunk
        first == ~known \/ ~p.streams[csid].open
        got == IF first THEN <<>> ELSE p.streams[csid].got
        n == b + Len(header_names(f))
        garbled == Names(SubSeq(buf, b + 1, n)) # header_names(f)
        escaped == f # 3 /\ buf[b + 1].value >= Escape
        extended == IF escaped /\ Len(buf) > n THEN SubSeq(buf, n + 1, n + 1) ELSE <<>>
        head == chunk_header(f, SubSeq(buf, b + 1, n), extended, prev, first)
    IN  CASE Len(buf) = 0 -> More(p)
          [] Len(buf) > 0 /\ buf[1].name # "basic" -> Fail(p)
          [] Len(buf) > 0 /\ buf[1].name = "basic" ->
                IF Len(buf) < b THEN More(p)
                ELSE IF f # 0 /\ ~known THEN Fail(p)
                ELSE IF Len(buf) < n THEN More(p)
                ELSE IF garbled THEN Fail(p)
                ELSE IF escaped /\ extended = <<>> THEN More(p)
                ELSE IF escaped /\ extended[1].name # "extended" THEN Fail(p)
                ELSE chunk_payload(buf, p, csid, head, got, n + Len(extended))
=============================================================================
