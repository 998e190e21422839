----------------------------- MODULE RtpPayload -----------------------------
(***************************************************************************)
(* Media frames as RTP payloads and back: the packers (RtpPacker,          *)
(* H265RtpPacker), the depacketizers (RtpH264Depacketizer and its H.265    *)
(* and AAC twins) and the generate_* functions of the bridges from RTP,    *)
(* which rebuild a frame from the packets of one timestamp.                *)
(*                                                                         *)
(* A byte is a triple that says what it belongs to and its place there.  A *)
(* NAL unit is its identity, type, level (nal_ref_idc, or temporal id) and *)
(* size; its header is one byte in H.264 and two in H.265.                 *)
(***************************************************************************)
EXTENDS Integers, Sequences, SequencesExt, FiniteSetsExt

CONSTANTS
    Mtu,       \* NAL_RTP_PACKET_SIZE (1400)
    SeqWrap,    \* sequence numbers are 16 bits wide (65536)
    Unset      \* a NAL length field that was skipped and never written

ASSUME RtpPayloadAssumption == Mtu \in Nat /\ Mtu > 4 /\ SeqWrap \in Nat /\ SeqWrap > 2

HeaderBytes(codec) == IF codec = "h264" THEN 1 ELSE 2

Header(codec, type, level) ==
    IF codec = "h264" THEN << <<type, level, 0>> >>
    ELSE << <<type, 0, 0>>, <<"level", level, 0>> >>

\* The bytes of a NAL unit.
Bytes(codec, nalu) ==
    Header(codec, nalu.type, nalu.level)
        \o [i \in 1..(nalu.size - HeaderBytes(codec)) |-> <<"data", nalu.id, i>>]

KeyTypes == {"idr"}

-----------------------------------------------------------------------------
(* Packing.                                                                *)

get_sequence_num(seq) == IF seq + 1 >= SeqWrap - 1 THEN 0 ELSE seq + 1

\* A peer that publishes over RTP uses all numbers.
remote_sequence_num(seq) == (seq + 1) % SeqWrap

Packet(kind, type, level, start, end, marker, body) ==
    [kind |-> kind, type |-> type, level |-> level, start |-> start,
     end |-> end, marker |-> marker, body |-> body]

single_nalu(codec, nalu, last) ==
    Packet("single", nalu.type, nalu.level, FALSE, FALSE, last, Bytes(codec, nalu))

fu_pieces_no_end(kind, nalu, level, data, last) ==
    LET count == (Len(data) + Mtu - 1) \div Mtu
        piece(k) == SubSeq(data, (k - 1) * Mtu + 1, Min({k * Mtu, Len(data)}))
    IN  [k \in 1..count |->
            Packet(kind, nalu.type, level, k = 1, FALSE, last /\ k = count, piece(k))]

\* The pieces of a long NAL unit after its first "skip" bytes.  The start bit
\* has precedence: a NAL unit that fits one piece gets no end bit.
fu_pieces(kind, nalu, level, data, last) ==
    LET count == (Len(data) + Mtu - 1) \div Mtu
        piece(k) == SubSeq(data, (k - 1) * Mtu + 1, Min({k * Mtu, Len(data)}))
    IN  [k \in 1..count |->
            Packet(kind, nalu.type, level, k = 1, k # 1 /\ k = count,
                   last /\ k = count, piece(k))]

After(codec, nalu, skip) == SubSeq(Bytes(codec, nalu), skip + 1, nalu.size)

RtpPacker_nalu(nalu, last) ==
    IF nalu.size > Mtu - 3
    THEN fu_pieces("fu", nalu, nalu.level, After("h264", nalu, 1), last)
    ELSE <<single_nalu("h264", nalu, last)>>

RtpPacker_pack(nalus) ==
    FlattenSeq([i \in DOMAIN nalus |-> RtpPacker_nalu(nalus[i], i = Len(nalus))])

\* The payload header of a fragment is 49 << 1, 1 whatever the NAL unit's.
H265RtpPacker_nalu(nalu, last) ==
    IF nalu.size > Mtu - 3
    THEN fu_pieces("fu", nalu, 1, After("h265", nalu, 2), last)
    ELSE <<single_nalu("h265", nalu, last)>>

H265RtpPacker_pack(nalus) ==
    FlattenSeq([i \in DOMAIN nalus |-> H265RtpPacker_nalu(nalus[i], i = Len(nalus))])

\* RtpPacker given H.265: the FU-A bytes it writes in front read, as an H.265
\* payload header, like a NAL unit of a reserved type.
RtpPacker_pack_h265(nalus) ==
    LET junk == << <<"reserved", 0, 0>>, <<"reserved", 0, 1>> >>
        long(nalu, last) ==
            LET ps == fu_pieces("single", nalu, 0, After("h265", nalu, 1), last)
            IN  [k \in DOMAIN ps |-> [ps[k] EXCEPT !.type = "reserved", !.body = junk \o @]]
    IN  FlattenSeq([i \in DOMAIN nalus |->
            IF nalus[i].size > Mtu - 3 THEN long(nalus[i], i = Len(nalus))
            ELSE <<single_nalu("h265", nalus[i], i = Len(nalus))>>])

\* AAC: a 4-byte AU header section, then the access unit, cut every Mtu bytes.
\* Only the first piece has the AU header; a last piece of exactly Mtu bytes
\* has no marker.
RtpPacker_pack_data(au) ==
    LET total == 4 + Len(au)
        count == (total + Mtu - 1) \div Mtu
        piece(k) == SubSeq(au, Max({1, (k - 1) * Mtu - 3}), Min({k * Mtu - 4, Len(au)}))
    IN  [k \in 1..count |->
            Packet(IF k = 1 THEN "au" ELSE "aupiece", "au", 0, k = 1, k = count,
                   k = count /\ total % Mtu # 0, piece(k))]

\* Sequence numbers, timestamp and the frame (history) onto fresh packets.
Stamped(packets, seq, remote, ts, frame) ==
    FoldLeft(LAMBDA acc, p :
                LET n == IF remote THEN remote_sequence_num(acc.seq) ELSE get_sequence_num(acc.seq)
                IN  [seq |-> n,
                     out |-> Append(acc.out,
                        [kind |-> p.kind, type |-> p.type, level |-> p.level,
                         start |-> p.start, end |-> p.end, marker |-> p.marker,
                         body |-> p.body, seq |-> n, ts |-> ts, frame |-> frame])],
             [seq |-> seq, out |-> <<>>], packets)

-----------------------------------------------------------------------------
(* Depacketizing.                                                          *)

\* on_packet: packets collect under their timestamp, ordered by sequence
\* number, until one with the marker arrives, which takes them all.
Insert(map, p) ==
    [s \in DOMAIN map \cup {p.seq} |-> IF s \in DOMAIN map THEN map[s] ELSE p]

Under(buf, ts) == IF ts \in DOMAIN buf THEN buf[ts] ELSE [s \in {} |-> 0]

InOrder(map) ==
    LET below(s) == {r \in DOMAIN map : r < s}
    IN  [i \in 1..Cardinality(DOMAIN map) |->
            map[CHOOSE s \in DOMAIN map : Cardinality(below(s)) = i - 1]]

on_packet_any_ts(buf, p) ==
    LET one == 0
        map == Insert(Under(buf, one), p)
    IN  IF p.marker
        THEN [buf |-> [t \in DOMAIN buf \ {one} |-> buf[t]], pkts |-> InOrder(map)]
        ELSE [buf |-> [t \in DOMAIN buf \cup {one} |-> IF t = one THEN map ELSE buf[t]],
              pkts |-> <<>>]

on_packet(buf, p) ==
    LET map == Insert(Under(buf, p.ts), p)
    IN  IF p.marker
        THEN [buf |-> [t \in DOMAIN buf \ {p.ts} |-> buf[t]], pkts |-> InOrder(map)]
        ELSE [buf |-> [t \in DOMAIN buf \cup {p.ts} |-> IF t = p.ts THEN map ELSE buf[t]],
              pkts |-> <<>>]

\* H265RtpPktInfo::parse refuses a payload of fewer than 3 bytes.
h265_on_packet(buf, p) ==
    IF Len(p.body) < 3 /\ p.kind = "single" THEN [buf |-> buf, pkts |-> <<>>]
    ELSE on_packet(buf, p)

aac_on_packet(buf, p) == on_packet(buf, p)

-----------------------------------------------------------------------------
(* Rebuilding a frame.                                                     *)

NoMessage == [made |-> FALSE, nalus |-> <<>>, key |-> FALSE, types |-> {}]

\* A run of FU packets from ps[i], whose start bit is set: it ends with a
\* packet whose end bit is set, in front of a packet of another kind, or past
\* the last one.  "next" is where the iterator stands.
RECURSIVE fu_run(_, _, _, _)
fu_run(codec, ps, i, bytes) ==
    LET p == ps[i]
        more == bytes \o (IF p.start THEN Header(codec, p.type, p.level) ELSE <<>>) \o p.body
        here == IF p.start THEN {p.type} ELSE {}
    IN  IF p.end
        THEN [bytes |-> more, closed |-> TRUE, next |-> i, types |-> here]
        ELSE IF i = Len(ps) \/ ps[i + 1].kind # "fu"
        THEN [bytes |-> more, closed |-> FALSE, next |-> i + 1, types |-> here]
        ELSE LET rest == fu_run(codec, ps, i + 1, more)
             IN  [rest EXCEPT !.types = @ \cup here]

fu_entry(run) ==
    [len |-> IF run.closed THEN Len(run.bytes) ELSE Unset, bytes |-> run.bytes]

\* The loop over the packets of a frame, with the message buffer so far.
\* Incrementing an iterator that is already past the last packet is undefined;
\* the outcome taken is that no message is made.
RECURSIVE Rebuild(_, _, _, _, _)
Rebuild(codec, ps, i, nalus, types) ==
    LET p == ps[i]
        finish(ns, ts, at) ==
            IF ps[Min({at, Len(ps)})].marker
            THEN [made |-> TRUE, nalus |-> ns, key |-> ts \cap KeyTypes # {}, types |-> ts]
            ELSE Rebuild(codec, ps, at + 1, ns, ts)
        run == fu_run(codec, ps, i, <<>>)
    IN  IF i > Len(ps) THEN [NoMessage EXCEPT !.types = types]
        ELSE CASE p.kind = "stap" /\ codec = "h264" ->
                    finish(nalus \o [k \in DOMAIN p.body |->
                                [len |-> Len(p.body[k].bytes), bytes |-> p.body[k].bytes]],
                           types \cup {p.body[k].type : k \in DOMAIN p.body}, i)
               [] p.kind = "single" ->
                    finish(Append(nalus, [len |-> Len(p.body), bytes |-> p.body]),
                           types \cup {p.type}, i)
               [] p.kind = "fu" /\ p.start ->
                    finish(Append(nalus, fu_entry(run)), types \cup run.types, run.next)
               [] p.kind = "fu" /\ ~p.start ->
                    finish(Append(nalus, [len |-> Unset, bytes |-> <<>>]), types, i)
               [] OTHER -> Rebuild(codec, ps, i + 1, nalus, types)

\* AAC: the access units of every packet one after the other.  A piece with
\* no AU header has its first bytes read as one: no message, or anything.
Rebuild_aac(ps) ==
    LET last == Min({i \in DOMAIN ps : ps[i].marker})
        bytes == FlattenSeq([i \in 1..last |-> ps[i].body])
        made(bs) == [made |-> TRUE, key |-> FALSE, types |-> {},
                     nalus |-> <<[len |-> Len(bs), bytes |-> bs]>>]
    IN  IF \E i \in 1..last : ps[i].kind = "aupiece"
        THEN {NoMessage, made(<< <<"misread", 0, 0>> >>)}
        ELSE {made(bytes)}

-----------------------------------------------------------------------------
(* The bridges' own copies.                                                *)

rtsp_to_rtmp_h264(ps) == Rebuild("h264", ps, 1, <<>>, {})
rtsp_to_flv_h264(ps) == Rebuild("h264", ps, 1, <<>>, {})
webrtc_to_rtmp_h264(ps) == Rebuild("h264", ps, 1, <<>>, {})
webrtc_to_flv_h264(ps) == Rebuild("h264", ps, 1, <<>>, {})
rtsp_to_rtmp_h265(ps) == Rebuild("h265", ps, 1, <<>>, {})
rtsp_to_flv_h265(ps) == Rebuild("h265", ps, 1, <<>>, {})
rtsp_to_rtmp_aac(ps) == Rebuild_aac(ps)
rtsp_to_flv_aac(ps) == Rebuild_aac(ps)
=============================================================================
