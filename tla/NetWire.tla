------------------------------- MODULE NetWire ------------------------------
(***************************************************************************)
(* RTP and RTCP packets, STUN messages, WebSocket frames and the decoder   *)
(* configuration records of H.264, HEVC and AAC.                           *)
(***************************************************************************)
EXTENDS WireFormat

Alike(name, size, fs) == Format(name, size, fs, fs, TRUE)

-----------------------------------------------------------------------------
(* RTP and RTCP (libs/protocol/rtp).                                       *)

\* A header extension is read, four bytes of it, and never written.
RtpHeader(csrc, extension) ==
    LET fs == <<Field("version to csrc", 1), Field("marker and pt", 1), Field("seqnum", 2),
                Field("timestamp", 4), Field("ssrc", 4)>> \o Repeat(<<Field("csrcs", 4)>>, csrc) IN
        [writes |-> fs,
         reads  |-> fs \o When(extension, <<Field("profile", 2), Field("length", 2)>>)]

\* The payload is what is left of the datagram behind the header.
RtpPacket(csrc, extension, n) ==
    LET h    == RtpHeader(csrc, extension)
        left == Width(h.writes) + n - Width(h.reads) IN
        Format(IF extension THEN "rtp extended" ELSE "rtp", Width(h.writes) + n,
               h.writes \o <<Field("payload", n)>>,
               h.reads \o When(left >= 0, <<Field("payload", left)>>), left >= 0)

RtcpHeader ==
    <<Field("version to rc", 1), Field("pt", 1), Field("length", 2), Field("sender_ssrc", 4)>>

RtcpFbHeader == RtcpHeader \o <<Field("media_source_ssrc", 4)>>

\* encode() clears the number of packets lost before it writes it.
ReceptionReportBlock ==
    <<Field("ssrc", 4), Field("fraction_lost", 1), Lost("cumulative_number_of_packets_lost", 3),
      Field("extended_highest_sequence_number_received", 4), Field("interarrival_jitter", 4),
      Field("last_SR", 4), Field("delay_since_last_SR", 4)>>

RtcpRR(n) ==
    LET fs == RtcpHeader \o Repeat(ReceptionReportBlock, n) IN
        Alike("receiver report", 8 + 24 * n, fs)

RtcpSr(n) ==
    LET fs == RtcpHeader \o <<Field("ntp_timestamp_sec", 4), Field("ntp_timestamp_psec", 4),
                  Field("rtp_time", 4), Field("sender_packet_count", 4),
                  Field("sender_octet_count", 4)>> \o Repeat(ReceptionReportBlock, n) IN
        Alike("sender report", 28 + 24 * n, fs)

\* decode_and_store() wants the payload to be as long as the length field says.
RtcpFbPacket(words) ==
    Alike("feedback", 12 + 4 * words,
          RtcpFbHeader \o When(words > 0, <<Field("payload", 4 * words)>>))

RtcpFbPli == RtcpFbPacket(0)

-----------------------------------------------------------------------------
(* STUN (live-server/server/stun/protocol).                                *)

StunMsgHeader ==
    <<Field("type", 2), Field("length", 2), Field("magic_cookie", 4), Field("transaction_id", 12)>>

\* An attribute: its header and fields; size() and what encode() writes may differ.
Attr(name, size, ws, rs, ok) ==
    LET h == <<Field("attr type", 2), Field("attr length", 2)>> IN
        Format(name, 4 + size, h \o ws, h \o rs, ok)

PlainAttr(name, size, fs) == Attr(name, size, fs, fs, TRUE)

StunMappedAddressAttr ==
    PlainAttr("mapped address", 8,
              <<Pad(1), Field("family", 1), Field("port", 2), Field("address", 4)>>)

RoundUp(n) == ((n + 3) \div 4) * 4

\* local:remote, padded to four bytes.
StunUsernameAttr(local, remote) ==
    LET n  == IF remote > 0 THEN local + 1 + remote ELSE local
        fs == <<Field("local_user_name", local)>>
                \o When(remote > 0, <<Field("colon", 1), Field("remote_user_name", remote)>>)
                \o When(RoundUp(n) > n, <<Pad(RoundUp(n) - n)>>) IN
        PlainAttr("username", RoundUp(n), fs)

StunGoogNetworkInfoAttr ==
    PlainAttr("network info", 4, <<Field("network_id", 2), Field("network_cost", 2)>>)

\* size() of the two roles counts four bytes for a tie breaker of eight.
StunIceControlledAttr  == PlainAttr("controlled", 4, <<Field("tie_breaker", 8)>>)
StunIceControllingAttr == PlainAttr("controlling", 4, <<Field("tie_breaker", 8)>>)
StunIcePriorityAttr     == PlainAttr("priority", 4, <<Field("priority", 4)>>)
StunIceUseCandidateAttr == PlainAttr("use candidate", 0, <<>>)

\* The length field says 4 whatever the value is.
StunSoftwareAttr(n) == Attr("software", 4, <<Field("val", n)>>, <<Field("val", 4)>>, n >= 4)

\* StunMsg::decode does not step over an error code.
StunErrorCodeAttr == Attr("error code", 4, <<Field("class and number", 4)>>, <<>>, FALSE)

StunMessageIntegrityAttr == PlainAttr("message integrity", 20, <<Field("hmac_sha1", 20)>>)
StunFingerPrintAttr      == PlainAttr("fingerprint", 4, <<Field("crc32", 4)>>)

\* The fields of the attributes, in the order encode() writes them.  decode() goes
\* through them until the first it cannot read; a fingerprint is read only behind
\* the message integrity.
StunMsg(username, attrs, integrity, fingerprint) ==
    LET all == username \o attrs \o When(integrity, <<StunMessageIntegrityAttr>>)
                   \o When(fingerprint, <<StunFingerPrintAttr>>)
        can(k) == all[k].ok /\ (all[k].name = "fingerprint" => integrity)
        n   == Max({m \in 0..Len(all) : \A k \in 1..m : can(k)}) IN
        Format("stun", 20 + FoldLeft(LAMBDA s, a : s + a.size, 0, all),
               StunMsgHeader \o FlattenSeq([k \in 1..Len(all) |-> Entry(all[k].writes, k)]),
               StunMsgHeader \o FlattenSeq([k \in 1..n |-> Entry(all[k].reads, k)]),
               n = Len(all))

-----------------------------------------------------------------------------
(* WebSocket frames (libs/protocol/http/websocket).  The class says how    *)
(* long the payload is: at most 125 bytes, at most 65535 bytes, or more.   *)

PayloadLength(class) ==
    CASE class = "small" -> <<>>
      [] class = "medium" -> <<Field("payload_len", 2)>>
      [] class = "large" -> <<Field("payload_len", 8)>>

header_size(class, mask) ==
    2 + Width(PayloadLength(class)) + (IF mask THEN 4 ELSE 0)

\* The caller sends header_size() bytes of header and then the payload.
WebSocketPacket(class, mask, n) ==
    Alike("websocket", header_size(class, mask) + n,
          <<Field("fin and opcode", 1), Field("mask and payload_len", 1)>> \o PayloadLength(class)
              \o When(mask, <<Field("masking_key", 4)>>) \o <<Field("payload", n)>>)

-----------------------------------------------------------------------------
(* Decoder configurations (libs/codec).                                    *)

Nalu(n) == <<Field("nalu length", 2), Field("nalu", n)>>

Nalus(ns) == FlattenSeq([k \in 1..Len(ns) |-> Entry(Nalu(ns[k]), k)])

SumOf(ns, each) == FoldLeft(LAMBDA s, n : s + each + n, 0, ns)

\* sps and pps are the lengths of the parameter sets.
AVCDecoderConfigurationRecord(sps, pps) ==
    LET shift(fs) == [j \in 1..Len(fs) |-> [fs[j] EXCEPT !.i = 100 + @]] IN
        Alike("avcC record", 7 + SumOf(sps, 2) + SumOf(pps, 2),
              <<Field("version", 1), Field("avc_profile", 1), Field("avc_compatibility", 1),
                Field("avc_level", 1), Field("nalu_length_size_minus_one", 1),
                Field("num_of_sequence_parameter_sets", 1)>> \o Nalus(sps)
                \o <<Field("num_of_picture_parameter_sets", 1)>> \o shift(Nalus(pps)))

\* Fields that decode() takes from other bits than encode() puts them are lost.
HEVCDecoderConfigurationRecord(arrays) ==
    LET array(k) == [j \in 1..(2 + 2 * Len(arrays[k])) |->
                        LET fs == <<Field("NAL_unit_type", 1), Field("numNalus", 2)>> \o Nalus(arrays[k]) IN
                            [fs[j] EXCEPT !.i = 100 * k + @]] IN
        Alike("hvcC record", 23 + FoldLeft(LAMBDA s, ns : s + 3 + SumOf(ns, 2), 0, arrays),
              <<Field("version", 1), Field("general_profile", 1),
                Field("general_profile_compatibility_flags", 4),
                Field("general_constraint_indicator_flags", 6), Field("general_level_idc", 1),
                Lost("min_spatial_segmentation_idc", 2), Lost("parallelismType", 1),
                Field("chromaFormat", 1), Field("bitDepthLumaMinus8", 1),
                Field("bitDepthChromaMinus8", 1), Field("avgFrameRate", 2),
                Lost("numTemporalLayers", 1), Field("numOfArrays", 1)>>
                \o FlattenSeq([k \in 1..Len(arrays) |-> array(k)]))

\* In bits, filled up to whole bytes.  parse() keeps twelve of the 24 bits of an
\* explicit frequency.
AudioSpecificConfig(escape, explicit) ==
    LET fs   == <<Field("audio_object_type", 5)>> \o When(escape, <<Pad(6)>>)
                  \o <<Field("frequency_index", 4)>>
                  \o When(explicit, <<Lost("sampling_frequency", 24)>>)
                  \o <<Field("channel_configuration", 4)>>
        bits == 5 + (IF escape THEN 6 ELSE 0) + 4 + (IF explicit THEN 24 ELSE 0) + 4
        size == ((bits + 7) \div 8) * 8
        fill == When(size > bits, <<Pad(size - bits)>>) IN
        Alike("audio specific config", size, fs \o fill)
=============================================================================
