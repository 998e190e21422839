------------------------------ MODULE GopCache ------------------------------
(***************************************************************************)
(* The packet cache of a live source: SequencePktBuf, a ring of packets    *)
(* addressed by an ever-growing index, and the RtmpMediaSource handlers    *)
(* that fill it on the publisher's thread and drain it, through get_pkts,  *)
(* on the workers of the sinks (core/rtmp_media_source.cpp).  The FLV and  *)
(* TS sources have the same cache; FLV stops at an empty slot.              *)
(*                                                                         *)
(* A packet is its index, its kind, the generation of the video header it  *)
(* was coded under and its timestamp.  get_pkts is taken apart into the    *)
(* steps that lock separately: the headers, the choice of the first index, *)
(* and one step per slot.                                                  *)
(***************************************************************************)
EXTENDS Integers, Sequences

CONSTANTS
    Tracks,        \* what the metadata may announce: "av", "video", "audio"
    Readers,       \* sinks draining the source, each on its own worker
    max_size_,     \* slots of the ring (1024)
    MaxKeyframes,  \* capacity of keyframe_indexes_ (200)
    Gap,           \* a new viewer starts this far behind, in ms (2000)
    Batch,         \* max_count of get_pkts (20)
    Codecs,        \* audio codecs: "aac" has a sequence header, "mp3" has none
    Sinks,         \* kinds of source a sink reads: "rtmp", "flv"
    MaxIndex,      \* bound: packets the publisher sends
    MaxClears,     \* bound: sequence headers among them
    NoPkt          \* an empty slot

ASSUME GopAssumption ==
    /\ Tracks \subseteq {"av", "video", "audio"}
    /\ max_size_ \in Nat \ {0} /\ MaxKeyframes \in Nat \ {0}
    /\ Gap \in Nat \ {0} /\ Batch \in Nat \ {0}
    /\ Codecs \subseteq {"aac", "mp3"} /\ Sinks \subseteq {"rtmp", "flv"}
    /\ MaxIndex \in Nat /\ MaxClears \in Nat

VARIABLES
    codec,                 \* of the audio track; fixed
    pkt_buf_,              \* the ring
    latest_frame_index_,   \* newest index; equal to the ring's indexes_
    keyframe_indexes_,     \* indexes of the key frames, oldest first
    metadata_,             \* "none", or which tracks the metadata announces
    audio_ready_, video_ready_, stream_ready_,
    gen,                   \* generation of video_header_ (0: none)
    latest_video_timestamp_, latest_audio_timestamp_,
    keyed,                 \* publisher: a key frame followed the last video header
    heard,                 \* publisher: it has sent audio
    clears,                \* sequence headers so far
    cutMidGop,             \* an audio header has emptied the ring in this GOP
    reader                 \* [Readers -> state of the sink's get_pkts]

srcVars == <<codec, pkt_buf_, latest_frame_index_, keyframe_indexes_, metadata_,
             audio_ready_, video_ready_, stream_ready_, gen, latest_video_timestamp_,
             latest_audio_timestamp_, keyed, heard, clears, cutMidGop>>
vars == <<srcVars, reader>>

has_video_ == metadata_ \in {"av", "video"}
has_audio_ == metadata_ \in {"av", "audio"}

\* "orphan": an inter frame whose key frame an audio header has cleared.
Frames == {"key", "inter", "orphan"}
Kinds == Frames \cup {"vseq", "aseq", "audio"}
Packet == [i : Nat, kind : Kinds, gen : Nat, ts : Nat]
ASSUME NoPktAssumption == NoPkt \notin Packet
Slots == 0..(max_size_ - 1)

\* A sink's side of get_pkts: where it is in the call, its cursor
\* last_send_pkt_index_, the local start_idx, the packets taken in this call,
\* and what it has been given so far.
ReaderState ==
    [source : Sinks, pc : {"idle", "pick", "fetch", "take"}, cur : Int, pos : Int, cnt : Nat,
     hdr : Nat,                    \* generation of the newest video header given
     since : Nat,                  \* stream time when the call began
     last : Nat,                   \* index of the newest ring packet given
     first : Frames \cup {"none"},  \* first video frame given
     ordered : BOOLEAN,            \* indexes given so far were increasing
     match : BOOLEAN,              \* every video frame came under its own header
     null : BOOLEAN,               \* it was given a null pointer
     skipped : BOOLEAN,            \* an audio header dropped a video header it lacks
     lapped : BOOLEAN]             \* the ring overtook the sink

TypeOK ==
    /\ codec \in Codecs
    /\ pkt_buf_ \in [Slots -> Packet \cup {NoPkt}]
    /\ latest_frame_index_ \in Nat
    /\ keyframe_indexes_ \in Seq(Nat)
    /\ Len(keyframe_indexes_) <= MaxKeyframes
    /\ metadata_ \in Tracks \cup {"none"}
    /\ audio_ready_ \in BOOLEAN /\ video_ready_ \in BOOLEAN /\ stream_ready_ \in BOOLEAN
    /\ gen \in Nat /\ clears \in Nat
    /\ latest_video_timestamp_ \in Nat /\ latest_audio_timestamp_ \in Nat
    /\ keyed \in BOOLEAN /\ heard \in BOOLEAN /\ cutMidGop \in BOOLEAN
    /\ reader \in [Readers -> ReaderState]

Init ==
    /\ pkt_buf_ = [s \in Slots |-> NoPkt]
    /\ latest_frame_index_ = 0 /\ keyframe_indexes_ = <<>>
    /\ metadata_ = "none"
    /\ audio_ready_ = FALSE /\ video_ready_ = FALSE /\ stream_ready_ = FALSE
    /\ gen = 0 /\ clears = 0
    /\ latest_video_timestamp_ = 0 /\ latest_audio_timestamp_ = 0
    /\ keyed = FALSE /\ heard = FALSE /\ cutMidGop = FALSE
    /\ codec \in Codecs
    /\ \E kind \in [Readers -> Sinks] : reader = [r \in Readers |->
                   [source |-> kind[r], pc |-> "idle", cur |-> -1, pos |-> -1, cnt |-> 0, hdr |-> 0,
                    since |-> 0, last |-> 0, first |-> "none", ordered |-> TRUE,
                    match |-> TRUE, null |-> FALSE, skipped |-> FALSE, lapped |-> FALSE]]

-----------------------------------------------------------------------------
(* The ring.                                                               *)

Slot(index) == index % max_size_

get_pkt(index) == pkt_buf_[Slot(index)]

add_pkt(buf, pkt) == [buf EXCEPT ![Slot(pkt.i)] = pkt]

\* mutants of clear: nothing is cleared; the walk stops at slot 0.
clear_nothing == pkt_buf_
clear_no_wrap ==
    [s \in Slots |-> IF s <= latest_frame_index_ % max_size_ THEN NoPkt ELSE pkt_buf_[s]]

\* clear() walks back from the newest slot and stops at the first empty one.
clear ==
    LET Back(d) == latest_frame_index_ - d
        Run == {d \in 0..(max_size_ - 1) : \A e \in 0..d : get_pkt(Back(e)) # NoPkt}
    IN  [s \in Slots |-> IF \E d \in Run : s = Slot(Back(d)) THEN NoPkt ELSE pkt_buf_[s]]

\* keyframe_indexes_.push_back: a full circular_buffer drops its oldest element.
push_back(index) ==
    IF Len(keyframe_indexes_) = MaxKeyframes THEN Append(Tail(keyframe_indexes_), index)
    ELSE Append(keyframe_indexes_, index)

-----------------------------------------------------------------------------
(* The publisher's thread.                                                 *)

StreamTime == IF latest_video_timestamp_ > latest_audio_timestamp_ THEN latest_video_timestamp_
              ELSE latest_audio_timestamp_

Ready(aready, vready) ==
    metadata_ # "none" /\ (has_audio_ => aready) /\ (has_video_ => vready)

\* A get_pkts call that is choosing its start takes less stream time than Gap.
CallsAreShort(ts) == \A r \in Readers :
    reader[r].pc = "pick" => ts - reader[r].since < Gap

\* The sink has its headers, and the start of its packets.
Started(r) == reader[r].cur # -1 \/ reader[r].pc \in {"fetch", "take"}
Called(r) == Started(r) \/ reader[r].pc = "pick"

\* What a sink loses by a packet's arrival: the ring comes round to a slot it
\* has still to read, or drops the video header it has still to be given.
History(kind) ==
    reader' = [r \in Readers |-> [reader[r] EXCEPT
        !.lapped = @ \/ (Started(r) /\ reader[r].pos + max_size_ <= latest_frame_index_ + 1),
        !.skipped = @ \/ (kind = "aseq" /\ Called(r) /\ reader[r].hdr # gen)]]

\* The packet enters the ring buf; stream_ready_ is looked at on every packet.
Store(buf, kind, g, ts) ==
    /\ latest_frame_index_ < MaxIndex
    /\ latest_frame_index_' = latest_frame_index_ + 1
    /\ pkt_buf_' = add_pkt(buf, [i |-> latest_frame_index_ + 1, kind |-> kind,
                                 gen |-> g, ts |-> ts])
    /\ stream_ready_' = (stream_ready_ \/ Ready(audio_ready_', video_ready_'))
    /\ History(kind)

\* on_metadata: which tracks there are; codecs without a header are ready.  A
\* publisher sends the tracks it announces.
on_metadata ==
    /\ metadata_ = "none"
    /\ metadata_' \in Tracks
    /\ gen > 0 => metadata_' # "audio"
    /\ heard => metadata_' # "video"
    /\ audio_ready_' = (audio_ready_ \/ (metadata_' # "video" /\ codec # "aac"))
    /\ UNCHANGED <<pkt_buf_, latest_frame_index_, keyframe_indexes_, video_ready_,
                   stream_ready_, gen, latest_video_timestamp_,
                   latest_audio_timestamp_, keyed, heard, clears, cutMidGop, reader>>

\* on_video_packet, a sequence header: a new generation empties the ring.
on_video_header ==
    /\ metadata_ # "audio"
    /\ clears < MaxClears /\ clears' = clears + 1
    /\ video_ready_' = TRUE
    /\ gen' = gen + 1
    /\ keyed' = FALSE
    /\ UNCHANGED audio_ready_
    /\ Store(clear, "vseq", gen + 1, StreamTime)
    /\ cutMidGop' = FALSE
    /\ UNCHANGED <<keyframe_indexes_, metadata_, heard, latest_video_timestamp_,
                   latest_audio_timestamp_>>

\* on_video_packet, a frame.  Encoders send a key frame after a header.
on_video_frame ==
    \E kind \in {"key", "inter"}, d \in {0, 1} :
        LET ts == StreamTime + d
        IN  /\ gen > 0 /\ (kind = "inter" => keyed)
            /\ CallsAreShort(ts)
            /\ UNCHANGED <<audio_ready_, video_ready_>>
            /\ Store(pkt_buf_, IF kind = "inter" /\ cutMidGop THEN "orphan" ELSE kind,
                     gen, ts)
            /\ keyframe_indexes_' =
                  IF kind = "key" THEN push_back(latest_frame_index_ + 1) ELSE keyframe_indexes_
            /\ keyed' = TRUE
            /\ cutMidGop' = (cutMidGop /\ kind = "inter")
            /\ latest_video_timestamp_' = ts
            /\ UNCHANGED <<metadata_, gen, heard, latest_audio_timestamp_, clears>>

\* on_audio_packet, an AAC sequence header.
on_audio_header ==
    /\ codec = "aac" /\ metadata_ # "video" /\ heard' = TRUE
    /\ clears < MaxClears /\ clears' = clears + 1
    /\ audio_ready_' = (audio_ready_ \/ has_audio_)
    /\ UNCHANGED video_ready_
    /\ Store(clear, "aseq", gen, StreamTime)
    /\ cutMidGop' = (cutMidGop \/ keyed)
    /\ UNCHANGED <<keyframe_indexes_, metadata_, gen, latest_video_timestamp_,
                   latest_audio_timestamp_, keyed>>

\* on_audio_packet, a frame; one of a codec without header makes audio ready.
on_audio_frame ==
    \E d \in {0, 1} :
        LET ts == StreamTime + d
        IN  /\ metadata_ # "video" /\ heard' = TRUE
            /\ CallsAreShort(ts)
            /\ audio_ready_' = (audio_ready_ \/ codec # "aac")
            /\ UNCHANGED video_ready_
            /\ Store(pkt_buf_, "audio", gen, ts)
            /\ latest_audio_timestamp_' = ts
            /\ UNCHANGED <<keyframe_indexes_, metadata_, gen, keyed, clears,
                           cutMidGop, latest_video_timestamp_>>

-----------------------------------------------------------------------------
(* get_pkts, on a sink's worker.                                           *)

Becomes(r, state) == reader' = [reader EXCEPT ![r] = state]

\* The call begins.  The first one takes the headers that are current now.
get_pkts(r) ==
    /\ reader[r].pc = "idle"
    /\ \/ /\ reader[r].cur = -1 /\ stream_ready_
          /\ Becomes(r, [reader[r] EXCEPT !.pc = "pick", !.since = StreamTime,
                                          !.hdr = IF has_video_ THEN gen ELSE 0])
       \/ /\ reader[r].cur # -1 /\ reader[r].cur <= latest_frame_index_
          /\ Becomes(r, [reader[r] EXCEPT !.pc = "fetch", !.pos = reader[r].cur, !.cnt = 0])
    /\ UNCHANGED srcVars

\* Where a new sink may start: a key frame that is Gap old or has left the
\* ring; without video, a packet older than the last one.
Starts ==
    IF has_video_
    THEN {k \in {keyframe_indexes_[j] : j \in DOMAIN keyframe_indexes_} :
             \/ get_pkt(k) = NoPkt
             \/ latest_video_timestamp_ - get_pkt(k).ts >= Gap}
    ELSE {k \in 0..latest_frame_index_ :
             \/ get_pkt(k) = NoPkt
             \/ latest_audio_timestamp_ - get_pkt(k).ts >= 1}

\* The loop from the newest one on stops at the first that fits.
pick_start(r) ==
    /\ reader[r].pc = "pick"
    /\ \/ /\ Starts = {}
          /\ Becomes(r, [reader[r] EXCEPT !.pc = "idle", !.hdr = 0, !.skipped = FALSE])
       \/ \E start_idx \in Starts :
             /\ \A k \in Starts : k <= start_idx
             /\ Becomes(r, [reader[r] EXCEPT !.pc = "fetch", !.pos = start_idx, !.cnt = 0,
                              !.lapped = start_idx + max_size_ <= latest_frame_index_])
    /\ UNCHANGED srcVars

\* What the sink has been given once it gets pkt.
Given(s, pkt) ==
    [s EXCEPT !.pos = s.pos + 1, !.cnt = s.cnt + 1,
              !.last = pkt.i,
              !.ordered = @ /\ pkt.i > s.last,
              !.hdr = IF pkt.kind = "vseq" THEN pkt.gen ELSE @,
              !.match = @ /\ (pkt.kind \in Frames => pkt.gen = s.hdr),
              !.first = IF @ = "none" /\ pkt.kind \in Frames THEN pkt.kind ELSE @]

\* The later calls of FlvMediaSource::get_pkts, one slot: looked up once, and
\* an empty one ends the call.
flv_fetch_slot(r) ==
    LET s == reader[r]
        pkt == get_pkt(s.pos)
    IN  /\ s.pc = "fetch" /\ s.source = "flv" /\ s.cur # -1
        /\ s.pos <= latest_frame_index_ /\ s.cnt < Batch
        /\ \/ /\ pkt # NoPkt
              /\ Becomes(r, Given(s, pkt))
           \/ /\ pkt = NoPkt
              /\ Becomes(r, [s EXCEPT !.pc = "idle", !.cur = s.pos])
        /\ UNCHANGED srcVars

\* mutant of fetch_slot: an empty slot is looked at again.
fetch_slot_stops(r) ==
    /\ reader[r].pc = "fetch"
    /\ reader[r].pos <= latest_frame_index_ /\ reader[r].cnt < Batch
    /\ get_pkt(reader[r].pos) # NoPkt
    /\ Becomes(r, [reader[r] EXCEPT !.pc = "take"])
    /\ UNCHANGED srcVars

\* One slot of the loop: an empty one is skipped.
fetch_slot(r) ==
    /\ reader[r].pc = "fetch" /\ ~(reader[r].source = "flv" /\ reader[r].cur # -1)
    /\ reader[r].pos <= latest_frame_index_ /\ reader[r].cnt < Batch
    /\ \/ /\ get_pkt(reader[r].pos) # NoPkt
          /\ Becomes(r, [reader[r] EXCEPT !.pc = "take"])
       \/ /\ get_pkt(reader[r].pos) = NoPkt
          /\ Becomes(r, [reader[r] EXCEPT !.pos = @ + 1])
    /\ UNCHANGED srcVars

\* The loop looks the packet up a second time to append it.
emplace_back(r) ==
    LET s == reader[r]
        pkt == get_pkt(s.pos)
    IN  /\ s.pc = "take"
        /\ Becomes(r, IF pkt = NoPkt
                      THEN [s EXCEPT !.pc = "fetch", !.pos = @ + 1, !.cnt = @ + 1, !.null = TRUE]
                      ELSE [Given(s, pkt) EXCEPT !.pc = "fetch"])
        /\ UNCHANGED srcVars

\* mutant of get_pkts_return: the cursor stays at the last packet given.
get_pkts_return_last(r) ==
    /\ reader[r].pc = "fetch"
    /\ reader[r].pos > latest_frame_index_ \/ reader[r].cnt >= Batch
    /\ Becomes(r, [reader[r] EXCEPT !.pc = "idle", !.cur = reader[r].pos - 1])
    /\ UNCHANGED srcVars

\* The loop ends at the newest packet or with a full batch.
get_pkts_return(r) ==
    /\ reader[r].pc = "fetch"
    /\ reader[r].pos > latest_frame_index_ \/ reader[r].cnt >= Batch
    /\ Becomes(r, [reader[r] EXCEPT !.pc = "idle", !.cur = reader[r].pos])
    /\ UNCHANGED srcVars

-----------------------------------------------------------------------------
ReaderStep(r) ==
    \/ get_pkts(r) \/ pick_start(r)
    \/ fetch_slot(r) \/ emplace_back(r) \/ flv_fetch_slot(r)
    \/ get_pkts_return(r)

PublisherStep ==
    /\ \/ on_metadata \/ on_video_header \/ on_video_frame
       \/ on_audio_header \/ on_audio_frame
    /\ UNCHANGED codec

Next ==
    \/ PublisherStep
    \/ \E r \in Readers : ReaderStep(r)

Spec == Init /\ [][Next]_vars

\* A sink that has been woken goes round its loop until there is nothing left.
FairSpec == Spec /\ \A r \in Readers : WF_vars(ReaderStep(r))

-----------------------------------------------------------------------------
\* The ring holds exactly the newest packets without a gap: whatever sequence
\* of headers and frames arrives, an occupied slot holds a packet less than
\* max_size_ old, and every later packet is still there
\* (sequence_pkt_buf.hpp:21-26 and 58-67).
RingIsSuffix == \A s \in Slots : pkt_buf_[s] # NoPkt =>
    LET i == pkt_buf_[s].i
    IN  /\ Slot(i) = s
        /\ i <= latest_frame_index_ /\ latest_frame_index_ < i + max_size_
        /\ \A j \in i..latest_frame_index_ : get_pkt(j) # NoPkt /\ get_pkt(j).i = j

\* get_pkt does not compare the index it is asked for with the one in the
\* slot; a sink the ring has not overtaken gets every packet at most once and
\* in the publisher's order all the same (rtmp_media_source.cpp:359-379).
InOrderUnlessLapped == \A r \in Readers : ~reader[r].lapped => reader[r].ordered

\* A viewer's first video frame is a key frame, unless an audio header has
\* emptied the ring inside the GOP or the ring has overtaken the key frame
\* (rtmp_media_source.cpp:317-336), and every video frame it gets was coded
\* under the newest video header it has been given, across a header change at
\* any point of get_pkts (rtmp_media_source.cpp:304-309 and 207-210), unless an
\* audio header has emptied the ring of a video header it was still to get
\* (rtmp_media_source.cpp:131).
Decodable == \A r \in Readers : ~reader[r].lapped =>
    /\ reader[r].first \in {"none", "key", "orphan"}
    /\ reader[r].match \/ reader[r].skipped

\* A sink that has started always gets to the newest packet once it is woken
\* often enough, also when a sequence header empties the ring in front of it.
\* The reader of an FLV source may stop in one place only, a slot that was
\* emptied, until the ring has come round (flv_media_source.cpp:302).
CatchesUp == \A r \in Readers :
    []<>(\/ reader[r].cur = -1 \/ reader[r].cur = latest_frame_index_ + 1
         \/ reader[r].source = "flv" /\ get_pkt(reader[r].cur) = NoPkt)
=============================================================================
