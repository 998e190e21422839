--------------------------- MODULE GopSinkProofs ---------------------------
(***************************************************************************)
(* The invariant of the packet cache, and the proof that the steps of the  *)
(* sinks keep it.  GopProofs adds the publisher's steps and the theorems.   *)
(***************************************************************************)
EXTENDS GopCache, TLAPS

-----------------------------------------------------------------------------
(* The inductive invariant.                                                *)

\* Packet j is in the ring.
InRing(j) == get_pkt(j) # NoPkt /\ get_pkt(j).i = j
Holds(j, kinds) == InRing(j) /\ get_pkt(j).kind \in kinds

\* The ring: its packets are the newest ones, all under the current video
\* header, and none is older than a video header among them.
RingInv ==
    /\ \A s \in Slots : pkt_buf_[s] # NoPkt =>
          /\ pkt_buf_[s].i >= 1
          /\ pkt_buf_[s].gen = gen
          /\ pkt_buf_[s].kind \in Frames => gen > 0
    /\ RingIsSuffix
    /\ \A j, k \in 1..latest_frame_index_ : Holds(j, {"vseq"}) /\ InRing(k) => j <= k

\* The publisher's flags, and the list of key frames.
SourceInv ==
    /\ gen = 0 => ~keyed
    /\ metadata_ = "audio" => gen = 0
    /\ stream_ready_ => metadata_ # "none"
    /\ \A a \in DOMAIN keyframe_indexes_ :
          /\ keyframe_indexes_[a] \in 1..latest_frame_index_
          /\ \A b \in DOMAIN keyframe_indexes_ :
                a <= b => keyframe_indexes_[a] <= keyframe_indexes_[b]

\* From index p on, an inter frame in the ring comes after a frame that opens
\* its GOP or has lost it.
Covered(p) == \A j \in p..latest_frame_index_ :
    Holds(j, {"inter"}) => \E k \in p..(j - 1) : Holds(k, {"key", "orphan"})

LastKey == keyframe_indexes_[Len(keyframe_indexes_)]
GopIsWhole == keyed /\ ~cutMidGop

\* Every listed key frame that has not left the ring is a good start, and the
\* last one opens the GOP that is arriving.
KeyInv ==
    /\ \A a \in DOMAIN keyframe_indexes_ :
          keyframe_indexes_[a] + max_size_ > latest_frame_index_ => Covered(keyframe_indexes_[a])
    /\ GopIsWhole =>
          /\ keyframe_indexes_ # <<>>
          /\ LastKey + max_size_ > latest_frame_index_ => Holds(LastKey, {"key"})

\* The place of a sink in the ring, as long as the ring has not overtaken it.
Place(r) ==
    LET s == reader[r]
    IN  /\ s.cur # -1 => s.cur >= 0
        /\ s.pc = "idle" /\ s.cur # -1 => s.pos = s.cur
        /\ s.pc = "pick" => s.cur = -1 /\ metadata_ # "none"
        /\ s.pc = "take" => s.pos <= latest_frame_index_
        /\ Started(r) => s.pos \in 0..(latest_frame_index_ + 1)
        /\ Started(r) /\ ~s.lapped => s.pos + max_size_ > latest_frame_index_
        /\ ~Started(r) => s.last = 0 /\ s.ordered /\ s.match /\ s.first = "none"
        /\ ~s.lapped => s.ordered /\ (s.last = 0 \/ s.last < s.pos)

\* Why the first frame a sink gets is a key frame.
FirstFrame(r) == ~reader[r].lapped =>
    /\ Started(r) /\ reader[r].first = "none" =>
          Covered(reader[r].pos) /\ (GopIsWhole => reader[r].pos <= LastKey)
    /\ reader[r].first \in {"none", "key", "orphan"}

\* The packets since index v, a video header, came after stream time t.
HeaderSince(v, t) == \A j \in v..latest_frame_index_ : j + max_size_ > latest_frame_index_ =>
    /\ InRing(j) /\ get_pkt(j).ts >= t
    /\ j = v => Holds(j, {"vseq"})

\* Why a frame comes under its own header: a sink whose header is out of date
\* has the new one still before it.
Header(r) ==
    LET s == reader[r]
    IN  /\ s.hdr <= gen
        /\ s.pc = "pick" =>
              /\ s.since <= StreamTime
              /\ latest_video_timestamp_ - s.since < Gap
              /\ s.hdr = gen \/ s.skipped \/ \E v \in 1..latest_frame_index_ : HeaderSince(v, s.since)
        /\ Started(r) /\ ~s.lapped /\ ~s.skipped =>
              s.hdr = gen \/ \E v \in s.pos..latest_frame_index_ : Holds(v, {"vseq"})
        /\ ~s.lapped => s.match \/ s.skipped

SinkInv(r) == Place(r) /\ FirstFrame(r) /\ Header(r)

GopInv == TypeOK /\ RingInv /\ SourceInv /\ KeyInv /\ \A r \in Readers : SinkInv(r)

-----------------------------------------------------------------------------
(* Slots: an index modulo the size of the ring.                            *)

LEMMA MultGe == ASSUME NEW n \in Nat \ {0}, NEW k \in Int, k >= 1 PROVE n * k >= n
  OBVIOUS

LEMMA MultMinus ==
    ASSUME NEW n \in Int, NEW p \in Int, NEW q \in Int
    PROVE  n * (p - q) = n * p - n * q
  OBVIOUS

\* A remainder is determined by the number it is the remainder of.
LEMMA RemainderUnique ==
    ASSUME NEW n \in Nat \ {0}, NEW p \in Int, NEW q \in Int,
           NEW x \in 0..(n - 1), NEW y \in 0..(n - 1), n * p + x = n * q + y
    PROVE  x = y
<1>1. n * (p - q) = y - x /\ n * (q - p) = x - y
  <2> DEFINE np == n * p
             nq == n * q
  <2>1. np \in Int /\ nq \in Int
    OBVIOUS
  <2>2. n * (p - q) = np - nq /\ n * (q - p) = nq - np
    BY MultMinus
  <2>3. np + x = nq + y
    BY Zenon
  <2> HIDE DEF np, nq
  <2> QED BY <2>1, <2>2, <2>3
<1>2. ~(p - q >= 1) /\ ~(q - p >= 1)
  BY <1>1, MultGe
<1>3. p = q
  BY <1>2
<1> QED BY <1>3

LEMMA SizeIsPositive == max_size_ \in Nat \ {0}
  BY GopAssumption, Zenon

LEMMA SlotDivides ==
    ASSUME NEW i \in Int
    PROVE  /\ Slot(i) \in 0..(max_size_ - 1)
           /\ \E q \in Int : i = max_size_ * q + Slot(i)
<1> DEFINE q == i \div max_size_
<1>1. Slot(i) \in 0..(max_size_ - 1) /\ q \in Int /\ i = max_size_ * q + Slot(i)
  BY SizeIsPositive DEF Slot
<1> QED BY <1>1, Zenon

LEMMA SlotType == ASSUME NEW i \in Int PROVE Slot(i) \in Slots
  BY SlotDivides, Zenon DEF Slots

\* Two indexes less than a ring apart have different slots.
LEMMA SlotInjective ==
    ASSUME NEW i \in Int, NEW j \in Int, i <= j, j < i + max_size_, Slot(i) = Slot(j)
    PROVE  i = j
<1>1. PICK a \in Int : i = max_size_ * a + Slot(i)
  BY SlotDivides, Zenon
<1>2. PICK b \in Int : j = max_size_ * b + Slot(i)
  BY SlotDivides, Zenon
<1>3. max_size_ * (b - a) = j - i
  <2> SUFFICES ASSUME NEW ma \in Int, NEW mb \in Int, NEW x \in Int,
                      i = ma + x, j = mb + x
               PROVE  mb - ma = j - i
    BY <1>1, <1>2, MultMinus, SlotDivides, SizeIsPositive
  <2> QED OBVIOUS
<1>4. max_size_ * (b - a) + 0 = max_size_ * 0 + (j - i)
  BY <1>3, SizeIsPositive
<1> QED BY <1>4, RemainderUnique, SizeIsPositive

\* One turn of the ring later comes the same slot.
LEMMA SlotWraps ==
    ASSUME NEW i \in Int, NEW j \in Int, j = i + max_size_
    PROVE  Slot(j) = Slot(i)
<1>1. PICK a \in Int : j = max_size_ * a + Slot(j)
  BY SlotDivides, Zenon
<1>2. PICK b \in Int : i = max_size_ * b + Slot(i)
  BY SlotDivides, Zenon
<1> DEFINE c == b + 1
<1>3. c \in Int /\ max_size_ * c = max_size_ * b + max_size_
  BY SizeIsPositive
<1>4. Slot(i) \in 0..(max_size_ - 1) /\ Slot(j) \in 0..(max_size_ - 1)
  BY SlotDivides, Zenon
<1>7. Slot(i) \in Int /\ Slot(j) \in Int /\ i + max_size_ = max_size_ * a + Slot(j)
  BY <1>1, <1>4
<1> HIDE DEF c
<1>5. max_size_ * a \in Int /\ max_size_ * b \in Int /\ max_size_ * c \in Int
  BY <1>3, SizeIsPositive
<1>6. max_size_ * a + Slot(j) = max_size_ * c + Slot(i)
  <2> DEFINE ma == max_size_ * a
             mb == max_size_ * b
             mc == max_size_ * c
             x == Slot(i)
             y == Slot(j)
  <2>1. /\ ma \in Int /\ mb \in Int /\ mc \in Int /\ x \in Int /\ y \in Int
        /\ mc = mb + max_size_ /\ i + max_size_ = ma + y /\ i = mb + x
    BY <1>2, <1>3, <1>5, <1>7, Zenon
  <2> HIDE DEF ma, mb, mc, x, y
  <2>2. ma + y = mc + x
    BY <2>1, SizeIsPositive
  <2> QED BY <2>2, Zenon DEF ma, mb, mc, x, y
<1> QED BY <1>3, <1>4, <1>6, SizeIsPositive, RemainderUnique, Zenon

-----------------------------------------------------------------------------
(* The ring.                                                               *)

Ring == [Slots -> Packet \cup {NoPkt}]

\* What a slot holds is the packet asked for, as long as that packet is less
\* than a ring old: get_pkt need not compare indexes.
LEMMA GetPktIsExact ==
    ASSUME TypeOK, RingIsSuffix, NEW j \in Int, get_pkt(j) # NoPkt,
           j <= latest_frame_index_, latest_frame_index_ < j + max_size_
    PROVE  InRing(j)
<1> DEFINE i == get_pkt(j).i
<1>1. Slot(j) \in Slots
  BY SlotType, Zenon
<1>2. i \in Nat /\ Slot(i) = Slot(j) /\ i <= latest_frame_index_ /\ latest_frame_index_ < i + max_size_
  BY <1>1, Zenon DEF RingIsSuffix, get_pkt, TypeOK, Packet
<1> HIDE DEF i
<1>3. CASE i <= j
  BY <1>2, <1>3, SlotInjective, SizeIsPositive DEF InRing, i, TypeOK
<1>4. CASE j <= i
  BY <1>2, <1>4, SlotInjective, SizeIsPositive DEF InRing, i, TypeOK
<1> QED BY <1>2, <1>3, <1>4

-----------------------------------------------------------------------------
(* The stream time, and the key frames.                                    *)

LEMMA StreamTimeIs ==
    ASSUME TypeOK
    PROVE  /\ StreamTime \in Nat
           /\ latest_video_timestamp_ <= StreamTime /\ latest_audio_timestamp_ <= StreamTime
  BY DEF StreamTime, TypeOK

\* The last key frame of a whole GOP is in the ring, unless it has left it.
LEMMA LastKeyHolds ==
    ASSUME TypeOK, SourceInv, KeyInv, GopIsWhole
    PROVE  /\ LastKey \in 1..latest_frame_index_
           /\ \A a \in DOMAIN keyframe_indexes_ : keyframe_indexes_[a] <= LastKey
           /\ LastKey + max_size_ > latest_frame_index_ => Holds(LastKey, {"key"})
<1>1. keyframe_indexes_ \in Seq(Nat) /\ keyframe_indexes_ # <<>>
  BY Zenon DEF TypeOK, KeyInv
<1>2. Len(keyframe_indexes_) \in DOMAIN keyframe_indexes_
      /\ \A a \in DOMAIN keyframe_indexes_ : a <= Len(keyframe_indexes_)
  BY <1>1
<1> QED BY <1>2, Zenon DEF SourceInv, KeyInv, LastKey

-----------------------------------------------------------------------------
(* The sinks' steps.                                                       *)

Moves(r) ==
    /\ UNCHANGED srcVars
    /\ reader' \in [Readers -> ReaderState]
    /\ \A q \in Readers : q # r => reader'[q] = reader[q]

LEMMA BecomesMoves ==
    ASSUME TypeOK, NEW r \in Readers, NEW state \in ReaderState, Becomes(r, state),
           UNCHANGED srcVars
    PROVE  Moves(r) /\ reader'[r] = state
  BY Zenon DEF TypeOK, Becomes, Moves

\* A sink's step is the sink's own: nothing else can break.
LEMMA SinkMoves ==
    ASSUME GopInv, NEW r \in Readers, Moves(r), Place(r)', FirstFrame(r)', Header(r)'
    PROVE  GopInv'
<1>1. /\ UNCHANGED <<codec, pkt_buf_, latest_frame_index_, keyframe_indexes_, metadata_,
                     audio_ready_, video_ready_, stream_ready_, gen, clears>>
      /\ UNCHANGED <<latest_video_timestamp_, latest_audio_timestamp_, keyed, heard, cutMidGop>>
      /\ reader' \in [Readers -> ReaderState]
  BY Zenon DEF Moves, srcVars
<1>2. TypeOK /\ RingInv /\ SourceInv /\ KeyInv
  BY Zenon DEF GopInv
<1>3. TypeOK'
  BY <1>1, <1>2, Zenon DEF TypeOK
<1>4. RingInv' /\ SourceInv'
  BY <1>1, <1>2, Zenon DEF RingInv, RingIsSuffix, SourceInv, Holds, InRing, get_pkt
<1>5. KeyInv'
  BY <1>1, <1>2 DEF KeyInv, Covered, Holds, InRing, get_pkt, LastKey, GopIsWhole
<1>6. ASSUME NEW q \in Readers PROVE SinkInv(q)'
  <2>1. CASE q = r
    BY <2>1, Zenon DEF SinkInv
  <2>2. CASE q # r
    <3>1. reader'[q] = reader[q]
      BY <2>2, Zenon DEF Moves
    <3>2. Place(q) /\ FirstFrame(q) /\ Header(q)
      BY Zenon DEF GopInv, SinkInv
    <3>3. Place(q)'
      BY <1>1, <3>1, <3>2, Zenon DEF Place, Started
    <3>4. FirstFrame(q)'
      BY <1>1, <3>1, <3>2, Zenon DEF FirstFrame, Started, Covered, Holds, InRing, get_pkt, LastKey, GopIsWhole
    <3>5. Header(q)'
      BY <1>1, <3>1, <3>2 DEF Header, Started, HeaderSince, Holds, InRing, get_pkt, StreamTime
    <3> QED BY <3>3, <3>4, <3>5, Zenon DEF SinkInv
  <2> QED BY <2>1, <2>2, Zenon
<1> QED BY <1>3, <1>4, <1>5, <1>6, Zenon DEF GopInv

LEMMA SourceSame ==
    ASSUME NEW r, Moves(r)
    PROVE  /\ pkt_buf_' = pkt_buf_ /\ latest_frame_index_' = latest_frame_index_
           /\ gen' = gen /\ metadata_' = metadata_ /\ StreamTime' = StreamTime
           /\ latest_video_timestamp_' = latest_video_timestamp_
           /\ LastKey' = LastKey /\ (GopIsWhole' <=> GopIsWhole)
  BY Zenon DEF Moves, srcVars, LastKey, GopIsWhole, StreamTime

LEMMA HoldsSame ==
    ASSUME NEW r, Moves(r), NEW j, NEW kinds PROVE Holds(j, kinds)' <=> Holds(j, kinds)
  BY SourceSame, Zenon DEF Holds, InRing, get_pkt

LEMMA CoveredSame ==
    ASSUME NEW r, Moves(r), NEW p, p = reader'[r].pos
    PROVE  Covered(reader[r].pos)' <=> Covered(p)
  BY SourceSame, HoldsSame, Zenon DEF Covered

\* What the sink has been given, and what it has missed, stays.
SameTale(r) ==
    /\ reader'[r].hdr = reader[r].hdr /\ reader'[r].last = reader[r].last
    /\ reader'[r].first = reader[r].first /\ reader'[r].ordered = reader[r].ordered
    /\ reader'[r].match = reader[r].match /\ reader'[r].skipped = reader[r].skipped
    /\ reader'[r].lapped = reader[r].lapped

\* The call begins, ends, or comes to its second look.
LEMMA StayKeeps ==
    ASSUME GopInv, NEW r \in Readers, Moves(r), SameTale(r), Started(r),
           reader'[r].pos = reader[r].pos, reader'[r].pc # "pick",
           \/ reader'[r].pc = "idle" /\ reader'[r].cur = reader[r].pos
           \/ /\ reader'[r].pc \in {"fetch", "take"} /\ reader'[r].cur = reader[r].cur
              /\ reader'[r].pc = "take" => reader[r].pos <= latest_frame_index_
    PROVE  GopInv'
<1>1. TypeOK /\ Place(r) /\ FirstFrame(r) /\ Header(r)
  BY Zenon DEF GopInv, SinkInv
<1>2. PICK p \in Int : p = reader[r].pos /\ p = reader'[r].pos /\ p >= 0
  BY <1>1 DEF Place
<1>3. Started(r)'
  BY <1>2 DEF Started
<1>4. Place(r)'
  BY <1>1, <1>2, <1>3, SourceSame DEF Place, SameTale
<1>5. FirstFrame(r)'
  <2>1. Covered(reader[r].pos)' <=> Covered(p)
    BY <1>2, CoveredSame, Zenon
  <2> QED BY <1>1, <1>2, <2>1, SourceSame, Zenon DEF FirstFrame, SameTale
<1>6. Header(r)'
  <2>1. \A v : Holds(v, {"vseq"})' <=> Holds(v, {"vseq"})
    BY HoldsSame, Zenon
  <2> QED BY <1>1, <2>1, SourceSame, Zenon DEF Header, SameTale
<1> QED BY <1>4, <1>5, <1>6, SinkMoves, Zenon

\* An empty slot is passed by.
LEMMA SkipKeeps ==
    ASSUME GopInv, NEW r \in Readers, Moves(r), SameTale(r), Started(r),
           reader[r].pos <= latest_frame_index_, get_pkt(reader[r].pos) = NoPkt,
           reader'[r].pos = reader[r].pos + 1, reader'[r].pc = "fetch",
           reader'[r].cur = reader[r].cur
    PROVE  GopInv'
<1>1. TypeOK /\ Place(r) /\ FirstFrame(r) /\ Header(r) /\ SourceInv /\ KeyInv
  BY Zenon DEF GopInv, SinkInv
<1>2. PICK p \in Int : p = reader[r].pos /\ p >= 0
  BY <1>1 DEF Place
<1>3. /\ p + 1 = reader'[r].pos /\ p <= latest_frame_index_ /\ latest_frame_index_ \in Nat
      /\ \A kinds : ~Holds(p, kinds)
  BY <1>1, <1>2, Zenon DEF Holds, InRing, TypeOK
<1>4. Started(r)'
  BY Zenon DEF Started
<1>5. Place(r)'
  <2>1. reader[r].last \in Nat /\ reader[r].cur \in Int
    BY <1>1, Zenon DEF TypeOK, ReaderState
  <2>2. ~reader[r].lapped => p + max_size_ > latest_frame_index_
    BY <1>1, <1>2, Zenon DEF Place
  <2>3. ~reader[r].lapped => reader[r].ordered /\ (reader[r].last = 0 \/ reader[r].last < p)
    BY <1>1, <1>2, Zenon DEF Place
  <2>4. p + 1 \in 0..(latest_frame_index_ + 1)
    BY <1>2, <1>3
  <2>5. reader[r].cur # -1 => reader[r].cur >= 0
    BY <1>1, Zenon DEF Place
  <2> QED BY <1>2, <1>3, <1>4, <2>1, <2>2, <2>3, <2>4, <2>5, SourceSame, SizeIsPositive
          DEF Place, SameTale
<1>6. ASSUME ~reader[r].lapped, reader[r].first = "none"
      PROVE  Covered(p + 1) /\ (GopIsWhole => p + 1 <= LastKey)
  <2>1. Covered(p) /\ (GopIsWhole => p <= LastKey)
    BY <1>1, <1>2, <1>6, Zenon DEF FirstFrame
  <2>2. ASSUME NEW j \in (p + 1)..latest_frame_index_, Holds(j, {"inter"})
        PROVE  \E k \in (p + 1)..(j - 1) : Holds(k, {"key", "orphan"})
    <3>1. j \in p..latest_frame_index_
      BY <1>2, <1>3
    <3>2. PICK k \in p..(j - 1) : Holds(k, {"key", "orphan"})
      BY <2>1, <2>2, <3>1, Zenon DEF Covered
    <3>3. k # p
      BY <1>3, <3>2, Zenon
    <3> QED BY <1>2, <3>1, <3>2, <3>3
  <2>3. ASSUME GopIsWhole PROVE p + 1 <= LastKey
    <3>1. LastKey \in Int /\ p <= LastKey
      BY <1>1, <2>1, <2>3, LastKeyHolds
    <3>2. p + max_size_ > latest_frame_index_
      BY <1>1, <1>2, <1>6, Zenon DEF Place
    <3>3. LastKey = p => Holds(p, {"key"})
      BY <1>1, <2>3, <3>2, LastKeyHolds, Zenon
    <3> QED BY <1>2, <1>3, <3>1, <3>3
  <2> QED BY <2>2, <2>3, Zenon DEF Covered
<1>7. FirstFrame(r)'
  <2>1. Covered(reader[r].pos)' <=> Covered(p + 1)
    BY <1>3, CoveredSame, Zenon
  <2> QED BY <1>1, <1>3, <1>6, <2>1, SourceSame, Zenon DEF FirstFrame, SameTale
<1>8. Header(r)'
  <2>1. \A v : Holds(v, {"vseq"})' <=> Holds(v, {"vseq"})
    BY HoldsSame, Zenon
  <2>2. ASSUME NEW v \in p..latest_frame_index_, Holds(v, {"vseq"})
        PROVE  v \in (p + 1)..latest_frame_index_
    BY <1>2, <1>3, <2>2
  <2>3. ~reader[r].lapped /\ ~reader[r].skipped =>
          reader[r].hdr = gen \/ \E v \in (p + 1)..latest_frame_index_ : Holds(v, {"vseq"})
    BY <1>1, <1>2, <2>2, Zenon DEF Header
  <2>4. reader[r].hdr <= gen /\ (~reader[r].lapped => reader[r].match \/ reader[r].skipped)
    BY <1>1, Zenon DEF Header
  <2> QED BY <1>3, <2>1, <2>3, <2>4, SourceSame, Zenon DEF Header, SameTale
<1> QED BY <1>5, <1>7, <1>8, SinkMoves, Zenon

\* The sink is given the packet in its slot.
Takes(r, pkt) ==
    /\ reader'[r].pos = reader[r].pos + 1 /\ reader'[r].pc = "fetch"
    /\ reader'[r].cur = reader[r].cur /\ reader'[r].last = pkt.i
    /\ reader'[r].ordered = (reader[r].ordered /\ pkt.i > reader[r].last)
    /\ reader'[r].hdr = IF pkt.kind = "vseq" THEN pkt.gen ELSE reader[r].hdr
    /\ reader'[r].match = (reader[r].match /\ (pkt.kind \in Frames => pkt.gen = reader[r].hdr))
    /\ reader'[r].first = IF reader[r].first = "none" /\ pkt.kind \in Frames
                          THEN pkt.kind ELSE reader[r].first
    /\ reader'[r].skipped = reader[r].skipped /\ reader'[r].lapped = reader[r].lapped

\* What it is given, as long as the ring has not overtaken it.
LEMMA TakenPacket ==
    ASSUME GopInv, NEW r \in Readers, Started(r), NEW p \in Int, p = reader[r].pos,
           p <= latest_frame_index_, NEW pkt, pkt = get_pkt(p), pkt # NoPkt
    PROVE  /\ pkt \in Packet /\ pkt.gen = gen /\ p >= 0
           /\ ~reader[r].lapped =>
                 /\ pkt.i = p /\ p >= 1 /\ InRing(p) /\ p + max_size_ > latest_frame_index_
<1>1. TypeOK /\ Place(r) /\ RingInv
  BY Zenon DEF GopInv, SinkInv
<1>2. Slot(p) \in Slots
  BY SlotType, Zenon
<1>3. pkt \in Packet /\ pkt.gen = gen /\ pkt.i >= 1
  BY <1>1, <1>2, Zenon DEF TypeOK, get_pkt, RingInv
<1>4. p >= 0
  BY <1>1 DEF Place
<1>5. ASSUME ~reader[r].lapped
      PROVE  pkt.i = p /\ p >= 1 /\ InRing(p) /\ p + max_size_ > latest_frame_index_
  <2>1. p + max_size_ > latest_frame_index_
    BY <1>1, <1>5, Zenon DEF Place
  <2>2. latest_frame_index_ < p + max_size_
    BY <1>1, <2>1, SizeIsPositive, Zenon DEF TypeOK
  <2>3. InRing(p)
    BY <1>1, <2>2, GetPktIsExact, Zenon DEF RingInv
  <2> QED BY <1>3, <2>1, <2>3, Zenon DEF InRing
<1> QED BY <1>3, <1>4, <1>5, Zenon

LEMMA TakeKeeps ==
    ASSUME GopInv, NEW r \in Readers, Moves(r), Started(r),
           reader[r].pos <= latest_frame_index_, NEW pkt, pkt = get_pkt(reader[r].pos),
           pkt # NoPkt, Takes(r, pkt)
    PROVE  GopInv'
<1>1. TypeOK /\ Place(r) /\ FirstFrame(r) /\ Header(r) /\ SourceInv /\ KeyInv /\ RingInv
  BY Zenon DEF GopInv, SinkInv
<1>2. PICK p \in Int : p = reader[r].pos /\ p >= 0
  BY <1>1 DEF Place
<1>3. /\ p + 1 = reader'[r].pos /\ p <= latest_frame_index_ /\ latest_frame_index_ \in Nat
      /\ pkt = get_pkt(p)
  BY <1>1, <1>2, Zenon DEF Takes, TypeOK
<1>4. /\ pkt \in Packet /\ pkt.gen = gen
      /\ ~reader[r].lapped =>
            /\ pkt.i = p /\ p >= 1 /\ InRing(p) /\ p + max_size_ > latest_frame_index_
  BY <1>2, <1>3, TakenPacket
<1>5. Started(r)'
  BY Zenon DEF Started, Takes
<1>6. Place(r)'
  <2>1. reader[r].last \in Nat /\ reader[r].cur \in Int /\ pkt.i \in Nat
    BY <1>1, <1>4, Zenon DEF TypeOK, ReaderState, Packet
  <2>2. ~reader[r].lapped => reader[r].ordered /\ (reader[r].last = 0 \/ reader[r].last < p)
    BY <1>1, <1>2, Zenon DEF Place
  <2>3. ~reader[r].lapped => pkt.i > reader[r].last /\ pkt.i < p + 1
    BY <1>2, <1>4, <2>1, <2>2
  <2>4. ~reader'[r].lapped => reader'[r].ordered /\ (reader'[r].last = 0 \/ reader'[r].last < p + 1)
    BY <2>2, <2>3, Zenon DEF Takes
  <2>5. p + 1 \in 0..(latest_frame_index_ + 1)
    BY <1>2, <1>3
  <2>6. reader[r].cur # -1 => reader[r].cur >= 0
    BY <1>1, Zenon DEF Place
  <2>7. ~reader'[r].lapped => p + 1 + max_size_ > latest_frame_index_
    <3>1. p + max_size_ > latest_frame_index_ => p + 1 + max_size_ > latest_frame_index_
      BY <1>2, <1>3, SizeIsPositive
    <3> QED BY <1>4, <3>1, Zenon DEF Takes
  <2>8. reader'[r].pc = "fetch" /\ reader'[r].cur = reader[r].cur
    BY Zenon DEF Takes
  <2> QED BY <1>3, <1>5, <2>4, <2>5, <2>6, <2>7, <2>8, SourceSame, Zenon DEF Place
<1>7. ASSUME ~reader[r].lapped, reader[r].first = "none"
      PROVE  /\ pkt.kind # "inter"
             /\ pkt.kind \notin Frames =>
                   Covered(p + 1) /\ (GopIsWhole => p + 1 <= LastKey)
  <2>1. Covered(p) /\ (GopIsWhole => p <= LastKey)
    BY <1>1, <1>2, <1>7, Zenon DEF FirstFrame
  <2>2. pkt.kind # "inter"
    <3>1. SUFFICES ASSUME pkt.kind = "inter" PROVE FALSE
      BY Zenon
    <3>2. Holds(p, {"inter"})
      BY <1>3, <1>4, <1>7, <3>1, Zenon DEF Holds
    <3>3. p \in p..latest_frame_index_
      BY <1>2, <1>3
    <3>4. PICK k \in p..(p - 1) : TRUE
      BY <2>1, <3>2, <3>3, Zenon DEF Covered
    <3> QED BY <1>2, <3>4
  <2>3. ASSUME pkt.kind \notin Frames, NEW j \in (p + 1)..latest_frame_index_, Holds(j, {"inter"})
        PROVE  \E k \in (p + 1)..(j - 1) : Holds(k, {"key", "orphan"})
    <3>1. j \in p..latest_frame_index_
      BY <1>2, <1>3
    <3>2. PICK k \in p..(j - 1) : Holds(k, {"key", "orphan"})
      BY <2>1, <2>3, <3>1, Zenon DEF Covered
    <3>3. k # p
      BY <1>3, <2>3, <3>2, Zenon DEF Holds, Frames
    <3> QED BY <1>2, <3>1, <3>2, <3>3
  <2>4. ASSUME pkt.kind \notin Frames, GopIsWhole PROVE p + 1 <= LastKey
    <3>1. LastKey \in Int /\ p <= LastKey
      BY <1>1, <2>1, <2>4, LastKeyHolds
    <3>2. p + max_size_ > latest_frame_index_
      BY <1>4, <1>7, Zenon
    <3>3. LastKey # p
      BY <1>1, <1>3, <2>4, <3>2, LastKeyHolds, Zenon DEF Holds, Frames
    <3> QED BY <1>2, <3>1, <3>3
  <2> QED BY <2>2, <2>3, <2>4, Zenon DEF Covered
<1>8. FirstFrame(r)'
  <2>1. Covered(reader[r].pos)' <=> Covered(p + 1)
    BY <1>3, CoveredSame, Zenon
  <2>2. reader'[r].lapped = reader[r].lapped
        /\ reader'[r].first = IF reader[r].first = "none" /\ pkt.kind \in Frames
                              THEN pkt.kind ELSE reader[r].first
    BY Zenon DEF Takes
  <2>3. ~reader[r].lapped => reader[r].first \in {"none", "key", "orphan"}
    BY <1>1, Zenon DEF FirstFrame
  <2> QED BY <1>3, <1>7, <2>1, <2>2, <2>3, SourceSame, Zenon DEF FirstFrame, Frames
<1>9. Header(r)'
  <2>1. \A v : Holds(v, {"vseq"})' <=> Holds(v, {"vseq"})
    BY HoldsSame, Zenon
  <2>2. ASSUME ~reader[r].lapped, ~reader[r].skipped
        PROVE  /\ \/ reader'[r].hdr = gen
                  \/ \E v \in (p + 1)..latest_frame_index_ : Holds(v, {"vseq"})
               /\ pkt.kind \in Frames => reader[r].hdr = gen
    <3>1. CASE reader[r].hdr = gen
      BY <1>4, <3>1, Zenon DEF Takes
    <3>2. CASE \E v \in p..latest_frame_index_ : Holds(v, {"vseq"})
      <4>1. PICK v \in p..latest_frame_index_ : Holds(v, {"vseq"})
        BY <3>2, Zenon
      <4>2. v \in 1..latest_frame_index_ /\ p \in 1..latest_frame_index_ /\ InRing(p)
        BY <1>2, <1>3, <1>4, <2>2
      <4>3. v = p
        BY <1>1, <1>2, <4>1, <4>2 DEF RingInv
      <4>4. pkt.kind = "vseq"
        BY <1>3, <4>1, <4>3, Zenon DEF Holds
      <4> QED BY <1>4, <4>4, Zenon DEF Takes, Frames
    <3> QED BY <1>1, <1>2, <2>2, <3>1, <3>2, Zenon DEF Header
  <2>3. reader'[r].hdr <= gen
    <3>1. reader[r].hdr <= gen /\ gen \in Nat
      BY <1>1, Zenon DEF Header, TypeOK
    <3> QED BY <1>4, <3>1 DEF Takes
  <2>4. ~reader'[r].lapped => reader'[r].match \/ reader'[r].skipped
    <3>1. ~reader[r].lapped => reader[r].match \/ reader[r].skipped
      BY <1>1, Zenon DEF Header
    <3>2. ~reader[r].lapped /\ ~reader[r].skipped => (pkt.kind \in Frames => pkt.gen = reader[r].hdr)
      BY <1>4, <2>2, Zenon
    <3> QED BY <3>1, <3>2, Zenon DEF Takes
  <2>5. reader'[r].pc = "fetch" /\ reader'[r].skipped = reader[r].skipped
        /\ reader'[r].lapped = reader[r].lapped
    BY Zenon DEF Takes
  <2> QED BY <1>3, <2>1, <2>2, <2>3, <2>4, <2>5, SourceSame, Zenon DEF Header
<1> QED BY <1>6, <1>8, <1>9, SinkMoves, Zenon

LEMMA StartIs ==
    ASSUME TypeOK, SourceInv, NEW p \in Starts
    PROVE  /\ p \in 0..latest_frame_index_
           /\ has_video_ =>
                 /\ \E a \in DOMAIN keyframe_indexes_ : p = keyframe_indexes_[a]
                 /\ get_pkt(p) = NoPkt \/ latest_video_timestamp_ - get_pkt(p).ts >= Gap
<1>1. CASE has_video_
  <2>1. PICK a \in DOMAIN keyframe_indexes_ : p = keyframe_indexes_[a]
    BY <1>1, Zenon DEF Starts
  <2>2. p \in 1..latest_frame_index_
    BY <2>1, Zenon DEF SourceInv
  <2> QED BY <1>1, <2>1, <2>2 DEF Starts
<1>2. CASE ~has_video_
  BY <1>2, Zenon DEF Starts
<1> QED BY <1>1, <1>2, Zenon

\* The sink has found its start.
Opens(r, p) ==
    /\ p \in Starts
    /\ reader'[r].pos = p /\ reader'[r].pc = "fetch"
    /\ reader'[r].cur = reader[r].cur /\ reader'[r].last = reader[r].last
    /\ reader'[r].hdr = reader[r].hdr /\ reader'[r].first = reader[r].first
    /\ reader'[r].ordered = reader[r].ordered /\ reader'[r].match = reader[r].match
    /\ reader'[r].skipped = reader[r].skipped
    /\ reader'[r].lapped = (p + max_size_ <= latest_frame_index_)

LEMMA StartKeeps ==
    ASSUME GopInv, NEW r \in Readers, Moves(r), reader[r].pc = "pick",
           NEW p \in Int, Opens(r, p)
    PROVE  GopInv'
<1>1. TypeOK /\ Place(r) /\ FirstFrame(r) /\ Header(r) /\ SourceInv /\ KeyInv /\ RingInv
  BY Zenon DEF GopInv, SinkInv
<1>2. /\ reader[r].cur = -1 /\ metadata_ # "none" /\ ~Started(r)
      /\ reader[r].last = 0 /\ reader[r].ordered /\ reader[r].match /\ reader[r].first = "none"
  BY <1>1, Zenon DEF Place, Started
<1>3. Started(r)'
  BY Zenon DEF Started, Opens
<1>4. p >= 0 /\ p <= latest_frame_index_ /\ latest_frame_index_ \in Nat
  <2>1. p \in Starts /\ latest_frame_index_ \in Nat
    BY <1>1, Zenon DEF Opens, TypeOK
  <2> QED BY <1>1, <2>1, StartIs
<1>5. ~reader'[r].lapped => p + max_size_ > latest_frame_index_
  <2>1. ~(p + max_size_ <= latest_frame_index_) => p + max_size_ > latest_frame_index_
    BY <1>4, SizeIsPositive
  <2> QED BY <2>1, Zenon DEF Opens
<1>6. Place(r)'
  <2>1. p \in 0..(latest_frame_index_ + 1)
    BY <1>4
  <2> QED BY <1>2, <1>3, <1>5, <2>1, SourceSame, Zenon DEF Place, Opens
<1>7. ~has_video_ => gen = 0
  BY <1>1, <1>2, GopAssumption, Zenon DEF TypeOK, SourceInv, has_video_
<1>8. has_video_ =>
         /\ \E a \in DOMAIN keyframe_indexes_ : p = keyframe_indexes_[a]
         /\ get_pkt(p) = NoPkt \/ latest_video_timestamp_ - get_pkt(p).ts >= Gap
  BY <1>1, StartIs, Zenon DEF Opens
<1>9. ASSUME p + max_size_ > latest_frame_index_
      PROVE  Covered(p) /\ (GopIsWhole => p <= LastKey)
  <2>1. CASE has_video_
    <3>1. PICK a \in DOMAIN keyframe_indexes_ : p = keyframe_indexes_[a]
      BY <1>8, <2>1, Zenon
    <3>2. Covered(p)
      BY <1>1, <1>9, <3>1, Zenon DEF KeyInv
    <3> QED BY <1>1, <3>1, <3>2, LastKeyHolds, Zenon
  <2>2. CASE ~has_video_
    <3>1. ~GopIsWhole
      BY <1>1, <1>7, <2>2, Zenon DEF SourceInv, GopIsWhole
    <3>2. ASSUME NEW j \in p..latest_frame_index_ PROVE ~Holds(j, {"inter"})
      <4>1. Slot(j) \in Slots
        BY <1>4, SlotType
      <4>2. pkt_buf_[Slot(j)] # NoPkt => (pkt_buf_[Slot(j)].kind \in Frames => gen > 0)
        BY <1>1, <4>1, Zenon DEF RingInv
      <4> QED BY <1>7, <2>2, <4>2 DEF Holds, InRing, get_pkt, Frames
    <3> QED BY <3>1, <3>2, Zenon DEF Covered
  <2> QED BY <2>1, <2>2, Zenon
<1>10. FirstFrame(r)'
  <2>1. Covered(reader[r].pos)' <=> Covered(p)
    BY CoveredSame, Zenon DEF Opens
  <2>2. reader'[r].first = "none" /\ reader'[r].pos = p
    BY <1>2, Zenon DEF Opens
  <2> QED BY <1>5, <1>9, <2>1, <2>2, SourceSame, Zenon DEF FirstFrame
<1>11. ASSUME p + max_size_ > latest_frame_index_, ~reader[r].skipped, reader[r].hdr # gen
       PROVE  \E v \in p..latest_frame_index_ : Holds(v, {"vseq"})
  <2>1. reader[r].since \in Nat /\ reader[r].hdr \in Nat /\ gen \in Nat /\ reader[r].hdr <= gen
    BY <1>1, Zenon DEF TypeOK, ReaderState, Header
  <2>2. has_video_
    BY <1>7, <1>11, <2>1
  <2>3. PICK v \in 1..latest_frame_index_ : HeaderSince(v, reader[r].since)
    BY <1>1, <1>11, Zenon DEF Header
  <2>4. get_pkt(p) = NoPkt \/ latest_video_timestamp_ - get_pkt(p).ts >= Gap
    BY <1>8, <2>2, Zenon
  <2>5. p < v
    <3>1. SUFFICES ASSUME v <= p PROVE FALSE
      BY <1>4
    <3>2. p \in v..latest_frame_index_
      BY <1>4, <3>1
    <3>3. InRing(p) /\ get_pkt(p).ts >= reader[r].since
      BY <1>11, <2>3, <3>2, Zenon DEF HeaderSince
    <3>4. get_pkt(p).ts \in Nat
      BY <1>1, <3>3, SlotType, Zenon DEF InRing, get_pkt, TypeOK, Packet
    <3>5. latest_video_timestamp_ - reader[r].since < Gap /\ latest_video_timestamp_ \in Nat /\ Gap \in Nat
      BY <1>1, GopAssumption, Zenon DEF Header, TypeOK
    <3>6. latest_video_timestamp_ - get_pkt(p).ts < Gap
      BY <2>1, <3>3, <3>4, <3>5
    <3> QED BY <2>4, <3>3, <3>4, <3>5, <3>6 DEF InRing
  <2>6. v \in p..latest_frame_index_ /\ v \in v..latest_frame_index_ /\ v + max_size_ > latest_frame_index_
    BY <1>4, <1>11, <2>5, SizeIsPositive
  <2> QED BY <2>3, <2>6, Zenon DEF HeaderSince
<1>12. Header(r)'
  <2>1. \A v : Holds(v, {"vseq"})' <=> Holds(v, {"vseq"})
    BY HoldsSame, Zenon
  <2>2. /\ reader'[r].hdr = reader[r].hdr /\ reader'[r].pc = "fetch" /\ reader'[r].pos = p
        /\ reader'[r].skipped = reader[r].skipped /\ reader'[r].match = reader[r].match
    BY Zenon DEF Opens
  <2>3. reader[r].hdr <= gen
    BY <1>1, Zenon DEF Header
  <2> QED BY <1>2, <1>5, <1>11, <2>1, <2>2, <2>3, SourceSame, Zenon DEF Header
<1> QED BY <1>6, <1>10, <1>12, SinkMoves, Zenon

LEMMA GetPktsKeeps ==
    ASSUME GopInv, NEW r \in Readers, get_pkts(r) PROVE GopInv'
<1>1. TypeOK /\ Place(r) /\ FirstFrame(r) /\ Header(r) /\ SourceInv
  BY Zenon DEF GopInv, SinkInv
<1>2. reader[r] \in ReaderState /\ UNCHANGED srcVars /\ reader[r].pc = "idle"
  BY <1>1, Zenon DEF get_pkts, TypeOK
<1>3. CASE /\ reader[r].cur = -1 /\ stream_ready_
           /\ Becomes(r, [reader[r] EXCEPT !.pc = "pick", !.since = StreamTime,
                                           !.hdr = IF has_video_ THEN gen ELSE 0])
  <2>1. PICK t \in Nat : t = StreamTime
    BY <1>1, StreamTimeIs, Zenon
  <2>2. gen = IF has_video_ THEN gen ELSE 0
    BY <1>1, <1>3, GopAssumption, Zenon DEF SourceInv, has_video_, TypeOK
  <2>3. PICK g \in Nat : g = gen
    BY <1>1, Zenon DEF TypeOK
  <2>4. PICK st : st = [reader[r] EXCEPT !.pc = "pick", !.since = t, !.hdr = g]
    BY Zenon
  <2>5. st \in ReaderState
    BY <1>2, <2>1, <2>3, <2>4, Zenon DEF ReaderState
  <2>6. /\ st.pc = "pick" /\ st.since = t /\ st.hdr = g
        /\ st.cur = reader[r].cur /\ st.pos = reader[r].pos /\ st.last = reader[r].last
        /\ st.first = reader[r].first /\ st.ordered = reader[r].ordered
        /\ st.match = reader[r].match /\ st.lapped = reader[r].lapped
    BY <1>2, <2>4, Zenon DEF ReaderState
  <2>7. Becomes(r, st)
    BY <1>3, <2>1, <2>2, <2>3, <2>4, Zenon DEF Becomes
  <2>8. Moves(r) /\ reader'[r] = st
    BY <1>1, <1>2, <2>5, <2>7, BecomesMoves, Zenon
  <2>9. ~Started(r) /\ ~Started(r)'
    BY <1>2, <1>3, <2>6, <2>8, Zenon DEF Started
  <2>10. Place(r)'
    BY <1>1, <1>3, <2>6, <2>8, <2>9, SourceSame, Zenon DEF Place, SourceInv
  <2>11. FirstFrame(r)'
    BY <1>1, <2>6, <2>8, <2>9, Zenon DEF FirstFrame
  <2>12. Header(r)'
    <3>1. latest_video_timestamp_ - t < Gap
      BY <1>1, <2>1, StreamTimeIs, GopAssumption DEF TypeOK
    <3>2. st.match
      BY <1>1, <2>6, <2>9, Zenon DEF Place
    <3> QED BY <2>1, <2>3, <2>6, <2>8, <2>9, <3>1, <3>2, SourceSame DEF Header
  <2> QED BY <2>8, <2>10, <2>11, <2>12, SinkMoves, Zenon
<1>4. CASE /\ reader[r].cur # -1
           /\ Becomes(r, [reader[r] EXCEPT !.pc = "fetch", !.pos = reader[r].cur, !.cnt = 0])
  <2>1. PICK st : st = [reader[r] EXCEPT !.pc = "fetch", !.pos = reader[r].cur, !.cnt = 0]
    BY Zenon
  <2>2. st \in ReaderState /\ st.pc = "fetch" /\ st.pos = reader[r].cur /\ st.cur = reader[r].cur
    BY <1>2, <2>1, Zenon DEF ReaderState
  <2>3. /\ st.hdr = reader[r].hdr /\ st.last = reader[r].last
        /\ st.first = reader[r].first /\ st.ordered = reader[r].ordered
        /\ st.match = reader[r].match /\ st.lapped = reader[r].lapped
        /\ st.skipped = reader[r].skipped
    BY <1>2, <2>1, Zenon DEF ReaderState
  <2>4. Moves(r) /\ reader'[r] = st
    BY <1>1, <1>2, <1>4, <2>1, <2>2, BecomesMoves, Zenon
  <2>5. SameTale(r) /\ Started(r) /\ reader[r].pos = reader[r].cur
    BY <1>1, <1>2, <1>4, <2>3, <2>4, Zenon DEF SameTale, Started, Place
  <2> QED BY <2>2, <2>4, <2>5, StayKeeps, Zenon
<1> QED BY <1>3, <1>4, Zenon DEF get_pkts

LEMMA PickStartKeeps ==
    ASSUME GopInv, NEW r \in Readers, pick_start(r) PROVE GopInv'
<1>1. TypeOK /\ Place(r) /\ FirstFrame(r) /\ Header(r) /\ SourceInv
  BY Zenon DEF GopInv, SinkInv
<1>2. reader[r] \in ReaderState /\ UNCHANGED srcVars /\ reader[r].pc = "pick"
  BY <1>1, Zenon DEF pick_start, TypeOK
<1>3. CASE Becomes(r, [reader[r] EXCEPT !.pc = "idle", !.hdr = 0, !.skipped = FALSE])
  <2>1. PICK st : st = [reader[r] EXCEPT !.pc = "idle", !.hdr = 0, !.skipped = FALSE]
    BY Zenon
  <2>2. st \in ReaderState
    BY <1>2, <2>1, Zenon DEF ReaderState
  <2>3. /\ st.pc = "idle" /\ st.hdr = 0
        /\ st.cur = reader[r].cur /\ st.pos = reader[r].pos /\ st.last = reader[r].last
        /\ st.first = reader[r].first /\ st.ordered = reader[r].ordered
        /\ st.match = reader[r].match /\ st.lapped = reader[r].lapped
    BY <1>2, <2>1, Zenon DEF ReaderState
  <2>4. Becomes(r, st)
    BY <1>3, <2>1, Zenon
  <2>5. Moves(r) /\ reader'[r] = st
    BY <1>1, <1>2, <2>2, <2>4, BecomesMoves, Zenon
  <2>6. reader[r].cur = -1 /\ ~Started(r) /\ ~Started(r)'
    BY <1>1, <1>2, <2>3, <2>5, Zenon DEF Started, Place
  <2>7. Place(r)'
    BY <1>1, <2>3, <2>5, <2>6, SourceSame, Zenon DEF Place
  <2>8. FirstFrame(r)'
    BY <1>1, <2>3, <2>5, <2>6, Zenon DEF FirstFrame
  <2>9. Header(r)'
    <3>1. st.match
      BY <1>1, <2>3, <2>6, Zenon DEF Place
    <3>2. gen \in Nat
      BY <1>1, Zenon DEF TypeOK
    <3> QED BY <2>3, <2>5, <2>6, <3>1, <3>2, SourceSame DEF Header
  <2> QED BY <2>5, <2>7, <2>8, <2>9, SinkMoves, Zenon
<1>4. ASSUME NEW p \in Nat, p \in Starts,
             Becomes(r, [reader[r] EXCEPT !.pc = "fetch", !.pos = p, !.cnt = 0,
                           !.lapped = p + max_size_ <= latest_frame_index_])
      PROVE  GopInv'
  <2>1. p \in Int
    OBVIOUS
  <2>2. PICK l \in BOOLEAN : l = (p + max_size_ <= latest_frame_index_)
    <3>1. (p + max_size_ <= latest_frame_index_) \in BOOLEAN
      OBVIOUS
    <3> QED BY <3>1, Zenon
  <2>3. PICK st : st = [reader[r] EXCEPT !.pc = "fetch", !.pos = p, !.cnt = 0, !.lapped = l]
    BY Zenon
  <2>4. st \in ReaderState
    BY <1>2, <2>1, <2>3, Zenon DEF ReaderState
  <2>5. /\ st.pos = p /\ st.pc = "fetch" /\ st.lapped = l
        /\ st.cur = reader[r].cur /\ st.last = reader[r].last
        /\ st.hdr = reader[r].hdr /\ st.first = reader[r].first
        /\ st.ordered = reader[r].ordered /\ st.match = reader[r].match
        /\ st.skipped = reader[r].skipped
    BY <1>2, <2>3, Zenon DEF ReaderState
  <2>6. Becomes(r, st)
    BY <1>4, <2>2, <2>3, Zenon
  <2>7. Moves(r) /\ reader'[r] = st
    BY <1>1, <1>2, <2>4, <2>6, BecomesMoves, Zenon
  <2>8. Opens(r, p)
    BY <1>4, <2>2, <2>5, <2>7, Zenon DEF Opens
  <2> QED BY <1>2, <2>1, <2>7, <2>8, StartKeeps, Zenon
<1>5. Starts \subseteq Nat
  <2>1. latest_frame_index_ \in Nat
    BY <1>1, Zenon DEF TypeOK
  <2> QED BY <1>1, <2>1, StartIs
<1> QED BY <1>3, <1>4, <1>5, Zenon DEF pick_start

IsGiven(s, pkt, t) ==
    /\ t.pos = s.pos + 1 /\ t.pc = s.pc /\ t.cur = s.cur /\ t.last = pkt.i
    /\ t.ordered = (s.ordered /\ pkt.i > s.last)
    /\ t.hdr = IF pkt.kind = "vseq" THEN pkt.gen ELSE s.hdr
    /\ t.match = (s.match /\ (pkt.kind \in Frames => pkt.gen = s.hdr))
    /\ t.first = IF s.first = "none" /\ pkt.kind \in Frames THEN pkt.kind ELSE s.first
    /\ t.skipped = s.skipped /\ t.lapped = s.lapped

LEMMA GivenIs ==
    ASSUME NEW s \in ReaderState, NEW pkt \in Packet, NEW t, t = Given(s, pkt)
    PROVE  t \in ReaderState /\ IsGiven(s, pkt, t)
<1> DEFINE Ordered == s.ordered /\ pkt.i > s.last
           Match == s.match /\ (pkt.kind \in Frames => pkt.gen = s.hdr)
           Hdr == IF pkt.kind = "vseq" THEN pkt.gen ELSE s.hdr
           First == IF s.first = "none" /\ pkt.kind \in Frames THEN pkt.kind ELSE s.first
<1>1. Ordered \in BOOLEAN /\ Match \in BOOLEAN
  BY Zenon
<1>2. Hdr \in Nat /\ First \in Frames \cup {"none"} /\ pkt.i \in Nat
  BY Zenon DEF ReaderState, Packet
<1>3. PICK o, m \in BOOLEAN : o = Ordered /\ m = Match
  BY <1>1, Zenon
<1>4. PICK h, f, pos, cnt : h = Hdr /\ f = First /\ pos = s.pos + 1 /\ cnt = s.cnt + 1
  BY Zenon
<1>5. pos \in Int /\ cnt \in Nat
  BY <1>4 DEF ReaderState
<1> HIDE DEF Ordered, Match, Hdr, First
<1>6. t = [s EXCEPT !.pos = pos, !.cnt = cnt, !.last = pkt.i, !.ordered = o,
                    !.hdr = h, !.match = m, !.first = f]
  BY <1>3, <1>4, Zenon DEF Given, Ordered, Match, Hdr, First
<1>7. t \in ReaderState
  BY <1>2, <1>3, <1>4, <1>5, <1>6, ZenonT(30) DEF ReaderState
<1>8. /\ t.pos = pos /\ t.pc = s.pc /\ t.cur = s.cur /\ t.last = pkt.i
      /\ t.ordered = o /\ t.hdr = h /\ t.match = m /\ t.first = f
      /\ t.skipped = s.skipped /\ t.lapped = s.lapped
  BY <1>6, Zenon DEF ReaderState
<1> QED BY <1>3, <1>4, <1>7, <1>8, Zenon DEF IsGiven, Ordered, Match, Hdr, First

LEMMA GivenTakes ==
    ASSUME NEW r, NEW s \in ReaderState, s = reader[r], NEW pkt \in Packet,
           NEW t, t = Given(s, pkt), NEW st, reader'[r] = st, st.pc = "fetch",
           st.pos = t.pos, st.cur = t.cur, st.last = t.last, st.ordered = t.ordered,
           st.hdr = t.hdr, st.match = t.match, st.first = t.first,
           st.skipped = t.skipped, st.lapped = t.lapped
    PROVE  Takes(r, pkt)
<1>1. IsGiven(s, pkt, t)
  BY GivenIs, Zenon
<1> QED BY <1>1, Zenon DEF Takes, IsGiven

LEMMA FetchSlotKeeps ==
    ASSUME GopInv, NEW r \in Readers, fetch_slot(r) PROVE GopInv'
<1>1. TypeOK
  BY Zenon DEF GopInv
<1>2. /\ reader[r] \in ReaderState /\ UNCHANGED srcVars /\ reader[r].pc = "fetch"
      /\ Started(r) /\ reader[r].pos <= latest_frame_index_
  BY <1>1, Zenon DEF fetch_slot, TypeOK, Started
<1>3. CASE Becomes(r, [reader[r] EXCEPT !.pc = "take"])
  <2>1. PICK st : st = [reader[r] EXCEPT !.pc = "take"]
    BY Zenon
  <2>2. /\ st \in ReaderState /\ st.pc = "take" /\ st.pos = reader[r].pos /\ st.cur = reader[r].cur
        /\ st.hdr = reader[r].hdr /\ st.last = reader[r].last
        /\ st.first = reader[r].first /\ st.ordered = reader[r].ordered
        /\ st.match = reader[r].match /\ st.lapped = reader[r].lapped
        /\ st.skipped = reader[r].skipped
    BY <1>2, <2>1, Zenon DEF ReaderState
  <2>3. Moves(r) /\ reader'[r] = st
    BY <1>1, <1>2, <1>3, <2>1, <2>2, BecomesMoves, Zenon
  <2>4. SameTale(r)
    BY <2>2, <2>3, Zenon DEF SameTale
  <2> QED BY <1>2, <2>2, <2>3, <2>4, StayKeeps, Zenon
<1>4. CASE /\ get_pkt(reader[r].pos) = NoPkt
           /\ Becomes(r, [reader[r] EXCEPT !.pos = @ + 1])
  <2>1. PICK st : st = [reader[r] EXCEPT !.pos = reader[r].pos + 1]
    BY Zenon
  <2>2. /\ st \in ReaderState /\ st.pc = "fetch" /\ st.pos = reader[r].pos + 1
        /\ st.cur = reader[r].cur
        /\ st.hdr = reader[r].hdr /\ st.last = reader[r].last
        /\ st.first = reader[r].first /\ st.ordered = reader[r].ordered
        /\ st.match = reader[r].match /\ st.lapped = reader[r].lapped
        /\ st.skipped = reader[r].skipped
    BY <1>2, <2>1 DEF ReaderState
  <2>3. Moves(r) /\ reader'[r] = st
    BY <1>1, <1>2, <1>4, <2>1, <2>2, BecomesMoves, Zenon
  <2>4. SameTale(r)
    BY <2>2, <2>3, Zenon DEF SameTale
  <2> QED BY <1>2, <1>4, <2>2, <2>3, <2>4, SkipKeeps, Zenon
<1> QED BY <1>3, <1>4, Zenon DEF fetch_slot

LEMMA EmplaceBackKeeps ==
    ASSUME GopInv, NEW r \in Readers, emplace_back(r) PROVE GopInv'
<1>1. TypeOK /\ Place(r) /\ RingInv
  BY Zenon DEF GopInv, SinkInv
<1>2. /\ reader[r] \in ReaderState /\ UNCHANGED srcVars /\ reader[r].pc = "take"
      /\ Started(r) /\ reader[r].pos <= latest_frame_index_
  BY <1>1, Zenon DEF emplace_back, TypeOK, Started, Place
<1>3. CASE get_pkt(reader[r].pos) = NoPkt
  <2>6. PICK pos \in Int, cnt \in Nat : pos = reader[r].pos + 1 /\ cnt = reader[r].cnt + 1
    BY <1>2 DEF ReaderState
  <2>1. PICK st : st = [reader[r] EXCEPT !.pc = "fetch", !.pos = pos, !.cnt = cnt, !.null = TRUE]
    BY Zenon
  <2>2. /\ st \in ReaderState /\ st.pc = "fetch" /\ st.pos = pos
        /\ st.cur = reader[r].cur
        /\ st.hdr = reader[r].hdr /\ st.last = reader[r].last
        /\ st.first = reader[r].first /\ st.ordered = reader[r].ordered
        /\ st.match = reader[r].match /\ st.lapped = reader[r].lapped
        /\ st.skipped = reader[r].skipped
    BY <1>2, <2>1, Zenon DEF ReaderState
  <2>3. Becomes(r, st)
    BY <1>3, <2>1, <2>6, Zenon DEF emplace_back
  <2>4. Moves(r) /\ reader'[r] = st
    BY <1>1, <1>2, <2>2, <2>3, BecomesMoves, Zenon
  <2>5. SameTale(r)
    BY <2>2, <2>4, Zenon DEF SameTale
  <2> QED BY <1>2, <1>3, <2>6, <2>2, <2>4, <2>5, SkipKeeps, Zenon
<1>4. CASE get_pkt(reader[r].pos) # NoPkt
  <2>1. PICK pkt : pkt = get_pkt(reader[r].pos) /\ pkt # NoPkt
    BY <1>4, Zenon
  <2>2. PICK p \in Int : p = reader[r].pos
    BY <1>2, Zenon DEF ReaderState
  <2>3. pkt \in Packet
    BY <1>1, <2>1, <2>2, SlotType, Zenon DEF get_pkt, TypeOK
  <2>4. PICK s \in ReaderState : s = reader[r]
    BY <1>2, Zenon
  <2>5. PICK t : t = Given(s, pkt)
    BY Zenon
  <2>6. PICK st : st = [t EXCEPT !.pc = "fetch"]
    BY Zenon
  <2>7. t \in ReaderState
    BY <2>3, <2>5, GivenIs, Zenon
  <2>8. /\ st \in ReaderState /\ st.pc = "fetch"
        /\ st.pos = t.pos /\ st.cur = t.cur /\ st.last = t.last /\ st.ordered = t.ordered
        /\ st.hdr = t.hdr /\ st.match = t.match /\ st.first = t.first
        /\ st.skipped = t.skipped /\ st.lapped = t.lapped
    BY <2>6, <2>7, Zenon DEF ReaderState
  <2>9. Becomes(r, st)
    BY <1>4, <2>1, <2>4, <2>5, <2>6, Zenon DEF emplace_back
  <2>10. Moves(r) /\ reader'[r] = st
    BY <1>1, <1>2, <2>8, <2>9, BecomesMoves, Zenon
  <2>11. Takes(r, pkt)
    BY <2>3, <2>4, <2>5, <2>8, <2>10, GivenTakes, Zenon
  <2> QED BY <1>2, <2>1, <2>10, <2>11, TakeKeeps, Zenon
<1> QED BY <1>3, <1>4, Zenon

LEMMA FlvFetchSlotKeeps ==
    ASSUME GopInv, NEW r \in Readers, flv_fetch_slot(r) PROVE GopInv'
<1>1. TypeOK /\ Place(r) /\ RingInv
  BY Zenon DEF GopInv, SinkInv
<1>2. /\ reader[r] \in ReaderState /\ UNCHANGED srcVars /\ reader[r].pc = "fetch"
      /\ Started(r) /\ reader[r].pos <= latest_frame_index_
  BY <1>1, Zenon DEF flv_fetch_slot, TypeOK, Started
<1>3. CASE Becomes(r, [reader[r] EXCEPT !.pc = "idle", !.cur = reader[r].pos])
  <2>1. PICK st : st = [reader[r] EXCEPT !.pc = "idle", !.cur = reader[r].pos]
    BY Zenon
  <2>2. /\ st \in ReaderState /\ st.pc = "idle" /\ st.pos = reader[r].pos /\ st.cur = reader[r].pos
        /\ st.hdr = reader[r].hdr /\ st.last = reader[r].last
        /\ st.first = reader[r].first /\ st.ordered = reader[r].ordered
        /\ st.match = reader[r].match /\ st.lapped = reader[r].lapped
        /\ st.skipped = reader[r].skipped
    BY <1>2, <2>1, Zenon DEF ReaderState
  <2>3. Moves(r) /\ reader'[r] = st
    BY <1>1, <1>2, <1>3, <2>1, <2>2, BecomesMoves, Zenon
  <2>4. SameTale(r)
    BY <2>2, <2>3, Zenon DEF SameTale
  <2> QED BY <1>2, <2>2, <2>3, <2>4, StayKeeps, Zenon
<1>4. CASE /\ get_pkt(reader[r].pos) # NoPkt
           /\ Becomes(r, Given(reader[r], get_pkt(reader[r].pos)))
  <2>1. PICK pkt : pkt = get_pkt(reader[r].pos) /\ pkt # NoPkt
    BY <1>4, Zenon
  <2>2. PICK p \in Int : p = reader[r].pos
    BY <1>2, Zenon DEF ReaderState
  <2>3. pkt \in Packet
    BY <1>1, <2>1, <2>2, SlotType DEF get_pkt, TypeOK
  <2>4. PICK s \in ReaderState : s = reader[r]
    BY <1>2, Zenon
  <2>5. PICK t : t = Given(s, pkt)
    OBVIOUS
  <2>6. t \in ReaderState /\ t.pc = s.pc
    BY <2>3, <2>5, GivenIs, Zenon DEF IsGiven
  <2>7. Becomes(r, t)
    BY <1>4, <2>1, <2>4, <2>5, Zenon
  <2>8. Moves(r) /\ reader'[r] = t
    BY <1>1, <1>2, <2>6, <2>7, BecomesMoves, Zenon
  <2>9. t.pc = "fetch"
    BY <1>2, <2>4, <2>6, Zenon
  <2>10. Takes(r, pkt)
    BY <2>3, <2>4, <2>5, <2>8, <2>9, GivenTakes, Zenon
  <2> QED BY <1>2, <2>1, <2>8, <2>10, TakeKeeps, Zenon
<1> QED BY <1>3, <1>4, Zenon DEF flv_fetch_slot

LEMMA GetPktsReturnKeeps ==
    ASSUME GopInv, NEW r \in Readers, get_pkts_return(r) PROVE GopInv'
<1>1. TypeOK
  BY DEF GopInv
<1>2. /\ reader[r] \in ReaderState /\ UNCHANGED srcVars /\ Started(r)
      /\ Becomes(r, [reader[r] EXCEPT !.pc = "idle", !.cur = reader[r].pos])
  BY <1>1, Zenon DEF get_pkts_return, TypeOK, Started
<1>3. PICK st : st = [reader[r] EXCEPT !.pc = "idle", !.cur = reader[r].pos]
  OBVIOUS
<1>4. /\ st \in ReaderState /\ st.pc = "idle" /\ st.pos = reader[r].pos /\ st.cur = reader[r].pos
      /\ st.hdr = reader[r].hdr /\ st.last = reader[r].last
      /\ st.first = reader[r].first /\ st.ordered = reader[r].ordered
      /\ st.match = reader[r].match /\ st.lapped = reader[r].lapped
      /\ st.skipped = reader[r].skipped
  BY <1>2, <1>3, Zenon DEF ReaderState
<1>5. Moves(r) /\ reader'[r] = st
  BY <1>1, <1>2, <1>3, <1>4, BecomesMoves, Zenon
<1>6. SameTale(r)
  BY <1>4, <1>5 DEF SameTale
<1> QED BY <1>2, <1>4, <1>5, <1>6, StayKeeps, Zenon

\* A sink's step keeps the invariant.
LEMMA SinkKeeps ==
    ASSUME GopInv, NEW r \in Readers, ReaderStep(r) PROVE GopInv'
  BY GetPktsKeeps, PickStartKeeps, FetchSlotKeeps, EmplaceBackKeeps, FlvFetchSlotKeeps,
     GetPktsReturnKeeps, Zenon DEF ReaderStep
=============================================================================
