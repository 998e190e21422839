----------------------------- MODULE GopProofs -----------------------------
(***************************************************************************)
(* Theorems about the packet cache, for every size of the ring, every      *)
(* number of sinks, every batch, and every sequence of packets.            *)
(***************************************************************************)
EXTENDS GopSinkProofs

-----------------------------------------------------------------------------
(* Clearing the ring.                                                      *)

\* clear() stops at the first empty slot and empties the whole ring all the same.
LEMMA ClearEmpties ==
    ASSUME TypeOK, RingIsSuffix
    PROVE  clear = [s \in Slots |-> NoPkt]
<1> DEFINE Back(d) == latest_frame_index_ - d
           Run == {d \in 0..(max_size_ - 1) : \A e \in 0..d : get_pkt(Back(e)) # NoPkt}
<1>1. ASSUME NEW s \in Slots, pkt_buf_[s] # NoPkt
      PROVE  \E d \in Run : s = Slot(Back(d))
  <2> DEFINE i == pkt_buf_[s].i
             d == latest_frame_index_ - i
  <2>1. /\ i \in Nat /\ latest_frame_index_ \in Nat
        /\ Slot(i) = s /\ i <= latest_frame_index_ /\ latest_frame_index_ < i + max_size_
        /\ \A j \in i..latest_frame_index_ : get_pkt(j) # NoPkt
    BY <1>1, Zenon DEF RingIsSuffix, TypeOK, Packet
  <2>2. d \in 0..(max_size_ - 1) /\ Back(d) = i
    BY <2>1, SizeIsPositive
  <2>3. ASSUME NEW e \in 0..d PROVE get_pkt(Back(e)) # NoPkt
    <3>1. Back(e) \in i..latest_frame_index_
      BY <2>1
    <3> QED BY <3>1, <2>1, Zenon
  <2> QED BY <2>1, <2>2, <2>3, Zenon
<1> QED BY <1>1, Zenon DEF clear

-----------------------------------------------------------------------------
(* What a packet's arrival does, to the ring and to the sinks.             *)

Laps(r) == Started(r) /\ reader[r].pos + max_size_ <= latest_frame_index_ + 1
Skips(r, kind) == kind = "aseq" /\ Called(r) /\ reader[r].hdr # gen

\* A sink sees nothing of it but the two histories.
Unmoved(r, kind) ==
    /\ reader'[r].source = reader[r].source /\ reader'[r].pc = reader[r].pc
    /\ reader'[r].cur = reader[r].cur /\ reader'[r].pos = reader[r].pos
    /\ reader'[r].hdr = reader[r].hdr /\ reader'[r].since = reader[r].since
    /\ reader'[r].last = reader[r].last /\ reader'[r].first = reader[r].first
    /\ reader'[r].ordered = reader[r].ordered /\ reader'[r].match = reader[r].match
    /\ reader'[r].lapped = (reader[r].lapped \/ Laps(r))
    /\ reader'[r].skipped = (reader[r].skipped \/ Skips(r, kind))

Arrives(n, kind, g, ts) ==
    /\ n \in Nat /\ n >= 1 /\ n = latest_frame_index_ + 1 /\ latest_frame_index_' = n
    /\ kind \in Kinds /\ g \in Nat /\ ts \in Nat
    /\ pkt_buf_' \in Ring /\ pkt_buf_'[Slot(n)] # NoPkt
    /\ pkt_buf_'[Slot(n)] = [i |-> n, kind |-> kind, gen |-> g, ts |-> ts]
    /\ reader' \in [Readers -> ReaderState]
    /\ \A r \in Readers : Unmoved(r, kind)

KeepsRest(n) == \A s \in Slots : s # Slot(n) => pkt_buf_'[s] = pkt_buf_[s]
ClearsRest(n) == \A s \in Slots : s # Slot(n) => pkt_buf_'[s] = NoPkt

LEMMA StoreSinks ==
    ASSUME TypeOK, NEW kind, History(kind)
    PROVE  /\ reader' \in [Readers -> ReaderState]
           /\ \A r \in Readers : Unmoved(r, kind)
<1>1. ASSUME NEW r \in Readers
      PROVE  reader'[r] \in ReaderState /\ Unmoved(r, kind)
  <2> DEFINE lap == reader[r].lapped \/ Laps(r)
             skip == reader[r].skipped \/ Skips(r, kind)
  <2>1. reader[r] \in ReaderState
    BY Zenon DEF TypeOK
  <2>2. reader'[r] = [reader[r] EXCEPT !.lapped = lap, !.skipped = skip]
    BY Zenon DEF History, Laps, Skips
  <2>3. lap \in BOOLEAN /\ skip \in BOOLEAN
    BY Zenon
  <2> HIDE DEF lap, skip
  <2>4. reader'[r] \in ReaderState
    BY <2>1, <2>2, <2>3, Zenon DEF ReaderState
  <2>5. reader'[r].lapped = lap /\ reader'[r].skipped = skip
    BY <2>1, <2>2, Zenon DEF ReaderState
  <2>6. /\ reader'[r].source = reader[r].source /\ reader'[r].pc = reader[r].pc
        /\ reader'[r].cur = reader[r].cur /\ reader'[r].pos = reader[r].pos
        /\ reader'[r].hdr = reader[r].hdr /\ reader'[r].since = reader[r].since
        /\ reader'[r].last = reader[r].last /\ reader'[r].first = reader[r].first
        /\ reader'[r].ordered = reader[r].ordered /\ reader'[r].match = reader[r].match
    BY <2>1, <2>2, Zenon DEF ReaderState
  <2> QED BY <2>4, <2>5, <2>6, Zenon DEF Unmoved, lap, skip
<1>2. reader' = [r \in Readers |-> reader'[r]]
  BY Zenon DEF History
<1> QED BY <1>1, <1>2, Zenon

LEMMA StoreArrives ==
    ASSUME TypeOK, NEW buf \in Ring, NEW n, NEW kind \in Kinds, NEW g \in Nat, NEW ts \in Nat,
           n = latest_frame_index_ + 1, latest_frame_index_' = n,
           pkt_buf_' = add_pkt(buf, [i |-> n, kind |-> kind, gen |-> g, ts |-> ts]),
           reader' \in [Readers -> ReaderState], \A r \in Readers : Unmoved(r, kind)
    PROVE  /\ Arrives(n, kind, g, ts)
           /\ \A s \in Slots : s # Slot(n) => pkt_buf_'[s] = buf[s]
<1>1. latest_frame_index_ \in Nat
  BY Zenon DEF TypeOK
<1> DEFINE pkt == [i |-> n, kind |-> kind, gen |-> g, ts |-> ts]
<1>3. n \in Nat /\ n >= 1 /\ Slot(n) \in Slots
  BY <1>1, SlotType
<1>4. pkt \in Packet /\ pkt # NoPkt
  BY <1>3, NoPktAssumption DEF Packet
<1>5. pkt_buf_' = [buf EXCEPT ![Slot(n)] = pkt]
  BY Zenon DEF add_pkt
<1> HIDE DEF pkt
<1>6. pkt_buf_' \in Ring /\ pkt_buf_'[Slot(n)] = pkt
      /\ \A s \in Slots : s # Slot(n) => pkt_buf_'[s] = buf[s]
  BY <1>3, <1>4, <1>5, Zenon DEF Ring
<1> QED BY <1>3, <1>4, <1>6, Zenon DEF Arrives, pkt

LEMMA VideoHeaderArrives ==
    ASSUME TypeOK, RingIsSuffix, on_video_header
    PROVE  \E n, g, ts \in Nat :
              /\ Arrives(n, "vseq", g, ts) /\ ClearsRest(n)
              /\ g = gen + 1 /\ ts = StreamTime
<1>1. PICK n \in Nat : n = latest_frame_index_ + 1
  BY DEF TypeOK
<1>2. PICK g \in Nat : g = gen + 1
  BY DEF TypeOK
<1>3. PICK ts \in Nat : ts = StreamTime
  BY StreamTimeIs, Zenon
<1> DEFINE buf == [s \in Slots |-> NoPkt]
<1>4. buf \in Ring /\ "vseq" \in Kinds
  BY Zenon DEF Ring, Kinds
<1>5. pkt_buf_' = add_pkt(buf, [i |-> n, kind |-> "vseq", gen |-> g, ts |-> ts])
  BY <1>1, <1>2, <1>3, ClearEmpties, Zenon DEF on_video_header, Store
<1>6. latest_frame_index_' = n
  BY <1>1, Zenon DEF on_video_header, Store
<1>7. reader' \in [Readers -> ReaderState] /\ \A r \in Readers : Unmoved(r, "vseq")
  BY StoreSinks, Zenon DEF on_video_header, Store
<1>8. \A s \in Slots : buf[s] = NoPkt
  BY Zenon
<1> HIDE DEF buf
<1>9. Arrives(n, "vseq", g, ts) /\ \A s \in Slots : s # Slot(n) => pkt_buf_'[s] = buf[s]
  BY <1>1, <1>4, <1>5, <1>6, <1>7, StoreArrives, Zenon
<1> QED BY <1>2, <1>3, <1>8, <1>9, Zenon DEF ClearsRest

LEMMA AudioHeaderArrives ==
    ASSUME TypeOK, RingIsSuffix, on_audio_header
    PROVE  \E n, g, ts \in Nat :
              /\ Arrives(n, "aseq", g, ts) /\ ClearsRest(n)
              /\ g = gen /\ ts = StreamTime
<1>1. PICK n \in Nat : n = latest_frame_index_ + 1
  BY DEF TypeOK
<1>2. PICK g \in Nat : g = gen
  BY Zenon DEF TypeOK
<1>3. PICK ts \in Nat : ts = StreamTime
  BY StreamTimeIs
<1> DEFINE buf == [s \in Slots |-> NoPkt]
<1>4. buf \in Ring /\ "aseq" \in Kinds
  BY Zenon DEF Ring, Kinds
<1>5. pkt_buf_' = add_pkt(buf, [i |-> n, kind |-> "aseq", gen |-> g, ts |-> ts])
  BY <1>1, <1>2, <1>3, ClearEmpties, Zenon DEF on_audio_header, Store
<1>6. latest_frame_index_' = n
  BY <1>1, Zenon DEF on_audio_header, Store
<1>7. reader' \in [Readers -> ReaderState] /\ \A r \in Readers : Unmoved(r, "aseq")
  BY StoreSinks, Zenon DEF on_audio_header, Store
<1>8. \A s \in Slots : buf[s] = NoPkt
  OBVIOUS
<1> HIDE DEF buf
<1>9. Arrives(n, "aseq", g, ts) /\ \A s \in Slots : s # Slot(n) => pkt_buf_'[s] = buf[s]
  BY <1>1, <1>4, <1>5, <1>6, <1>7, StoreArrives, Zenon
<1> QED BY <1>2, <1>3, <1>8, <1>9, Zenon DEF ClearsRest

LEMMA VideoFrameArrives ==
    ASSUME TypeOK, on_video_frame
    PROVE  \E n, g, ts \in Nat, kind \in Frames :
              /\ Arrives(n, kind, g, ts) /\ KeepsRest(n)
              /\ g = gen /\ gen > 0 /\ ts >= StreamTime /\ CallsAreShort(ts)
              /\ kind = "inter" => GopIsWhole
              /\ kind = "orphan" => cutMidGop
              /\ keyframe_indexes_' = IF kind = "key" THEN push_back(n) ELSE keyframe_indexes_
              /\ keyed' = TRUE /\ cutMidGop' = (cutMidGop /\ kind # "key")
              /\ latest_video_timestamp_' = ts
<1>1. PICK n \in Nat : n = latest_frame_index_ + 1
  BY DEF TypeOK
<1>2. PICK g \in Nat : g = gen
  BY Zenon DEF TypeOK
<1>3. PICK sent \in {"key", "inter"}, d \in {0, 1} :
        /\ gen > 0 /\ (sent = "inter" => keyed)
        /\ CallsAreShort(StreamTime + d)
        /\ Store(pkt_buf_, IF sent = "inter" /\ cutMidGop THEN "orphan" ELSE sent, gen, StreamTime + d)
        /\ keyframe_indexes_' =
              IF sent = "key" THEN push_back(latest_frame_index_ + 1) ELSE keyframe_indexes_
        /\ keyed' = TRUE /\ cutMidGop' = (cutMidGop /\ sent = "inter")
        /\ latest_video_timestamp_' = StreamTime + d
  BY Zenon DEF on_video_frame
<1>4. PICK ts \in Nat : ts = StreamTime + d /\ ts >= StreamTime
  BY StreamTimeIs
<1>5. PICK kind \in Frames : kind = (IF sent = "inter" /\ cutMidGop THEN "orphan" ELSE sent)
  BY Zenon DEF Frames
<1>6. pkt_buf_ \in Ring /\ kind \in Kinds
  BY Zenon DEF TypeOK, Ring, Kinds
<1>7. pkt_buf_' = add_pkt(pkt_buf_, [i |-> n, kind |-> kind, gen |-> g, ts |-> ts])
  BY <1>1, <1>2, <1>3, <1>4, <1>5, Zenon DEF Store
<1>8. latest_frame_index_' = n
  BY <1>1, <1>3, Zenon DEF Store
<1>9. reader' \in [Readers -> ReaderState] /\ \A r \in Readers : Unmoved(r, kind)
  BY <1>3, <1>5, StoreSinks, Zenon DEF Store
<1>10. Arrives(n, kind, g, ts) /\ KeepsRest(n)
  <2>1. PICK buf \in Ring : buf = pkt_buf_
    BY <1>6, Zenon
  <2> QED BY <1>1, <1>6, <1>7, <1>8, <1>9, <2>1, StoreArrives, Zenon DEF KeepsRest
<1>11. /\ kind = "key" <=> sent = "key"
       /\ kind = "inter" => GopIsWhole
       /\ kind = "orphan" => cutMidGop
  BY <1>3, <1>5, Zenon DEF GopIsWhole
<1>12. /\ keyframe_indexes_' = IF kind = "key" THEN push_back(n) ELSE keyframe_indexes_
       /\ keyed' = TRUE /\ cutMidGop' = (cutMidGop /\ kind # "key")
       /\ latest_video_timestamp_' = ts
       /\ gen > 0 /\ CallsAreShort(ts)
  BY <1>1, <1>3, <1>4, <1>11, Zenon
<1> QED BY <1>2, <1>4, <1>10, <1>11, <1>12, Zenon

LEMMA AudioFrameArrives ==
    ASSUME TypeOK, on_audio_frame
    PROVE  \E n, g, ts \in Nat :
              /\ Arrives(n, "audio", g, ts) /\ KeepsRest(n)
              /\ g = gen /\ ts >= StreamTime /\ CallsAreShort(ts)
              /\ latest_audio_timestamp_' = ts
<1>1. PICK n \in Nat : n = latest_frame_index_ + 1
  BY DEF TypeOK
<1>2. PICK g \in Nat : g = gen
  BY DEF TypeOK
<1>3. PICK d \in {0, 1} : /\ CallsAreShort(StreamTime + d)
                          /\ Store(pkt_buf_, "audio", gen, StreamTime + d)
                          /\ latest_audio_timestamp_' = StreamTime + d
  BY Zenon DEF on_audio_frame
<1>4. PICK ts \in Nat : ts = StreamTime + d /\ ts >= StreamTime
  BY StreamTimeIs
<1>5. pkt_buf_ \in Ring /\ "audio" \in Kinds
  BY Zenon DEF TypeOK, Ring, Kinds
<1>6. pkt_buf_' = add_pkt(pkt_buf_, [i |-> n, kind |-> "audio", gen |-> g, ts |-> ts])
  BY <1>1, <1>2, <1>3, <1>4, Zenon DEF Store
<1>7. latest_frame_index_' = n
  BY <1>1, <1>3, Zenon DEF Store
<1>8. reader' \in [Readers -> ReaderState] /\ \A r \in Readers : Unmoved(r, "audio")
  BY <1>3, StoreSinks, Zenon DEF Store
<1>9. Arrives(n, "audio", g, ts) /\ KeepsRest(n)
  <2>1. PICK buf \in Ring : buf = pkt_buf_
    BY <1>5, Zenon
  <2> QED BY <1>1, <1>5, <1>6, <1>7, <1>8, <2>1, StoreArrives, Zenon DEF KeepsRest
<1> QED BY <1>2, <1>3, <1>4, <1>9, Zenon

-----------------------------------------------------------------------------
(* The invariant of the ring.                                              *)

\* A frame overwrites the one packet that a whole turn makes too old.
LEMMA RingStays ==
    ASSUME NEW n, NEW kind, NEW g, NEW ts, Arrives(n, kind, g, ts), KeepsRest(n),
           NEW j \in Int, j < n, n < j + max_size_
    PROVE  get_pkt(j)' = get_pkt(j)
<1>1. Slot(j) \in Slots
  BY SlotType, Zenon
<1>2. n \in Int
  BY DEF Arrives
<1>3. Slot(j) # Slot(n)
  BY <1>2, SlotInjective
<1> QED BY <1>1, <1>3, Zenon DEF KeepsRest, get_pkt

LEMMA NewestIsNew ==
    ASSUME NEW n, NEW kind, NEW g, NEW ts, Arrives(n, kind, g, ts)
    PROVE  /\ n \in Nat /\ latest_frame_index_' = n
           /\ get_pkt(n)' = [i |-> n, kind |-> kind, gen |-> g, ts |-> ts]
           /\ get_pkt(n)' # NoPkt /\ InRing(n)'
           /\ get_pkt(n)'.kind = kind /\ get_pkt(n)'.ts = ts
  BY DEF Arrives, get_pkt, InRing

\* After a sequence header the ring holds nothing else.
LEMMA OnlyNewest ==
    ASSUME NEW n, NEW kind, NEW g, NEW ts, Arrives(n, kind, g, ts), ClearsRest(n),
           NEW j \in Int, InRing(j)'
    PROVE  j = n
<1>1. Slot(j) \in Slots
  BY SlotType, Zenon
<1>2. Slot(j) = Slot(n)
  BY <1>1, Zenon DEF ClearsRest, InRing, get_pkt
<1> QED BY <1>2 DEF Arrives, InRing, get_pkt

LEMMA SuffixAfterFrame ==
    ASSUME TypeOK, RingIsSuffix, NEW n, NEW kind, NEW g, NEW ts,
           Arrives(n, kind, g, ts), KeepsRest(n)
    PROVE  RingIsSuffix'
<1> SUFFICES ASSUME NEW s \in Slots, pkt_buf_'[s] # NoPkt
             PROVE  LET i == pkt_buf_'[s].i
                    IN  /\ Slot(i) = s
                        /\ i <= latest_frame_index_' /\ latest_frame_index_' < i + max_size_
                        /\ \A j \in i..latest_frame_index_' : InRing(j)'
  BY Zenon DEF RingIsSuffix, InRing
<1> USE SizeIsPositive
<1>1. /\ n \in Nat /\ latest_frame_index_' = n /\ latest_frame_index_ \in Nat
      /\ latest_frame_index_ = n - 1
  BY DEF Arrives, TypeOK
<1>2. CASE s = Slot(n)
  <2>1. pkt_buf_'[s].i = n
    BY <1>2 DEF Arrives
  <2> QED BY <1>1, <1>2, <2>1, NewestIsNew
<1>3. CASE s # Slot(n)
  <2> DEFINE i == pkt_buf_[s].i
  <2>1. pkt_buf_'[s] = pkt_buf_[s]
    BY <1>3, Zenon DEF KeepsRest
  <2>2. /\ i \in Nat /\ Slot(i) = s /\ i <= n - 1 /\ n - 1 < i + max_size_
        /\ \A j \in i..(n - 1) : InRing(j)
    BY <1>1, <2>1, Zenon DEF RingIsSuffix, TypeOK, Packet, InRing
  <2> HIDE DEF i
  <2>3. n # i + max_size_
    BY <1>1, <1>3, <2>2, SlotWraps
  <2>4. ASSUME NEW j \in i..n PROVE InRing(j)'
    <3>1. CASE j = n
      BY <3>1, NewestIsNew, Zenon
    <3>2. CASE j # n
      <4>1. j \in Int /\ j < n /\ n < j + max_size_ /\ InRing(j)
        BY <1>1, <2>2, <2>3, <3>2
      <4>2. get_pkt(j)' = get_pkt(j)
        BY <4>1, RingStays, Zenon
      <4> QED BY <4>1, <4>2, Zenon DEF InRing
    <3> QED BY <3>1, <3>2, Zenon
  <2> QED BY <1>1, <2>1, <2>2, <2>3, <2>4 DEF i
<1> QED BY <1>2, <1>3, Zenon

LEMMA RingAfterFrame ==
    ASSUME TypeOK, RingInv, NEW n, NEW kind, NEW g, NEW ts,
           Arrives(n, kind, g, ts), KeepsRest(n),
           g = gen, gen' = gen, kind # "vseq", kind \in Frames => gen > 0
    PROVE  RingInv'
<1>1. RingIsSuffix'
  BY SuffixAfterFrame, Zenon DEF RingInv
<1>2. ASSUME NEW s \in Slots, pkt_buf_'[s] # NoPkt
      PROVE  /\ pkt_buf_'[s].i >= 1
             /\ pkt_buf_'[s].gen = gen'
             /\ pkt_buf_'[s].kind \in Frames => gen' > 0
  <2>1. CASE s = Slot(n)
    BY <2>1 DEF Arrives
  <2>2. CASE s # Slot(n)
    <3>1. pkt_buf_'[s] = pkt_buf_[s]
      BY <2>2, Zenon DEF KeepsRest
    <3> QED BY <1>2, <3>1, Zenon DEF RingInv
  <2> QED BY <2>1, <2>2, Zenon
<1>3. ASSUME NEW j \in 1..n, NEW k \in 1..n, Holds(j, {"vseq"})', InRing(k)'
      PROVE  j <= k
  <2>1. /\ n \in Nat /\ latest_frame_index_' = n /\ latest_frame_index_ \in Nat
        /\ latest_frame_index_ = n - 1
    BY DEF Arrives, TypeOK
  <2>2. CASE k = n
    BY <2>1, <2>2
  <2>3. j # n
    BY <1>3, NewestIsNew, Zenon DEF Holds
  <2>4. CASE k # n
    <3>1. /\ j \in 1..latest_frame_index_ /\ k \in 1..latest_frame_index_
          /\ j \in Int /\ k \in Int /\ j < n /\ k < n
      BY <2>1, <2>3, <2>4
    <3>2. n < j + max_size_ /\ n < k + max_size_
      BY <1>1, <1>3, <2>1, SlotType DEF RingIsSuffix, Holds, InRing, get_pkt
    <3>3. get_pkt(j)' = get_pkt(j) /\ get_pkt(k)' = get_pkt(k)
      BY <3>1, <3>2, RingStays, Zenon
    <3>4. Holds(j, {"vseq"}) /\ InRing(k)
      BY <1>3, <3>3, Zenon DEF Holds, InRing
    <3> QED BY <3>1, <3>4, Zenon DEF RingInv
  <2> QED BY <2>2, <2>4, Zenon
<1>4. latest_frame_index_' = n
  BY Zenon DEF Arrives
<1> QED BY <1>1, <1>2, <1>3, <1>4, Zenon DEF RingInv

LEMMA RingAfterHeader ==
    ASSUME TypeOK, NEW n, NEW kind, NEW g, NEW ts,
           Arrives(n, kind, g, ts), ClearsRest(n), gen' = g, kind \notin Frames
    PROVE  RingInv'
<1>1. ASSUME NEW s \in Slots, pkt_buf_'[s] # NoPkt PROVE s = Slot(n) /\ pkt_buf_'[s].i = n
  BY <1>1 DEF ClearsRest, Arrives
<1>2. n \in Nat /\ n >= 1 /\ latest_frame_index_' = n /\ InRing(n)'
  BY NewestIsNew, Zenon DEF Arrives
<1>3. RingIsSuffix'
  <2> SUFFICES ASSUME NEW s \in Slots, pkt_buf_'[s] # NoPkt
               PROVE  LET i == pkt_buf_'[s].i
                      IN  /\ Slot(i) = s
                          /\ i <= latest_frame_index_' /\ latest_frame_index_' < i + max_size_
                          /\ \A j \in i..latest_frame_index_' : InRing(j)'
    BY Zenon DEF RingIsSuffix, InRing
  <2>1. s = Slot(n) /\ pkt_buf_'[s].i = n
    BY <1>1, Zenon
  <2> QED BY <2>1, <1>2, SizeIsPositive
<1>4. ASSUME NEW s \in Slots, pkt_buf_'[s] # NoPkt
      PROVE  /\ pkt_buf_'[s].i >= 1 /\ pkt_buf_'[s].gen = gen'
             /\ pkt_buf_'[s].kind \in Frames => gen' > 0
  BY <1>1, <1>2, <1>4 DEF Arrives
<1>5. ASSUME NEW j \in 1..n, NEW k \in 1..n, Holds(j, {"vseq"})', InRing(k)' PROVE j <= k
  BY <1>2, <1>5, OnlyNewest DEF Holds
<1> QED BY <1>2, <1>3, <1>4, <1>5, Zenon DEF RingInv

-----------------------------------------------------------------------------
(* The publisher's steps: types, flags and key frames.                     *)

\* A key frame goes to the end of the list, which may lose its first element.
LEMMA PushBack ==
    ASSUME TypeOK, NEW n \in Nat
    PROVE  /\ push_back(n) \in Seq(Nat) /\ Len(push_back(n)) <= MaxKeyframes
           /\ Len(push_back(n)) \in DOMAIN push_back(n)
           /\ push_back(n)[Len(push_back(n))] = n
           /\ \E c \in {0, 1} : \A a \in DOMAIN push_back(n) :
                 a # Len(push_back(n)) =>
                    /\ a + c \in DOMAIN keyframe_indexes_
                    /\ push_back(n)[a] = keyframe_indexes_[a + c]
<1> DEFINE l == Len(keyframe_indexes_)
<1>1. keyframe_indexes_ \in Seq(Nat) /\ l \in Nat /\ l <= MaxKeyframes /\ MaxKeyframes \in Nat \ {0}
  BY GopAssumption DEF TypeOK
<1>2. CASE l = MaxKeyframes
  <2>1. push_back(n) = Append(Tail(keyframe_indexes_), n)
    BY <1>2, Zenon DEF push_back
  <2>2. /\ push_back(n) \in Seq(Nat) /\ Len(push_back(n)) = l
        /\ push_back(n)[l] = n
        /\ \A a \in 1..(l - 1) : push_back(n)[a] = keyframe_indexes_[a + 1]
    BY <1>1, <1>2, <2>1
  <2>3. \A a \in DOMAIN push_back(n) : a # Len(push_back(n)) =>
          /\ a + 1 \in DOMAIN keyframe_indexes_
          /\ push_back(n)[a] = keyframe_indexes_[a + 1]
    BY <1>1, <2>2
  <2> QED BY <1>1, <1>2, <2>2, <2>3
<1>3. CASE l # MaxKeyframes
  <2>1. push_back(n) = Append(keyframe_indexes_, n)
    BY <1>3, Zenon DEF push_back
  <2>2. /\ push_back(n) \in Seq(Nat) /\ Len(push_back(n)) = l + 1
        /\ push_back(n)[l + 1] = n
        /\ \A a \in 1..l : push_back(n)[a] = keyframe_indexes_[a]
    BY <1>1, <2>1
  <2>3. \A a \in DOMAIN push_back(n) : a # Len(push_back(n)) =>
          /\ a + 0 \in DOMAIN keyframe_indexes_
          /\ push_back(n)[a] = keyframe_indexes_[a + 0]
    BY <1>1, <2>2, SMTT(30)
  <2> QED BY <1>1, <1>3, <2>2, <2>3
<1> QED BY <1>2, <1>3, Zenon

LEMMA MetadataType == ASSUME TypeOK, on_metadata, UNCHANGED codec PROVE TypeOK'
  BY Zenon DEF TypeOK, on_metadata

LEMMA VideoHeaderType ==
    ASSUME TypeOK, RingIsSuffix, on_video_header, UNCHANGED codec PROVE TypeOK'
<1>1. PICK n, g, ts \in Nat : Arrives(n, "vseq", g, ts) /\ g = gen + 1
  BY VideoHeaderArrives, Zenon
<1>2. latest_frame_index_' \in Nat /\ pkt_buf_' \in [Slots -> Packet \cup {NoPkt}]
      /\ reader' \in [Readers -> ReaderState]
  BY <1>1, Zenon DEF Arrives, Ring
<1>3. stream_ready_' \in BOOLEAN
  BY Zenon DEF on_video_header, Store, TypeOK
<1>4. /\ UNCHANGED <<keyframe_indexes_, metadata_, heard, latest_video_timestamp_,
                     latest_audio_timestamp_, audio_ready_>>
      /\ gen' = gen + 1 /\ clears' = clears + 1
      /\ video_ready_' = TRUE /\ keyed' = FALSE /\ cutMidGop' = FALSE
  BY Zenon DEF on_video_header
<1>5. gen' \in Nat /\ clears' \in Nat
  BY <1>4 DEF TypeOK
<1> QED BY <1>2, <1>3, <1>4, <1>5, Zenon DEF TypeOK

LEMMA AudioHeaderType ==
    ASSUME TypeOK, RingIsSuffix, on_audio_header, UNCHANGED codec PROVE TypeOK'
<1>1. PICK n, g, ts \in Nat : Arrives(n, "aseq", g, ts)
  BY AudioHeaderArrives, Zenon
<1>2. latest_frame_index_' \in Nat /\ pkt_buf_' \in [Slots -> Packet \cup {NoPkt}]
      /\ reader' \in [Readers -> ReaderState]
  BY <1>1, Zenon DEF Arrives, Ring
<1>3. stream_ready_' \in BOOLEAN
  BY Zenon DEF on_audio_header, Store, TypeOK
<1> QED BY <1>2, <1>3 DEF TypeOK, on_audio_header

LEMMA VideoFrameType == ASSUME TypeOK, on_video_frame, UNCHANGED codec PROVE TypeOK'
<1>1. PICK n, g, ts \in Nat, kind \in Frames :
        /\ Arrives(n, kind, g, ts)
        /\ keyframe_indexes_' = IF kind = "key" THEN push_back(n) ELSE keyframe_indexes_
        /\ keyed' = TRUE /\ cutMidGop' = (cutMidGop /\ kind # "key")
        /\ latest_video_timestamp_' = ts
  BY VideoFrameArrives, Zenon
<1>2. latest_frame_index_' \in Nat /\ pkt_buf_' \in [Slots -> Packet \cup {NoPkt}]
      /\ reader' \in [Readers -> ReaderState]
  BY <1>1, Zenon DEF Arrives, Ring
<1>3. stream_ready_' \in BOOLEAN
  BY Zenon DEF on_video_frame, Store, TypeOK
<1>4. keyframe_indexes_' \in Seq(Nat) /\ Len(keyframe_indexes_') <= MaxKeyframes
  BY <1>1, PushBack, Zenon DEF TypeOK
<1>5. /\ UNCHANGED <<audio_ready_, video_ready_, metadata_, gen, heard, latest_audio_timestamp_, clears>>
      /\ keyed' \in BOOLEAN /\ cutMidGop' \in BOOLEAN
  BY <1>1, Zenon DEF on_video_frame
<1> QED BY <1>1, <1>2, <1>3, <1>4, <1>5, Zenon DEF TypeOK

LEMMA AudioFrameType == ASSUME TypeOK, on_audio_frame, UNCHANGED codec PROVE TypeOK'
<1>1. PICK n, g, ts \in Nat : Arrives(n, "audio", g, ts) /\ latest_audio_timestamp_' = ts
  BY AudioFrameArrives, Zenon
<1>2. latest_frame_index_' \in Nat /\ pkt_buf_' \in [Slots -> Packet \cup {NoPkt}]
      /\ reader' \in [Readers -> ReaderState]
  BY <1>1, Zenon DEF Arrives, Ring
<1>3. stream_ready_' \in BOOLEAN
  BY Zenon DEF on_audio_frame, Store, TypeOK
<1>4. /\ UNCHANGED <<keyframe_indexes_, metadata_, gen, keyed, clears, cutMidGop,
                     latest_video_timestamp_, video_ready_>>
      /\ heard' \in BOOLEAN /\ audio_ready_' \in BOOLEAN
  BY Zenon DEF on_audio_frame
<1> QED BY <1>1, <1>2, <1>3, <1>4, Zenon DEF TypeOK

\* The key frames stay in the list in their order.
KeysStay == keyframe_indexes_' = keyframe_indexes_
KeyJoins(n) == keyframe_indexes_' = push_back(n)

LEMMA SourceAfterArrival ==
    ASSUME TypeOK, SourceInv, NEW n, NEW kind, NEW g, NEW ts, Arrives(n, kind, g, ts),
           KeysStay \/ KeyJoins(n)
    PROVE  \A a \in DOMAIN keyframe_indexes_' :
              /\ keyframe_indexes_'[a] \in 1..latest_frame_index_'
              /\ \A b \in DOMAIN keyframe_indexes_' :
                    a <= b => keyframe_indexes_'[a] <= keyframe_indexes_'[b]
<1>1. /\ n \in Nat /\ n >= 1 /\ latest_frame_index_' = n /\ latest_frame_index_ = n - 1
  BY DEF Arrives, TypeOK
<1> DEFINE old == keyframe_indexes_
           new == push_back(n)
<1>2. \A a \in DOMAIN old : /\ old[a] \in 1..(n - 1)
                            /\ \A b \in DOMAIN old : a <= b => old[a] <= old[b]
  BY <1>1, Zenon DEF SourceInv
<1>3. CASE KeysStay
  BY <1>1, <1>2, <1>3 DEF KeysStay
<1>4. CASE KeyJoins(n)
  <2>1. PICK c \in {0, 1} : \A a \in DOMAIN new :
          a # Len(new) => a + c \in DOMAIN old /\ new[a] = old[a + c]
    BY <1>1, PushBack, Zenon
  <2>2. new \in Seq(Nat) /\ new[Len(new)] = n
    BY <1>1, PushBack, Zenon
  <2>3. keyframe_indexes_' = new
    BY <1>4, Zenon DEF KeyJoins
  <2> HIDE DEF old, new
  <2>4. ASSUME NEW a \in DOMAIN new PROVE new[a] \in 1..n
    BY <1>1, <1>2, <2>1, <2>2
  <2>5. ASSUME NEW a \in DOMAIN new, NEW b \in DOMAIN new, a <= b PROVE new[a] <= new[b]
    <3>1. CASE b = Len(new)
      BY <1>1, <2>2, <2>4, <3>1
    <3>2. CASE b # Len(new)
      <4>1. a \in Int /\ b \in Int /\ a # Len(new)
        BY <2>2, <2>5, <3>2
      <4>2. /\ a + c \in DOMAIN old /\ new[a] = old[a + c]
            /\ b + c \in DOMAIN old /\ new[b] = old[b + c]
            /\ a + c <= b + c
        BY <2>1, <2>5, <3>2, <4>1
      <4> QED BY <1>2, <4>2, Zenon
    <3> QED BY <3>1, <3>2, Zenon
  <2> QED BY <1>1, <2>3, <2>4, <2>5, Zenon
<1> QED BY <1>3, <1>4, Zenon

LEMMA MetadataSource ==
    ASSUME TypeOK, SourceInv, on_metadata PROVE SourceInv' /\ metadata_' # "none"
  BY GopAssumption DEF TypeOK, SourceInv, on_metadata

LEMMA VideoHeaderSource ==
    ASSUME TypeOK, SourceInv, RingIsSuffix, on_video_header PROVE SourceInv'
<1>1. PICK n, g, ts \in Nat : Arrives(n, "vseq", g, ts) /\ g = gen + 1
  BY VideoHeaderArrives, Zenon
<1>2. /\ KeysStay /\ metadata_' = metadata_ /\ metadata_ # "audio" /\ keyed' = FALSE
      /\ stream_ready_' = (stream_ready_ \/ Ready(audio_ready_', video_ready_'))
  BY Zenon DEF on_video_header, Store, KeysStay
<1>3. stream_ready_' => metadata_' # "none"
  BY <1>2, Zenon DEF Ready, SourceInv
<1> QED BY <1>1, <1>2, <1>3, SourceAfterArrival, Zenon DEF SourceInv

LEMMA AudioHeaderSource ==
    ASSUME TypeOK, SourceInv, RingIsSuffix, on_audio_header PROVE SourceInv'
<1>1. PICK n, g, ts \in Nat : Arrives(n, "aseq", g, ts)
  BY AudioHeaderArrives, Zenon
<1>2. /\ KeysStay /\ metadata_' = metadata_ /\ keyed' = keyed /\ gen' = gen
      /\ stream_ready_' = (stream_ready_ \/ Ready(audio_ready_', video_ready_'))
  BY Zenon DEF on_audio_header, Store, KeysStay
<1>3. stream_ready_' => metadata_' # "none"
  BY <1>2, Zenon DEF Ready, SourceInv
<1> QED BY <1>1, <1>2, <1>3, SourceAfterArrival, Zenon DEF SourceInv

LEMMA VideoFrameSource ==
    ASSUME TypeOK, SourceInv, on_video_frame PROVE SourceInv'
<1>1. PICK n, g, ts \in Nat, kind \in Frames :
        /\ Arrives(n, kind, g, ts) /\ gen > 0
        /\ keyframe_indexes_' = IF kind = "key" THEN push_back(n) ELSE keyframe_indexes_
  BY VideoFrameArrives, Zenon
<1>2. /\ metadata_' = metadata_ /\ gen' = gen
      /\ stream_ready_' = (stream_ready_ \/ Ready(audio_ready_', video_ready_'))
  BY Zenon DEF on_video_frame, Store
<1>3. stream_ready_' => metadata_' # "none"
  BY <1>2, Zenon DEF Ready, SourceInv
<1>4. KeysStay \/ KeyJoins(n)
  BY <1>1, Zenon DEF KeysStay, KeyJoins
<1> QED BY <1>1, <1>2, <1>3, <1>4, SourceAfterArrival DEF SourceInv

LEMMA AudioFrameSource ==
    ASSUME TypeOK, SourceInv, on_audio_frame PROVE SourceInv'
<1>1. PICK n, g, ts \in Nat : Arrives(n, "audio", g, ts)
  BY AudioFrameArrives, Zenon
<1>2. /\ KeysStay /\ metadata_' = metadata_ /\ keyed' = keyed /\ gen' = gen
      /\ stream_ready_' = (stream_ready_ \/ Ready(audio_ready_', video_ready_'))
  BY Zenon DEF on_audio_frame, Store, KeysStay
<1>3. stream_ready_' => metadata_' # "none"
  BY <1>2, Zenon DEF Ready, SourceInv
<1> QED BY <1>1, <1>2, <1>3, SourceAfterArrival, Zenon DEF SourceInv

-----------------------------------------------------------------------------
(* The publisher's steps: every GOP stays behind its key frame.            *)

LEMMA HoldsStays ==
    ASSUME NEW n, NEW kind, NEW g, NEW ts, Arrives(n, kind, g, ts), KeepsRest(n),
           NEW j \in Int, j < n, n < j + max_size_, NEW kinds
    PROVE  Holds(j, kinds)' <=> Holds(j, kinds)
  BY RingStays, Zenon DEF Holds, InRing

LEMMA CoveredAfterFrame ==
    ASSUME TypeOK, NEW n, NEW kind, NEW g, NEW ts, Arrives(n, kind, g, ts), KeepsRest(n),
           NEW p \in Int, n < p + max_size_, Covered(p),
           kind = "inter" => \E k \in p..(n - 1) : Holds(k, {"key", "orphan"})
    PROVE  Covered(p)'
<1>1. n \in Int /\ latest_frame_index_' = n /\ latest_frame_index_ = n - 1
  BY DEF Arrives, TypeOK
<1>2. ASSUME NEW k \in p..(n - 1), NEW kinds PROVE Holds(k, kinds)' <=> Holds(k, kinds)
  <2>1. k \in Int /\ k < n /\ n < k + max_size_
    BY <1>1, SizeIsPositive
  <2> QED BY <2>1, HoldsStays, Zenon
<1>3. ASSUME NEW j \in p..n, Holds(j, {"inter"})'
      PROVE  \E k \in p..(j - 1) : Holds(k, {"key", "orphan"})'
  <2>1. CASE j = n
    <3>1. kind = "inter"
      BY <1>3, <2>1, NewestIsNew, Zenon DEF Holds
    <3>2. PICK k \in p..(n - 1) : Holds(k, {"key", "orphan"})
      BY <3>1, Zenon
    <3> QED BY <1>2, <2>1, <3>2, Zenon
  <2>2. CASE j # n
    <3>1. j \in p..(n - 1)
      BY <1>1, <2>2
    <3>2. Holds(j, {"inter"})
      BY <1>2, <1>3, <3>1, Zenon
    <3>3. PICK k \in p..(j - 1) : Holds(k, {"key", "orphan"})
      BY <1>1, <3>1, <3>2, Zenon DEF Covered
    <3>4. k \in p..(n - 1)
      BY <1>1, <3>1
    <3> QED BY <1>2, <3>3, <3>4, Zenon
  <2> QED BY <2>1, <2>2, Zenon
<1> QED BY <1>1, <1>3, Zenon DEF Covered

LEMMA CoveredAfterOther ==
    ASSUME NEW n, NEW kind, NEW g, NEW ts, Arrives(n, kind, g, ts), kind # "inter",
           NEW p \in Int, p >= n \/ ClearsRest(n)
    PROVE  Covered(p)'
<1>1. n \in Int /\ latest_frame_index_' = n
  BY DEF Arrives
<1>2. ASSUME NEW j \in p..n, Holds(j, {"inter"})' PROVE FALSE
  <2>1. j = n
    BY <1>1, <1>2, OnlyNewest DEF Holds
  <2> QED BY <1>2, <2>1, NewestIsNew, Zenon DEF Holds
<1> QED BY <1>1, <1>2, Zenon DEF Covered

LEMMA KeyAfterHeader ==
    ASSUME TypeOK, SourceInv, KeyInv, NEW n, NEW kind, NEW g, NEW ts,
           Arrives(n, kind, g, ts), ClearsRest(n), kind # "inter", KeysStay, ~GopIsWhole'
    PROVE  KeyInv'
<1>1. ASSUME NEW a \in DOMAIN keyframe_indexes_ PROVE Covered(keyframe_indexes_[a])'
  <2>1. PICK p \in Int : p = keyframe_indexes_[a] /\ p = keyframe_indexes_'[a]
    BY DEF TypeOK, KeysStay
  <2>2. Covered(p)'
    BY CoveredAfterOther, Zenon
  <2> QED BY <2>1, <2>2, Zenon DEF Covered
<1>2. ASSUME NEW a \in DOMAIN keyframe_indexes_' PROVE (Covered(keyframe_indexes_[a]))'
  BY <1>1, Zenon DEF KeysStay
<1> QED BY <1>2, Zenon DEF KeyInv, KeysStay

\* A frame keeps the starts that are good, also for the sinks.
LEMMA StartAfterFrame ==
    ASSUME TypeOK, SourceInv, KeyInv, NEW n, NEW kind, NEW g, NEW ts,
           Arrives(n, kind, g, ts), KeepsRest(n), kind = "inter" => GopIsWhole,
           NEW p \in Int, n < p + max_size_, Covered(p), GopIsWhole => p <= LastKey
    PROVE  Covered(p)'
<1>1. n \in Int /\ latest_frame_index_ = n - 1 /\ latest_frame_index_ \in Nat
  BY DEF Arrives, TypeOK
<1>2. ASSUME kind = "inter" PROVE \E k \in p..(n - 1) : Holds(k, {"key", "orphan"})
  <2>1. LastKey \in 1..latest_frame_index_ /\ p <= LastKey
    BY <1>2, LastKeyHolds, Zenon
  <2>2. LastKey \in p..(n - 1) /\ LastKey + max_size_ > latest_frame_index_
    BY <1>1, <2>1, SizeIsPositive
  <2>3. Holds(LastKey, {"key"})
    BY <1>2, <2>2, LastKeyHolds, Zenon
  <2> QED BY <2>2, <2>3, Zenon DEF Holds
<1> QED BY <1>2, CoveredAfterFrame, Zenon

LEMMA LastKeyStays ==
    ASSUME TypeOK, SourceInv, KeyInv, GopIsWhole, NEW n, NEW kind, NEW g, NEW ts,
           Arrives(n, kind, g, ts), KeepsRest(n), KeysStay
    PROVE  /\ keyframe_indexes_' # <<>> /\ LastKey' = LastKey
           /\ LastKey' + max_size_ > latest_frame_index_' => Holds(LastKey, {"key"})'
<1>1. n \in Int /\ latest_frame_index_ = n - 1 /\ latest_frame_index_' = n /\ latest_frame_index_ \in Nat
  BY DEF Arrives, TypeOK
<1>2. PICK k \in Int : k = LastKey /\ k \in 1..latest_frame_index_
  BY LastKeyHolds
<1>3. LastKey' = k /\ keyframe_indexes_' # <<>>
  BY <1>2, Zenon DEF KeysStay, LastKey, KeyInv
<1>4. ASSUME k + max_size_ > n PROVE Holds(k, {"key"})'
  <2>1. k \in Int /\ k < n /\ n < k + max_size_ /\ LastKey + max_size_ > latest_frame_index_
    BY <1>1, <1>2, <1>4, SizeIsPositive
  <2>2. Holds(k, {"key"})
    BY <1>2, <2>1, LastKeyHolds, Zenon
  <2> QED BY <2>1, <2>2, HoldsStays, Zenon
<1>5. Holds(k, {"key"})' => Holds(LastKey, {"key"})'
  BY <1>3, Zenon DEF Holds, InRing, get_pkt
<1> QED BY <1>1, <1>2, <1>3, <1>4, <1>5, Zenon

LEMMA KeyAfterFrame ==
    ASSUME TypeOK, SourceInv, KeyInv, NEW n, NEW kind, NEW g, NEW ts,
           Arrives(n, kind, g, ts), KeepsRest(n), kind = "inter" => GopIsWhole,
           \/ KeysStay /\ (GopIsWhole' => GopIsWhole)
           \/ KeyJoins(n) /\ kind = "key"
    PROVE  KeyInv'
<1>1. n \in Nat /\ latest_frame_index_ = n - 1 /\ latest_frame_index_' = n
  BY DEF Arrives, TypeOK
<1>2. ASSUME NEW a \in DOMAIN keyframe_indexes_, NEW p \in Int, p = keyframe_indexes_[a],
             p + max_size_ > n
      PROVE  Covered(p)'
  <2>1. n < p + max_size_ /\ Covered(p)
    <3>1. keyframe_indexes_[a] + max_size_ > latest_frame_index_
      BY <1>1, <1>2, SizeIsPositive
    <3>2. Covered(keyframe_indexes_[a])
      BY <3>1, Zenon DEF KeyInv
    <3> QED BY <1>2, <1>1, <3>2, SizeIsPositive, Zenon
  <2>2. GopIsWhole => p <= LastKey
    BY <1>2, LastKeyHolds, Zenon
  <2> QED BY <2>1, <2>2, StartAfterFrame, Zenon
<1>3. ASSUME NEW a \in DOMAIN keyframe_indexes_', NEW p \in Int, p = keyframe_indexes_'[a],
             p + max_size_ > n
      PROVE  Covered(p)'
  <2>1. CASE KeysStay
    BY <1>2, <1>3, <2>1, Zenon DEF KeysStay
  <2>2. CASE KeyJoins(n) /\ kind = "key"
    <3>1. CASE a = Len(keyframe_indexes_')
      <4>1. p = n
        BY <1>1, <1>3, <2>2, <3>1, PushBack, Zenon DEF KeyJoins
      <4> QED BY <1>1, <2>2, <4>1, CoveredAfterOther
    <3>2. CASE a # Len(keyframe_indexes_')
      <4>1. PICK c \in {0, 1} : /\ a + c \in DOMAIN keyframe_indexes_
                                /\ keyframe_indexes_'[a] = keyframe_indexes_[a + c]
        BY <1>1, <1>3, <2>2, <3>2, PushBack, Zenon DEF KeyJoins
      <4> QED BY <1>2, <1>3, <4>1, Zenon
    <3> QED BY <3>1, <3>2, Zenon
  <2> QED BY <2>1, <2>2, Zenon
<1>4. ASSUME GopIsWhole'
      PROVE  /\ keyframe_indexes_' # <<>>
             /\ LastKey' + max_size_ > latest_frame_index_' => Holds(LastKey, {"key"})'
  <2>1. CASE KeysStay /\ GopIsWhole
    BY <2>1, LastKeyStays, Zenon
  <2>2. CASE KeyJoins(n) /\ kind = "key"
    <3>1. LastKey' = n /\ keyframe_indexes_' # <<>>
      BY <1>1, <2>2, PushBack DEF KeyJoins, LastKey
    <3>2. Holds(n, {"key"})'
      BY <2>2, NewestIsNew, Zenon DEF Holds
    <3> QED BY <3>1, <3>2, Zenon DEF Holds, InRing, get_pkt
  <2> QED BY <1>4, <2>1, <2>2, Zenon
<1>5. ASSUME NEW a \in DOMAIN keyframe_indexes_',
             keyframe_indexes_'[a] + max_size_ > latest_frame_index_'
      PROVE  (Covered(keyframe_indexes_[a]))'
  <2>1. PICK p \in Int : p = keyframe_indexes_'[a]
    <3>1. keyframe_indexes_' \in Seq(Nat)
      BY <1>1, PushBack, Zenon DEF TypeOK, KeysStay, KeyJoins
    <3> QED BY <3>1
  <2>2. Covered(p)'
    BY <1>1, <1>3, <1>5, <2>1, Zenon
  <2> QED BY <2>1, <2>2, Zenon DEF Covered
<1> QED BY <1>4, <1>5, Zenon DEF KeyInv

-----------------------------------------------------------------------------
(* The publisher's steps: the sinks.                                       *)

LEMMA PlaceAfterArrival ==
    ASSUME TypeOK, NEW n, NEW kind, NEW g, NEW ts, Arrives(n, kind, g, ts),
           metadata_' = metadata_, NEW r \in Readers, Place(r)
    PROVE  /\ Place(r)' /\ (Started(r)' <=> Started(r))
           /\ ~reader'[r].lapped => ~reader[r].lapped
           /\ ~reader'[r].lapped /\ Started(r) => n < reader[r].pos + max_size_
<1>1. /\ n \in Nat /\ latest_frame_index_ = n - 1 /\ latest_frame_index_' = n
  BY DEF Arrives, TypeOK
<1>2. Unmoved(r, kind)
  BY Zenon DEF Arrives
<1>3. reader[r].pos \in Int /\ reader[r].cur \in Int /\ reader[r].last \in Nat
  BY Zenon DEF TypeOK, ReaderState
<1>4. Started(r)' <=> Started(r)
  BY <1>2, Zenon DEF Started, Unmoved
<1>5. /\ ~reader'[r].lapped => ~reader[r].lapped
      /\ ~reader'[r].lapped /\ Started(r) => n < reader[r].pos + max_size_
  <2>1. ~reader'[r].lapped => ~reader[r].lapped /\ ~Laps(r)
    BY <1>2, Zenon DEF Unmoved
  <2>2. ~Laps(r) /\ Started(r) => n < reader[r].pos + max_size_
    BY <1>1, <1>3, SizeIsPositive DEF Laps
  <2> QED BY <2>1, <2>2, Zenon
<1>6. Started(r) => reader[r].pos \in 0..(n + 1)
  BY <1>1 DEF Place
<1>7. reader[r].pc = "take" => reader[r].pos <= n
  BY <1>1, <1>3 DEF Place
<1> QED
  <2>1. /\ reader'[r].pc = reader[r].pc /\ reader'[r].cur = reader[r].cur
        /\ reader'[r].pos = reader[r].pos /\ reader'[r].last = reader[r].last
        /\ reader'[r].first = reader[r].first /\ reader'[r].ordered = reader[r].ordered
        /\ reader'[r].match = reader[r].match
    BY <1>2, Zenon DEF Unmoved
  <2>2. Place(r)'
    BY <1>1, <1>3, <1>4, <1>5, <1>6, <1>7, <2>1, SizeIsPositive, Zenon DEF Place
  <2> QED BY <1>4, <1>5, <2>2, Zenon

LEMMA FirstAfterFrame ==
    ASSUME TypeOK, SourceInv, KeyInv, NEW n, NEW kind, NEW g, NEW ts,
           Arrives(n, kind, g, ts), KeepsRest(n), kind = "inter" => GopIsWhole,
           \/ KeysStay /\ (GopIsWhole' => GopIsWhole)
           \/ KeyJoins(n) /\ kind = "key",
           metadata_' = metadata_, NEW r \in Readers, Place(r), FirstFrame(r)
    PROVE  FirstFrame(r)'
<1>1. /\ n \in Nat /\ latest_frame_index_ = n - 1
  BY DEF Arrives, TypeOK
<1>2. Unmoved(r, kind)
  BY Zenon DEF Arrives
<1>3. PICK p \in Int : p = reader[r].pos /\ p = reader'[r].pos
  BY <1>2, Zenon DEF TypeOK, ReaderState, Unmoved
<1>4. SUFFICES ASSUME ~reader'[r].lapped, Started(r), reader[r].first = "none"
               PROVE  Covered(p)' /\ (GopIsWhole' => p <= LastKey')
  <2>1. Covered(p)' => Covered(reader[r].pos)'
    BY <1>3, Zenon DEF Covered
  <2> QED BY <1>2, <1>3, <2>1, PlaceAfterArrival, Zenon DEF FirstFrame, Unmoved
<1>5. ~reader[r].lapped /\ n < p + max_size_ /\ p <= n
  <2>1. ~reader[r].lapped /\ n < reader[r].pos + max_size_
    BY <1>4, PlaceAfterArrival, Zenon
  <2>2. reader[r].pos \in 0..n
    BY <1>1, <1>4 DEF Place
  <2> QED BY <1>3, <2>1, <2>2
<1>6. Covered(p) /\ (GopIsWhole => p <= LastKey)
  BY <1>3, <1>4, <1>5, Zenon DEF FirstFrame
<1>7. Covered(p)'
  BY <1>5, <1>6, StartAfterFrame, Zenon
<1>8. ASSUME GopIsWhole' PROVE p <= LastKey'
  <2>1. CASE KeysStay /\ GopIsWhole
    BY <1>6, <2>1, LastKeyStays
  <2>2. CASE KeyJoins(n) /\ kind = "key"
    <3>1. LastKey' = n
      BY <1>1, <2>2, PushBack, Zenon DEF KeyJoins, LastKey
    <3> QED BY <1>5, <3>1, Zenon
  <2> QED BY <1>8, <2>1, <2>2, Zenon
<1> QED BY <1>7, <1>8, Zenon

LEMMA FirstAfterHeader ==
    ASSUME TypeOK, NEW n, NEW kind, NEW g, NEW ts,
           Arrives(n, kind, g, ts), ClearsRest(n), kind # "inter", ~GopIsWhole',
           metadata_' = metadata_, NEW r \in Readers, Place(r), FirstFrame(r)
    PROVE  FirstFrame(r)'
<1>1. Unmoved(r, kind)
  BY Zenon DEF Arrives
<1>2. PICK p \in Int : p = reader[r].pos /\ p = reader'[r].pos
  BY <1>1, Zenon DEF TypeOK, ReaderState, Unmoved
<1>3. Covered(p)'
  BY CoveredAfterOther, Zenon
<1>4. Covered(reader[r].pos)'
  BY <1>2, <1>3, Zenon DEF Covered
<1> QED BY <1>1, <1>4, PlaceAfterArrival, Zenon DEF FirstFrame, Unmoved

LEMMA TimeGoesOn ==
    ASSUME TypeOK, TypeOK', NEW ts \in Nat, ts >= StreamTime,
           ts = latest_video_timestamp_' \/ ts = latest_audio_timestamp_'
    PROVE  StreamTime <= StreamTime'
  BY StreamTimeIs, SMTT(30) DEF StreamTime, TypeOK

\* A frame leaves a header that is still to come where it is.
LEMMA HeaderSinceStays ==
    ASSUME TypeOK, NEW n, NEW kind, NEW g, NEW ts, Arrives(n, kind, g, ts), KeepsRest(n),
           NEW v \in 1..(n - 1), NEW t \in Nat, t <= ts, HeaderSince(v, t)
    PROVE  HeaderSince(v, t)'
<1>1. n \in Nat /\ latest_frame_index_ = n - 1 /\ latest_frame_index_' = n
  BY DEF Arrives, TypeOK
<1>2. ASSUME NEW j \in v..n, j + max_size_ > n
      PROVE  /\ InRing(j)' /\ get_pkt(j)'.ts >= t
             /\ j = v => Holds(j, {"vseq"})'
  <2>1. CASE j = n
    BY <1>1, <2>1, NewestIsNew
  <2>2. CASE j # n
    <3>1. j \in Int /\ j < n /\ n < j + max_size_ /\ j \in v..(n - 1) /\ j + max_size_ > n - 1
      BY <1>1, <1>2, <2>2, SizeIsPositive
    <3>2. /\ InRing(j) /\ get_pkt(j).ts >= t
          /\ j = v => Holds(j, {"vseq"})
      BY <1>1, <3>1, Zenon DEF HeaderSince
    <3>3. get_pkt(j)' = get_pkt(j)
      BY <3>1, RingStays, Zenon
    <3>4. Holds(j, {"vseq"})' <=> Holds(j, {"vseq"})
      BY <3>1, HoldsStays, Zenon
    <3> QED BY <3>2, <3>3, <3>4, Zenon DEF InRing
  <2> QED BY <2>1, <2>2, Zenon
<1> QED BY <1>1, <1>2, Zenon DEF HeaderSince

LEMMA HeaderAfterFrame ==
    ASSUME TypeOK, TypeOK', NEW n, NEW kind, NEW g, NEW ts \in Nat,
           Arrives(n, kind, g, ts), KeepsRest(n), kind # "aseq", gen' = gen,
           ts >= StreamTime, CallsAreShort(ts),
           \/ latest_video_timestamp_' = ts
           \/ latest_audio_timestamp_' = ts /\ latest_video_timestamp_' = latest_video_timestamp_,
           metadata_' = metadata_, NEW r \in Readers, Place(r), Header(r)
    PROVE  Header(r)'
<1> DEFINE s == reader[r]
           t == reader'[r]
<1>1. n \in Nat /\ latest_frame_index_ = n - 1 /\ latest_frame_index_' = n
  BY DEF Arrives, TypeOK
<1>2. /\ t.pc = s.pc /\ t.cur = s.cur /\ t.pos = s.pos /\ t.hdr = s.hdr
      /\ t.since = s.since /\ t.match = s.match
  BY Zenon DEF Arrives, Unmoved
<1>3. (~t.lapped => ~s.lapped) /\ (t.skipped <=> s.skipped)
  BY Zenon DEF Arrives, Unmoved, Skips
<1>4. s.pos \in Int /\ s.since \in Nat /\ s.hdr \in Nat /\ gen \in Nat
      /\ latest_video_timestamp_ \in Nat
  BY Zenon DEF TypeOK, ReaderState
<1>5. ASSUME s.pc = "pick"
      PROVE  /\ s.since <= StreamTime' /\ latest_video_timestamp_' - s.since < Gap
             /\ s.hdr = gen \/ s.skipped
                \/ \E v \in 1..latest_frame_index_' : HeaderSince(v, s.since)'
  <2>1. s.since <= StreamTime /\ latest_video_timestamp_ - s.since < Gap
    BY <1>5, Zenon DEF Header
  <2>2. s.since <= StreamTime'
    <3>1. StreamTime <= StreamTime'
      BY TimeGoesOn, Zenon
    <3>2. StreamTime \in Nat /\ StreamTime' \in Nat
      BY StreamTimeIs, Zenon DEF TypeOK, StreamTime
    <3> QED BY <1>4, <2>1, <3>1, <3>2
  <2>3. latest_video_timestamp_' - s.since < Gap
    BY <1>5, <2>1, Zenon DEF CallsAreShort
  <2>4. ASSUME NEW v \in 1..latest_frame_index_, HeaderSince(v, s.since)
        PROVE  \E w \in 1..latest_frame_index_' : HeaderSince(w, s.since)'
    <3>1. PICK b \in Nat : b = s.since /\ b = t.since /\ b <= ts
      BY <1>2, <1>4, <2>1, StreamTimeIs
    <3>2. v \in 1..(n - 1) /\ v \in 1..latest_frame_index_'
      BY <1>1
    <3>3. HeaderSince(v, b)
      BY <2>4, <3>1, Zenon
    <3>4. HeaderSince(v, b)'
      BY <3>1, <3>2, <3>3, HeaderSinceStays, Zenon
    <3>5. HeaderSince(v, s.since)'
      BY <3>1, <3>4, Zenon DEF HeaderSince
    <3> QED BY <3>2, <3>5, Zenon
  <2>5. s.hdr = gen \/ s.skipped \/ \E v \in 1..latest_frame_index_ : HeaderSince(v, s.since)
    BY <1>5, Zenon DEF Header
  <2> QED BY <2>2, <2>3, <2>4, <2>5
<1>6. ASSUME Started(r), ~t.lapped, ~t.skipped
      PROVE  s.hdr = gen \/ \E v \in s.pos..latest_frame_index_' : Holds(v, {"vseq"})'
  <2>1. ~s.lapped /\ ~s.skipped /\ n < s.pos + max_size_
    BY <1>3, <1>6, PlaceAfterArrival, Zenon
  <2>2. s.hdr = gen \/ \E v \in s.pos..latest_frame_index_ : Holds(v, {"vseq"})
    BY <1>6, <2>1, Zenon DEF Header
  <2>3. ASSUME NEW v \in s.pos..latest_frame_index_, Holds(v, {"vseq"})
        PROVE  v \in s.pos..latest_frame_index_' /\ Holds(v, {"vseq"})'
    <3>1. v \in Int /\ v < n /\ n < v + max_size_ /\ v \in s.pos..latest_frame_index_'
      BY <1>1, <1>4, <2>1, SizeIsPositive
    <3> QED BY <2>3, <3>1, HoldsStays, Zenon
  <2> QED BY <2>2, <2>3, Zenon
<1>7. Started(r)' <=> Started(r)
  BY PlaceAfterArrival, Zenon
<1>8. ~t.lapped => t.match \/ t.skipped
  BY <1>2, <1>3, Zenon DEF Header
<1>9. s.hdr <= gen
  BY Zenon DEF Header
<1> QED BY <1>2, <1>3, <1>5, <1>6, <1>7, <1>8, <1>9, SMTT(30) DEF Header

\* A new video header is ahead of every sink.
LEMMA HeaderAfterVideoHeader ==
    ASSUME TypeOK, NEW n, NEW g, NEW ts \in Nat,
           Arrives(n, "vseq", g, ts), ClearsRest(n), gen' = gen + 1, ts = StreamTime,
           UNCHANGED <<latest_video_timestamp_, latest_audio_timestamp_, metadata_>>,
           NEW r \in Readers, Place(r), Header(r)
    PROVE  Header(r)'
<1> DEFINE s == reader[r]
           t == reader'[r]
<1>1. n \in Nat /\ n >= 1 /\ latest_frame_index_' = n /\ Holds(n, {"vseq"})'
  <2>1. n \in Nat /\ n >= 1 /\ latest_frame_index_' = n
    BY Zenon DEF Arrives
  <2>2. InRing(n)' /\ get_pkt(n)'.kind = "vseq"
    BY NewestIsNew, Zenon
  <2> QED BY <2>1, <2>2, Zenon DEF Holds
<1>2. /\ t.pc = s.pc /\ t.cur = s.cur /\ t.pos = s.pos /\ t.hdr = s.hdr
      /\ t.since = s.since /\ t.match = s.match
  BY Zenon DEF Arrives, Unmoved
<1>3. (~t.lapped => ~s.lapped) /\ (t.skipped <=> s.skipped)
  BY Zenon DEF Arrives, Unmoved, Skips
<1>4. s.pos \in Int /\ s.since \in Nat /\ s.hdr \in Nat /\ gen \in Nat /\ s.hdr <= gen'
      /\ StreamTime' = StreamTime
  BY DEF TypeOK, ReaderState, Header, StreamTime
<1>5. ASSUME s.pc = "pick"
      PROVE  \E v \in 1..latest_frame_index_' : HeaderSince(v, s.since)'
  <2>1. PICK b \in Nat : b = s.since /\ b = t.since /\ b <= ts
    BY <1>2, <1>4, <1>5, Zenon DEF Header
  <2>2. ASSUME NEW j \in n..n PROVE /\ InRing(j)' /\ get_pkt(j)'.ts >= b
                                    /\ j = n => Holds(j, {"vseq"})'
    <3>1. j = n
      BY <1>1
    <3> QED BY <1>1, <2>1, <3>1, NewestIsNew, Zenon
  <2>3. HeaderSince(n, b)'
    BY <1>1, <2>2, Zenon DEF HeaderSince
  <2>4. HeaderSince(n, s.since)'
    BY <2>1, <2>3, Zenon DEF HeaderSince
  <2>5. n \in 1..latest_frame_index_'
    BY <1>1
  <2> QED BY <2>4, <2>5, Zenon
<1>6. Started(r)' => n \in s.pos..latest_frame_index_'
  <2>1. Started(r)' => s.pos \in 0..n
    BY PlaceAfterArrival, Zenon DEF Place, Arrives
  <2> QED BY <1>1, <2>1
<1>7. ~t.lapped => t.match \/ t.skipped
  BY <1>2, <1>3, Zenon DEF Header
<1>8. s.pc = "pick" => s.since <= StreamTime' /\ latest_video_timestamp_' - s.since < Gap
  BY <1>4, Zenon DEF Header
<1> QED BY <1>1, <1>2, <1>4, <1>5, <1>6, <1>7, <1>8, Zenon DEF Header

\* An audio header takes away the video header a sink was still to get.
LEMMA HeaderAfterAudioHeader ==
    ASSUME TypeOK, NEW n, NEW g, NEW ts \in Nat,
           Arrives(n, "aseq", g, ts), gen' = gen,
           UNCHANGED <<latest_video_timestamp_, latest_audio_timestamp_, metadata_>>,
           NEW r \in Readers, Place(r), Header(r)
    PROVE  Header(r)'
<1> DEFINE s == reader[r]
           t == reader'[r]
<1>1. /\ t.pc = s.pc /\ t.cur = s.cur /\ t.pos = s.pos /\ t.hdr = s.hdr
      /\ t.since = s.since /\ t.match = s.match
  BY Zenon DEF Arrives, Unmoved
<1>2. (~t.lapped => ~s.lapped) /\ (~t.skipped => ~s.skipped)
  BY Zenon DEF Arrives, Unmoved
<1>3. Called(r) => s.hdr = gen \/ t.skipped
  BY Zenon DEF Arrives, Unmoved, Skips
<1>4. Started(r)' <=> Started(r)
  BY PlaceAfterArrival, Zenon
<1>5. StreamTime' = StreamTime
  BY Zenon DEF StreamTime
<1> QED BY <1>1, <1>2, <1>3, <1>4, <1>5, Zenon DEF Header, Called

\* Nothing a sink looks at changes, its own state included.
SourceStays ==
    /\ UNCHANGED <<pkt_buf_, latest_frame_index_, keyframe_indexes_, gen, keyed, cutMidGop>>
    /\ UNCHANGED <<latest_video_timestamp_, latest_audio_timestamp_, reader>>

LEMMA SinkStays ==
    ASSUME NEW r \in Readers, FirstFrame(r), Header(r), SourceStays
    PROVE  FirstFrame(r)' /\ Header(r)'
<1>1. /\ latest_frame_index_' = latest_frame_index_ /\ reader' = reader /\ gen' = gen
      /\ latest_video_timestamp_' = latest_video_timestamp_
      /\ StreamTime' = StreamTime /\ LastKey' = LastKey /\ (GopIsWhole' <=> GopIsWhole)
      /\ Started(r)' <=> Started(r)
  BY Zenon DEF SourceStays, StreamTime, LastKey, GopIsWhole, Started
<1>2. \A j : get_pkt(j)' = get_pkt(j) /\ (InRing(j)' <=> InRing(j))
  BY Zenon DEF SourceStays, get_pkt, InRing
<1>3. \A j, kinds : Holds(j, kinds)' <=> Holds(j, kinds)
  BY <1>2, Zenon DEF Holds
<1>4. Covered(reader[r].pos)' <=> Covered(reader[r].pos)
  BY <1>1, <1>3, Zenon DEF Covered
<1>5. FirstFrame(r)'
  BY <1>1, <1>4, Zenon DEF FirstFrame
<1>6. \A v : HeaderSince(v, reader[r].since)' <=> HeaderSince(v, reader[r].since)
  BY <1>1, <1>2, <1>3, Zenon DEF HeaderSince
<1>7. Header(r)'
  BY <1>1, <1>3, <1>6, Zenon DEF Header
<1> QED BY <1>5, <1>7, Zenon

LEMMA PublisherKeeps ==
    ASSUME GopInv, PublisherStep
    PROVE  GopInv'
<1>1. /\ TypeOK /\ RingInv /\ RingIsSuffix /\ SourceInv /\ KeyInv /\ UNCHANGED codec
      /\ \A r \in Readers : Place(r) /\ FirstFrame(r) /\ Header(r)
  BY Zenon DEF GopInv, SinkInv, RingInv, PublisherStep
<1> SUFFICES /\ TypeOK' /\ RingInv' /\ SourceInv' /\ KeyInv'
             /\ \A r \in Readers : Place(r)' /\ FirstFrame(r)' /\ Header(r)'
  BY Zenon DEF GopInv, SinkInv
<1>2. CASE on_metadata
  <2>1. TypeOK'
    BY <1>1, <1>2, MetadataType, Zenon
  <2>2. SourceInv' /\ metadata_' # "none"
    BY <1>1, <1>2, MetadataSource, Zenon
  <2>3. UNCHANGED <<pkt_buf_, latest_frame_index_, keyframe_indexes_, gen, keyed, cutMidGop,
                    latest_video_timestamp_, latest_audio_timestamp_, reader>>
    BY <1>2, Zenon DEF on_metadata
  <2>4. RingInv' /\ KeyInv'
    BY <1>1, <2>3 DEF RingInv, RingIsSuffix, KeyInv, Covered, Holds, InRing, get_pkt, LastKey, GopIsWhole
  <2>5. ASSUME NEW r \in Readers PROVE Place(r)' /\ FirstFrame(r)' /\ Header(r)'
    <3>1. Place(r)'
      BY <1>1, <2>2, <2>3, Zenon DEF Place, Started
    <3> QED BY <1>1, <2>3, <3>1, SinkStays, Zenon DEF SourceStays
  <2> QED BY <2>1, <2>2, <2>4, <2>5, Zenon
<1>3. CASE on_video_header
  <2>1. PICK n, g, ts \in Nat : /\ Arrives(n, "vseq", g, ts) /\ ClearsRest(n)
                                /\ g = gen + 1 /\ ts = StreamTime
    BY <1>1, <1>3, VideoHeaderArrives, Zenon
  <2>2. TypeOK' /\ SourceInv'
    BY <1>1, <1>3, VideoHeaderType, VideoHeaderSource, Zenon
  <2>3. /\ UNCHANGED <<latest_video_timestamp_, latest_audio_timestamp_, metadata_>>
        /\ gen' = gen + 1 /\ KeysStay /\ ~GopIsWhole'
    BY <1>3, Zenon DEF on_video_header, KeysStay, GopIsWhole
  <2>4. RingInv'
    BY <1>1, <2>1, <2>3, RingAfterHeader, Zenon DEF Frames
  <2>5. KeyInv'
    BY <1>1, <2>1, <2>3, KeyAfterHeader, Zenon
  <2>6. ASSUME NEW r \in Readers PROVE Place(r)' /\ FirstFrame(r)' /\ Header(r)'
    <3>1. Place(r) /\ FirstFrame(r) /\ Header(r)
      BY <1>1, Zenon
    <3>2. Place(r)'
      BY <1>1, <2>1, <2>3, <3>1, PlaceAfterArrival, Zenon
    <3>3. FirstFrame(r)'
      BY <1>1, <2>1, <2>3, <3>1, FirstAfterHeader, Zenon
    <3>4. Header(r)'
      BY <1>1, <2>1, <2>3, <3>1, HeaderAfterVideoHeader
    <3> QED BY <3>2, <3>3, <3>4, Zenon
  <2> QED BY <2>2, <2>4, <2>5, <2>6, Zenon
<1>4. CASE on_audio_header
  <2>1. PICK n, g, ts \in Nat : /\ Arrives(n, "aseq", g, ts) /\ ClearsRest(n) /\ g = gen
    BY <1>1, <1>4, AudioHeaderArrives
  <2>2. TypeOK' /\ SourceInv'
    BY <1>1, <1>4, AudioHeaderType, AudioHeaderSource
  <2>3. /\ UNCHANGED <<latest_video_timestamp_, latest_audio_timestamp_, metadata_>>
        /\ gen' = gen /\ KeysStay /\ ~GopIsWhole'
    BY <1>4, Zenon DEF on_audio_header, KeysStay, GopIsWhole
  <2>4. RingInv'
    BY <1>1, <2>1, <2>3, RingAfterHeader, Zenon DEF Frames
  <2>5. KeyInv'
    BY <1>1, <2>1, <2>3, KeyAfterHeader
  <2>6. ASSUME NEW r \in Readers PROVE Place(r)' /\ FirstFrame(r)' /\ Header(r)'
    <3>1. Place(r) /\ FirstFrame(r) /\ Header(r)
      BY <1>1
    <3>2. Place(r)'
      BY <1>1, <2>1, <2>3, <3>1, PlaceAfterArrival, Zenon
    <3>3. FirstFrame(r)'
      BY <1>1, <2>1, <2>3, <3>1, FirstAfterHeader, Zenon
    <3>4. Header(r)'
      BY <1>1, <2>1, <2>3, <3>1, HeaderAfterAudioHeader, Zenon
    <3> QED BY <3>2, <3>3, <3>4
  <2> QED BY <2>2, <2>4, <2>5, <2>6
<1>5. CASE on_video_frame
  <2>1. PICK n, g, ts \in Nat, kind \in Frames :
          /\ Arrives(n, kind, g, ts) /\ KeepsRest(n)
          /\ g = gen /\ gen > 0 /\ ts >= StreamTime /\ CallsAreShort(ts)
          /\ kind = "inter" => GopIsWhole
          /\ kind = "orphan" => cutMidGop
          /\ keyframe_indexes_' = IF kind = "key" THEN push_back(n) ELSE keyframe_indexes_
          /\ keyed' = TRUE /\ cutMidGop' = (cutMidGop /\ kind # "key")
          /\ latest_video_timestamp_' = ts
    BY <1>1, <1>5, VideoFrameArrives, Zenon
  <2>2. TypeOK' /\ SourceInv'
    BY <1>1, <1>5, VideoFrameType, VideoFrameSource, Zenon
  <2>3. metadata_' = metadata_ /\ gen' = gen /\ kind # "vseq" /\ kind # "aseq"
    BY <1>5, Zenon DEF on_video_frame, Frames
  <2>4. \/ KeysStay /\ (GopIsWhole' => GopIsWhole)
        \/ KeyJoins(n) /\ kind = "key"
    BY <2>1, <2>3, Zenon DEF KeysStay, KeyJoins, GopIsWhole, Frames
  <2>5. RingInv'
    BY <1>1, <2>1, <2>3, RingAfterFrame, Zenon
  <2>6. KeyInv'
    BY <1>1, <2>1, <2>4, KeyAfterFrame, Zenon
  <2>7. ASSUME NEW r \in Readers PROVE Place(r)' /\ FirstFrame(r)' /\ Header(r)'
    <3>1. Place(r) /\ FirstFrame(r) /\ Header(r)
      BY <1>1, Zenon
    <3>2. Place(r)'
      BY <1>1, <2>1, <2>3, <3>1, PlaceAfterArrival, Zenon
    <3>3. FirstFrame(r)'
      BY <1>1, <2>1, <2>3, <2>4, <3>1, FirstAfterFrame, Zenon
    <3>4. Header(r)'
      BY <1>1, <2>1, <2>2, <2>3, <3>1, HeaderAfterFrame
    <3> QED BY <3>2, <3>3, <3>4, Zenon
  <2> QED BY <2>2, <2>5, <2>6, <2>7, Zenon
<1>6. CASE on_audio_frame
  <2>1. PICK n, g, ts \in Nat :
          /\ Arrives(n, "audio", g, ts) /\ KeepsRest(n)
          /\ g = gen /\ ts >= StreamTime /\ CallsAreShort(ts)
          /\ latest_audio_timestamp_' = ts
    BY <1>1, <1>6, AudioFrameArrives, Zenon
  <2>2. TypeOK' /\ SourceInv'
    BY <1>1, <1>6, AudioFrameType, AudioFrameSource, Zenon
  <2>3. /\ metadata_' = metadata_ /\ gen' = gen /\ KeysStay /\ (GopIsWhole' => GopIsWhole)
        /\ latest_video_timestamp_' = latest_video_timestamp_
    BY <1>6 DEF on_audio_frame, KeysStay, GopIsWhole
  <2>4. RingInv'
    BY <1>1, <2>1, <2>3, RingAfterFrame, Zenon DEF Frames
  <2>5. KeyInv'
    BY <1>1, <2>1, <2>3, KeyAfterFrame
  <2>6. ASSUME NEW r \in Readers PROVE Place(r)' /\ FirstFrame(r)' /\ Header(r)'
    <3>1. Place(r) /\ FirstFrame(r) /\ Header(r)
      BY <1>1
    <3>2. Place(r)'
      BY <1>1, <2>1, <2>3, <3>1, PlaceAfterArrival, Zenon
    <3>3. FirstFrame(r)'
      BY <1>1, <2>1, <2>3, <3>1, FirstAfterFrame
    <3>4. Header(r)'
      BY <1>1, <2>1, <2>2, <2>3, <3>1, HeaderAfterFrame
    <3> QED BY <3>2, <3>3, <3>4
  <2> QED BY <2>2, <2>4, <2>5, <2>6
<1> QED BY <1>2, <1>3, <1>4, <1>5, <1>6 DEF PublisherStep

-----------------------------------------------------------------------------
(* The theorems.                                                           *)

LEMMA GopInit == Init => GopInv
<1> SUFFICES ASSUME Init PROVE GopInv
  BY Zenon
<1>1. PICK kind \in [Readers -> Sinks] : reader = [r \in Readers |->
         [source |-> kind[r], pc |-> "idle", cur |-> -1, pos |-> -1, cnt |-> 0, hdr |-> 0,
          since |-> 0, last |-> 0, first |-> "none", ordered |-> TRUE,
          match |-> TRUE, null |-> FALSE, skipped |-> FALSE, lapped |-> FALSE]]
  BY Zenon DEF Init
<1>2. reader \in [Readers -> ReaderState]
  BY <1>1 DEF ReaderState
<1>3. TypeOK
  <2>1. pkt_buf_ \in [Slots -> Packet \cup {NoPkt}]
    BY Zenon DEF Init
  <2>2. keyframe_indexes_ \in Seq(Nat) /\ Len(keyframe_indexes_) <= MaxKeyframes
    BY GopAssumption DEF Init
  <2> QED BY <1>2, <2>1, <2>2, Zenon DEF Init, TypeOK
<1>4. \A s \in Slots : pkt_buf_[s] = NoPkt
  BY Zenon DEF Init
<1>5. RingInv
  <2>1. \A j \in Int : ~InRing(j)
    BY <1>4, SlotType, Zenon DEF InRing, get_pkt
  <2> QED BY <1>4, <2>1 DEF RingInv, RingIsSuffix, Holds, Init
<1>6. SourceInv /\ KeyInv
  BY DEF Init, SourceInv, KeyInv, GopIsWhole
<1>7. ASSUME NEW r \in Readers PROVE SinkInv(r)
  <2>1. /\ reader[r].pc = "idle" /\ reader[r].cur = -1 /\ reader[r].last = 0 /\ reader[r].hdr = 0
        /\ reader[r].first = "none" /\ reader[r].ordered = TRUE /\ reader[r].match = TRUE
    BY <1>1, Zenon
  <2>2. ~Started(r)
    BY <2>1, Zenon DEF Started
  <2>3. gen = 0
    BY Zenon DEF Init
  <2>4. Place(r)
    BY <2>1, <2>2, Zenon DEF Place
  <2>5. FirstFrame(r)
    BY <2>1, <2>2, ZenonT(30) DEF FirstFrame
  <2>6. Header(r)
    BY <2>1, <2>2, <2>3 DEF Header
  <2> QED BY <2>4, <2>5, <2>6, Zenon DEF SinkInv
<1> QED BY <1>3, <1>5, <1>6, <1>7, Zenon DEF GopInv

LEMMA GopStep == GopInv /\ [Next]_vars => GopInv'
<1> SUFFICES ASSUME GopInv, [Next]_vars PROVE GopInv'
  BY Zenon
<1>1. CASE PublisherStep
  BY <1>1, PublisherKeeps, Zenon
<1>2. ASSUME NEW r \in Readers, ReaderStep(r) PROVE GopInv'
  BY <1>2, SinkKeeps, Zenon
<1>3. CASE UNCHANGED vars
  <2>1. /\ UNCHANGED <<codec, pkt_buf_, latest_frame_index_, keyframe_indexes_, metadata_,
                       audio_ready_, video_ready_, stream_ready_, gen, clears>>
        /\ UNCHANGED <<latest_video_timestamp_, latest_audio_timestamp_, keyed, heard, cutMidGop>>
        /\ UNCHANGED reader
    BY <1>3, Zenon DEF vars, srcVars
  <2>2. TypeOK' /\ RingInv' /\ SourceInv' /\ KeyInv'
    BY <2>1 DEF GopInv, TypeOK, RingInv, RingIsSuffix, SourceInv, KeyInv, Covered, Holds, InRing,
                get_pkt, LastKey, GopIsWhole
  <2>3. ASSUME NEW r \in Readers PROVE SinkInv(r)'
    <3>1. Place(r) /\ FirstFrame(r) /\ Header(r)
      BY Zenon DEF GopInv, SinkInv
    <3>2. Place(r)'
      BY <2>1, <3>1, Zenon DEF Place, Started
    <3>3. FirstFrame(r)' /\ Header(r)'
      BY <2>1, <3>1, SinkStays, Zenon DEF SourceStays
    <3> QED BY <3>2, <3>3, Zenon DEF SinkInv
  <2> QED BY <2>2, <2>3, Zenon DEF GopInv
<1> QED BY <1>1, <1>2, <1>3, Zenon DEF Next

\* The ring and every sink keep the whole of the invariant, whatever the
\* publisher sends and however the sinks' steps interleave with it.
THEOREM GopInvHolds == Spec => []GopInv
<1>1. Init => GopInv
  BY GopInit, Zenon
<1>2. GopInv /\ [Next]_vars => GopInv'
  BY GopStep, Zenon
<1> QED BY <1>1, <1>2, PTL DEF Spec

\* For every size of the ring: it always holds the newest packets without a
\* gap, so that clear(), which stops at the first empty slot, empties all of it
\* (sequence_pkt_buf.hpp:21-26 and 58-67).
THEOREM RingIsSuffixHolds == Spec => []RingIsSuffix
<1>1. GopInv => RingIsSuffix
  BY Zenon DEF GopInv, RingInv
<1> QED BY <1>1, GopInvHolds, PTL

\* For every size of the ring and every number of sinks: get_pkt compares no
\* indexes, and a sink the ring has not overtaken still gets its packets in
\* order and at most once (rtmp_media_source.cpp:359-379).
THEOREM InOrderUnlessLappedHolds == Spec => []InOrderUnlessLapped
<1>1. GopInv => InOrderUnlessLapped
  BY Zenon DEF GopInv, SinkInv, Place, InOrderUnlessLapped
<1> QED BY <1>1, GopInvHolds, PTL

\* For every size of the ring, gap and number of sinks: a viewer starts at a
\* key frame and gets every frame under its own header, with the exceptions
\* that Decodable names (rtmp_media_source.cpp:304-336 and 207-210).
THEOREM DecodableHolds == Spec => []Decodable
<1>1. GopInv => Decodable
  BY Zenon DEF GopInv, SinkInv, FirstFrame, Header, Decodable
<1> QED BY <1>1, GopInvHolds, PTL
=============================================================================
