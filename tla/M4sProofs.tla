------------------------------ MODULE M4sProofs -----------------------------
(***************************************************************************)
(* Proofs about M4sBridge: segments tile their track and reach the live    *)
(* manifest and the recorder in order, for every stream, every window and  *)
(* every queue of the worker.                                              *)
(***************************************************************************)
EXTENDS M4sBridge, TLAPS

-----------------------------------------------------------------------------
(* The inductive invariant.                                                *)

Sink == {"mpd", "rec"}
Piece == [n : Nat, start : Nat, end : Nat]
Event == [to : Sink, kind : {"init", "seg"}, track : Track, seg : Piece]
Packet == [ts : Nat, size : Nat]

\* Segments of a track that were cut.
Cut(t) == seq_no_[t] - 1

\* The bridge: metadata is the publisher's, and what follows a segment begins
\* where it ends.
CutInv ==
    /\ stream \in [Track -> VideoCodecs \cup AudioCodecs]
    /\ codec_ \in [Track -> VideoCodecs \cup AudioCodecs \cup {"none"}]
    /\ metadata_ => codec_ = stream
    /\ crashed => \E t \in Track : stream[t] = "none"
    /\ sent \in [Track -> Nat] /\ seq_no_ \in [Track -> Nat \ {0}]
    /\ pkts_ \in [Track -> Seq(Packet)]
    /\ DOMAIN seg_ = Track
    /\ \A t \in Track :
        /\ Cut(t) <= sent[t] /\ sent[t] <= Len(FrameTimes[t])
        /\ seg_[t].n = Cut(t)
        /\ Cut(t) = 0 => seg_[t] = NoSeg
        /\ Cut(t) > 0 => pkts_[t] # <<>> /\ pkts_[t][1].ts = seg_[t].end

\* The i-th thing in the worker's queue q is a segment of the track, for the sink.
On(q, i, x, t) == i \in 1..Len(q) /\ q[i].to = x /\ q[i].kind = "seg" /\ q[i].track = t

\* What was cut after a segment that waits, waits too; cut segments end at "end".
FollowedUp(q, i, x, t, cut, end) ==
    /\ q[i].seg.n \in 1..cut
    /\ q[i].seg.n = cut => q[i].seg.end = end
    /\ \A n \in (q[i].seg.n + 1)..cut : \E j \in 1..Len(q) : On(q, j, x, t) /\ q[j].seg.n = n

GoesBefore(q, i, j) ==
    /\ q[i].seg.n < q[j].seg.n
    /\ q[j].seg.n = q[i].seg.n + 1 => q[j].seg.start = q[i].seg.end

\* The queue: segments wait in the order they were cut, and none is missing that
\* was cut after one that waits.
InOrder(q, x, t, cut, end) ==
    /\ \A i \in 1..Len(q) : On(q, i, x, t) => FollowedUp(q, i, x, t, cut, end)
    /\ \A i, j \in 1..Len(q) : On(q, i, x, t) /\ On(q, j, x, t) /\ i < j => GoesBefore(q, i, j)

\* What was cut after segment number n, and nothing else, waits for the sink.
WaitsAfter(q, x, t, cut, n) ==
    /\ n \in 0..cut
    /\ \A i \in 1..Len(q) : On(q, i, x, t) => q[i].seg.n > n
    /\ \A m \in (n + 1)..cut : \E j \in 1..Len(q) : On(q, j, x, t) /\ q[j].seg.n = m

\* Segment l is the last the sink has of the track, and goes on with what waits.
GoesOn(q, x, t, cut, end, l) ==
    /\ l.n \in 1..cut /\ WaitsAfter(q, x, t, cut, l.n)
    /\ l.n = cut => l.end = end
    /\ \A i \in 1..Len(q) : On(q, i, x, t) /\ q[i].seg.n = l.n + 1 => q[i].seg.start = l.end

QueueInv ==
    /\ sinks_ \subseteq Sink
    /\ posted \in Seq(Event)
    /\ "mpd" \notin sinks_ => \A i \in 1..Len(posted) : posted[i].to # "mpd"
    /\ rec.state = "none" => \A i \in 1..Len(posted) : posted[i].to # "rec"
    /\ \A x \in sinks_, t \in Track : InOrder(posted, x, t, Cut(t), seg_[t].end)

LastPiece(q) == q[Len(q)]

\* The window of the live manifest is a run of consecutive segments that goes on
\* with what waits for it.
WindowInv ==
    /\ segments_ \in [Track -> Seq(Piece)]
    /\ "mpd" \notin sinks_ => segments_ = ByTrack(<<>>)
    /\ \A t \in Track :
        /\ Len(segments_[t]) <= Kept
        /\ \A k \in 1..Len(segments_[t]) :
            segments_[t][k].n = LastPiece(segments_[t]).n - (Len(segments_[t]) - k)
        /\ \A k \in 1..(Len(segments_[t]) - 1) : segments_[t][k + 1].start = segments_[t][k].end
        /\ segments_[t] # <<>> =>
            GoesOn(posted, "mpd", t, Cut(t), seg_[t].end, LastPiece(segments_[t]))

\* The manifest, once there is one, is the end of the window.
ManifestInv ==
    \/ mpd_ = ByTrack(<<>>)
    \/ /\ mpd_init_ = Track /\ \A t \in Track : Len(segments_[t]) > 1
       /\ mpd_ = [t \in Track |-> LastOf(segments_[t], Listed)]

\* What a viewer has read moves back in the window with every segment that comes.
ViewerInv ==
    /\ viewer = [listed |-> viewer.listed, since |-> viewer.since]
    /\ viewer.listed \in [Track -> SUBSET Nat] /\ viewer.since \in [Track -> 0..Kept]
    /\ \A t \in Track : \A n \in viewer.listed[t] :
        /\ segments_[t] # <<>>
        /\ viewer.since[t] < Kept =>
            /\ n <= LastPiece(segments_[t]).n - viewer.since[t]
            /\ n >= LastPiece(segments_[t]).n - viewer.since[t] - Listed + 1
        /\ Len(segments_[t]) < Kept => n >= segments_[t][1].n

\* A recorder that was there from the first segment numbers as the bridge does.
RecorderInv ==
    /\ rec = [state |-> rec.state, late |-> rec.late]
    /\ rec.state \in {"none", "on", "closed"}
    /\ rec.state = "on" <=> "rec" \in sinks_
    /\ failures \in Nat
    /\ DOMAIN m4s_segs_ = Track
    /\ \A t \in Track : \E S : m4s_segs_[t] \in Seq(S)
    /\ rec.state = "none" => m4s_segs_ = ByTrack(<<>>) /\ files = {} /\ rec_init_ = {}
    /\ rec_init_ \subseteq Track
    /\ rec.state = "on" /\ ~rec.late /\ failures = 0 =>
        \A t \in Track :
            /\ WaitsAfter(posted, "rec", t, Cut(t), Len(m4s_segs_[t]))
            /\ \A k \in 1..Len(m4s_segs_[t]) : m4s_segs_[t][k].seq_no = k
            /\ \A n \in Nat \ {0} : <<t, n>> \in files <=> n <= Len(m4s_segs_[t])

M4sInv ==
    /\ CutInv /\ QueueInv /\ WindowInv /\ ManifestInv /\ ViewerInv /\ RecorderInv
    /\ RecordedManifest

-----------------------------------------------------------------------------
(* Queues.                                                                 *)

LEMMA DistinctNames ==
    "init" # "seg" /\ "mpd" # "rec" /\ "on" # "none" /\ "on" # "closed" /\ "none" # "closed"
BY SMT

\* Numbers up to c, and the next one.
LEMMA BelowNext ==
    \A c \in Nat : \A a \in 1..c :
        a \in Nat /\ a \in 1..(c + 1) /\ a < c + 1 /\ a # c + 1 /\ (c + 1 = a + 1 => c > 0 /\ a = c)
BY SMT

\* An element put behind a sequence.
LEMMA AppendIs ==
    ASSUME NEW S, NEW q \in Seq(S), NEW e \in S
    PROVE  /\ Append(q, e) \in Seq(S) /\ Append(q, e) # <<>> /\ Len(Append(q, e)) = Len(q) + 1
           /\ Append(q, e)[Len(q) + 1] = e /\ \A i \in 1..Len(q) : Append(q, e)[i] = q[i]
           /\ q # <<>> => Append(q, e)[1] = q[1]
<1>1. Append(q, e) \in Seq(S) /\ Len(Append(q, e)) = Len(q) + 1 /\ Append(q, e)[Len(q) + 1] = e
    BY SMT
<1>2. \A i \in 1..Len(q) : Append(q, e)[i] = q[i]
    BY SMT
<1>3. q # <<>> => 1 \in 1..Len(q)
    BY SMT
<1>4. Append(q, e) # <<>>
    BY <1>1, SMT
<1>5. QED
    BY <1>1, <1>2, <1>3, <1>4, Zenon

\* r is q and something behind it.
Extends(q, r) == Len(q) <= Len(r) /\ \A i \in 1..Len(q) : r[i] = q[i]

\* Nothing behind q in r is a segment of the track for the sink.
NoneNew(q, r, x, t) == \A i \in (Len(q) + 1)..Len(r) : ~On(r, i, x, t)

\* An element is put behind the others.
LEMMA PostIs ==
    ASSUME NEW q \in Seq(Event), NEW x \in Sink, NEW k \in {"init", "seg"}, NEW t \in Track,
           NEW s \in Piece
    PROVE  /\ Post(q, x, k, t, s) \in Seq(Event)
           /\ Len(Post(q, x, k, t, s)) = Len(q) + 1
           /\ Extends(q, Post(q, x, k, t, s))
           /\ Post(q, x, k, t, s)[Len(q) + 1] = [to |-> x, kind |-> k, track |-> t, seg |-> s]
<1> DEFINE e == [to |-> x, kind |-> k, track |-> t, seg |-> s]
<1>1. e \in Event
    BY Zenon DEF Event
<1>2. Post(q, x, k, t, s) = Append(q, e)
    BY Zenon DEF Post
<1> HIDE DEF e
<1>3. QED
    BY <1>1, <1>2, SMT DEF Extends, e

\* The types of an element of the queue.
LEMMA EventIs ==
    ASSUME NEW q \in Seq(Event), NEW i \in 1..Len(q)
    PROVE  /\ q[i] \in Event /\ q[i].to \in Sink /\ q[i].kind \in {"init", "seg"} /\ q[i].track \in Track
           /\ q[i].seg \in Piece /\ q[i].seg.n \in Nat
<1>1. q[i] \in Event
    BY SMT
<1>2. q[i].to \in Sink /\ q[i].kind \in {"init", "seg"} /\ q[i].track \in Track /\ q[i].seg \in Piece
    BY <1>1, Zenon DEF Event
<1>3. q[i].seg.n \in Nat
    BY <1>2, Zenon DEF Piece
<1>4. QED
    BY <1>1, <1>2, <1>3, Zenon

\* The rest of a queue.
LEMMA TailIs ==
    ASSUME NEW q \in Seq(Event), q # <<>>
    PROVE  /\ Tail(q) \in Seq(Event) /\ Len(Tail(q)) = Len(q) - 1 /\ Len(q) \in Nat /\ Len(q) > 0
           /\ \A i \in 1..Len(Tail(q)) : /\ i + 1 \in 1..Len(q) /\ Tail(q)[i] = q[i + 1]
                                         /\ \A x, t : On(Tail(q), i, x, t) <=> On(q, i + 1, x, t)
           /\ \A i \in 1..Len(q) : i # 1 =>
                /\ i - 1 \in 1..Len(Tail(q)) /\ Tail(q)[i - 1] = q[i]
                /\ \A x, t : On(Tail(q), i - 1, x, t) <=> On(q, i, x, t)
<1>1. Tail(q) \in Seq(Event) /\ Len(Tail(q)) = Len(q) - 1 /\ Len(q) \in Nat /\ Len(q) > 0
    BY SMT
<1>2. \A i \in 1..Len(Tail(q)) : i + 1 \in 1..Len(q) /\ Tail(q)[i] = q[i + 1]
    BY <1>1, SMT
<1>3. \A i \in 1..Len(q) : i # 1 => i - 1 \in 1..Len(Tail(q)) /\ Tail(q)[i - 1] = q[i]
    BY <1>1, SMT
<1>4. QED
    BY <1>1, <1>2, <1>3, Zenon DEF On

\* What waits in order still does when the first element is taken.
LEMMA InOrderTail ==
    ASSUME NEW q \in Seq(Event), q # <<>>, NEW x, NEW t, NEW cut \in Nat, NEW end,
           InOrder(q, x, t, cut, end)
    PROVE  InOrder(Tail(q), x, t, cut, end)
<1> DEFINE r == Tail(q)
<1>1. /\ \A i \in 1..Len(r) : i + 1 \in 1..Len(q) /\ r[i] = q[i + 1] /\ (On(r, i, x, t) <=> On(q, i + 1, x, t))
      /\ \A i \in 1..Len(q) : i # 1 =>
            i - 1 \in 1..Len(r) /\ r[i - 1] = q[i] /\ (On(r, i - 1, x, t) <=> On(q, i, x, t))
    BY TailIs, Zenon
<1>2. Len(r) \in Nat
    BY TailIs, SMT
<1> HIDE DEF r
<1>4. ASSUME NEW i \in 1..Len(r), On(r, i, x, t)
      PROVE  FollowedUp(r, i, x, t, cut, end)
  <2>1. /\ i + 1 \in 1..Len(q) /\ On(q, i + 1, x, t) /\ r[i] = q[i + 1]
        BY <1>1, <1>4, Zenon
  <2>2. FollowedUp(q, i + 1, x, t, cut, end)
        BY <2>1, Zenon DEF InOrder
  <2>3. ASSUME NEW n \in (r[i].seg.n + 1)..cut
        PROVE  \E j \in 1..Len(r) : On(r, j, x, t) /\ r[j].seg.n = n
    <3>1. PICK j \in 1..Len(q) : On(q, j, x, t) /\ q[j].seg.n = n
        BY <2>1, <2>2, <2>3, Zenon DEF FollowedUp
    <3>2. q[i + 1].seg.n \in Nat /\ q[i + 1].seg.n < q[j].seg.n
        BY <3>1, <2>1, <2>2, EventIs, SMT DEF FollowedUp
    <3>3. j # 1
      <4>1. SUFFICES ASSUME j = 1 PROVE FALSE
            BY Zenon
      <4>2. j < i + 1
            BY <4>1, SMT
      <4>3. GoesBefore(q, j, i + 1)
            BY <4>2, <3>1, <2>1, Zenon DEF InOrder
      <4>4. q[j].seg.n \in Nat
            BY EventIs, Zenon
      <4>5. QED
            BY <4>3, <4>4, <3>2, SMT DEF GoesBefore
    <3>4. QED
        BY <3>1, <3>3, <1>1, Zenon
  <2>4. QED
        BY <2>1, <2>2, <2>3, Zenon DEF FollowedUp
<1>5. ASSUME NEW i \in 1..Len(r), NEW j \in 1..Len(r), On(r, i, x, t), On(r, j, x, t), i < j
      PROVE  GoesBefore(r, i, j)
  <2>1. /\ i + 1 \in 1..Len(q) /\ On(q, i + 1, x, t) /\ r[i] = q[i + 1]
        /\ j + 1 \in 1..Len(q) /\ On(q, j + 1, x, t) /\ r[j] = q[j + 1]
        BY <1>1, <1>5, Zenon
  <2>2. i + 1 < j + 1
        BY <1>5, SMT
  <2>3. GoesBefore(q, i + 1, j + 1)
        BY <2>1, <2>2, Zenon DEF InOrder
  <2>4. QED
        BY <2>1, <2>3, Zenon DEF GoesBefore
<1>6. InOrder(r, x, t, cut, end)
    BY <1>4, <1>5, Zenon DEF InOrder
<1>7. QED
    BY <1>6, Zenon DEF r

\* The first segment in the queue has the number after n if what was cut after n waits.
LEMMA NextWaits ==
    ASSUME NEW q \in Seq(Event), q # <<>>, NEW x, NEW t, NEW cut \in Nat, NEW end, NEW n \in Nat,
           InOrder(q, x, t, cut, end), WaitsAfter(q, x, t, cut, n), On(q, 1, x, t)
    PROVE  q[1].seg.n = n + 1
<1>1. 1 \in 1..Len(q) /\ q[1].seg.n \in Nat
    BY EventIs, Zenon DEF On
<1>2. q[1].seg.n > n /\ q[1].seg.n \in 1..cut
    BY <1>1, Zenon DEF WaitsAfter, InOrder, FollowedUp
<1>3. n + 1 \in (n + 1)..cut
    BY <1>2, <1>1, SMT
<1>4. PICK j \in 1..Len(q) : On(q, j, x, t) /\ q[j].seg.n = n + 1
    BY <1>3, Zenon DEF WaitsAfter
<1>5. CASE j = 1
    BY <1>5, <1>4, Zenon
<1>6. CASE j # 1
  <2>1. 1 < j
        BY <1>6, SMT
  <2>2. GoesBefore(q, 1, j)
        BY <2>1, <1>1, <1>4, Zenon DEF InOrder
  <2>3. QED
        BY <2>2, <1>1, <1>2, <1>4, SMT DEF GoesBefore
<1>7. QED
    BY <1>5, <1>6, Zenon

\* What was cut after the first segment in the queue waits when that is taken.
LEMMA AfterHead ==
    ASSUME NEW q \in Seq(Event), q # <<>>, NEW x, NEW t, NEW cut \in Nat, NEW end,
           InOrder(q, x, t, cut, end), On(q, 1, x, t)
    PROVE  GoesOn(Tail(q), x, t, cut, end, q[1].seg)
<1> DEFINE r == Tail(q)
<1>1. /\ \A i \in 1..Len(r) : i + 1 \in 1..Len(q) /\ r[i] = q[i + 1] /\ (On(r, i, x, t) <=> On(q, i + 1, x, t))
      /\ \A i \in 1..Len(q) : i # 1 =>
            i - 1 \in 1..Len(r) /\ r[i - 1] = q[i] /\ (On(r, i - 1, x, t) <=> On(q, i, x, t))
    BY TailIs, Zenon
<1>0. Len(r) \in Nat
    BY TailIs, SMT
<1> HIDE DEF r
<1>2. 1 \in 1..Len(q) /\ q[1].seg.n \in Nat
    BY EventIs, Zenon DEF On
<1>3. FollowedUp(q, 1, x, t, cut, end)
    BY <1>2, Zenon DEF InOrder
<1>4. ASSUME NEW i \in 1..Len(r), On(r, i, x, t)
      PROVE  GoesBefore(q, 1, i + 1) /\ r[i] = q[i + 1] /\ r[i].seg.n \in Nat
  <2>1. i + 1 \in 1..Len(q) /\ On(q, i + 1, x, t) /\ r[i] = q[i + 1]
        BY <1>1, <1>4, Zenon
  <2>2. 1 < i + 1
        BY <1>0, SMT
  <2>3. GoesBefore(q, 1, i + 1)
        BY <2>1, <2>2, <1>2, Zenon DEF InOrder
  <2>4. QED
        BY <2>1, <2>3, EventIs, Zenon
<1>5. ASSUME NEW m \in (q[1].seg.n + 1)..cut
      PROVE  \E j \in 1..Len(r) : On(r, j, x, t) /\ r[j].seg.n = m
  <2>1. PICK j \in 1..Len(q) : On(q, j, x, t) /\ q[j].seg.n = m
        BY <1>3, <1>5, Zenon DEF FollowedUp
  <2>2. j # 1
        BY <2>1, <1>2, SMT
  <2>3. QED
        BY <2>1, <2>2, <1>1, Zenon
<1>6. \A i \in 1..Len(r) : On(r, i, x, t) => r[i].seg.n > q[1].seg.n
  <2>1. SUFFICES ASSUME NEW i \in 1..Len(r), On(r, i, x, t) PROVE r[i].seg.n > q[1].seg.n
        BY Zenon
  <2>2. QED
        BY <1>4, <2>1, <1>2, SMT DEF GoesBefore
<1>7. q[1].seg.n \in 1..cut /\ q[1].seg.n \in 0..cut
    BY <1>3, SMT DEF FollowedUp
<1>8. WaitsAfter(r, x, t, cut, q[1].seg.n)
    BY <1>5, <1>6, <1>7, Zenon DEF WaitsAfter
<1>9. \A i \in 1..Len(r) : On(r, i, x, t) /\ r[i].seg.n = q[1].seg.n + 1 => r[i].seg.start = q[1].seg.end
    BY <1>4, Zenon DEF GoesBefore
<1>10. QED
    BY <1>3, <1>7, <1>8, <1>9, Zenon DEF r, FollowedUp, GoesOn

\* What waits for one sink and track still does when something else is taken.
LEMMA WaitsTail ==
    ASSUME NEW q \in Seq(Event), q # <<>>, NEW x, NEW t, NEW cut, ~On(q, 1, x, t)
    PROVE  /\ \A n : WaitsAfter(q, x, t, cut, n) => WaitsAfter(Tail(q), x, t, cut, n)
           /\ \A end, l : GoesOn(q, x, t, cut, end, l) => GoesOn(Tail(q), x, t, cut, end, l)
<1> DEFINE r == Tail(q)
<1>1. /\ \A i \in 1..Len(r) : i + 1 \in 1..Len(q) /\ r[i] = q[i + 1] /\ (On(r, i, x, t) <=> On(q, i + 1, x, t))
      /\ \A i \in 1..Len(q) : i # 1 =>
            i - 1 \in 1..Len(r) /\ r[i - 1] = q[i] /\ (On(r, i - 1, x, t) <=> On(q, i, x, t))
    BY TailIs, Zenon
<1> HIDE DEF r
<1>2. ASSUME NEW n, WaitsAfter(q, x, t, cut, n) PROVE WaitsAfter(r, x, t, cut, n)
  <2>1. \A i \in 1..Len(r) : On(r, i, x, t) => r[i].seg.n > n
        BY <1>1, <1>2, Zenon DEF WaitsAfter
  <2>2. ASSUME NEW m \in (n + 1)..cut
        PROVE  \E j \in 1..Len(r) : On(r, j, x, t) /\ r[j].seg.n = m
    <3>1. PICK j \in 1..Len(q) : On(q, j, x, t) /\ q[j].seg.n = m
        BY <2>2, <1>2, Zenon DEF WaitsAfter
    <3>2. j # 1
        BY <3>1, Zenon
    <3>3. QED
        BY <3>1, <3>2, <1>1, Zenon
  <2>3. QED
        BY <1>2, <2>1, <2>2, Zenon DEF WaitsAfter
<1>3. ASSUME NEW end, NEW l, GoesOn(q, x, t, cut, end, l) PROVE GoesOn(r, x, t, cut, end, l)
  <2>1. WaitsAfter(r, x, t, cut, l.n)
        BY <1>2, <1>3, Zenon DEF GoesOn
  <2>2. \A i \in 1..Len(r) : On(r, i, x, t) /\ r[i].seg.n = l.n + 1 => r[i].seg.start = l.end
    <3>1. SUFFICES ASSUME NEW i \in 1..Len(r), On(r, i, x, t), r[i].seg.n = l.n + 1
                   PROVE  r[i].seg.start = l.end
        BY Zenon
    <3>2. i + 1 \in 1..Len(q) /\ r[i] = q[i + 1] /\ On(q, i + 1, x, t)
        BY <3>1, <1>1, Zenon
    <3>3. QED
        BY <3>1, <3>2, <1>3, Zenon DEF GoesOn
  <2>3. QED
        BY <1>3, <2>1, <2>2, Zenon DEF GoesOn
<1>4. QED
    BY <1>2, <1>3, Zenon DEF r

\* Something else that is put behind the queue changes nothing for a sink and track.
LEMMA NoneNewKeeps ==
    ASSUME NEW q \in Seq(Event), NEW r \in Seq(Event), NEW x, NEW t, Extends(q, r), NoneNew(q, r, x, t)
    PROVE  /\ \A cut, end : InOrder(q, x, t, cut, end) => InOrder(r, x, t, cut, end)
           /\ \A cut, n : WaitsAfter(q, x, t, cut, n) => WaitsAfter(r, x, t, cut, n)
           /\ \A cut, end, l : GoesOn(q, x, t, cut, end, l) => GoesOn(r, x, t, cut, end, l)
<1>1. /\ \A i \in 1..Len(q) : i \in 1..Len(r) /\ r[i] = q[i]
      /\ \A i \in 1..Len(r) : i \in 1..Len(q) \/ i \in (Len(q) + 1)..Len(r)
    BY SMT DEF Extends
<1>2. /\ \A i \in 1..Len(q) : On(r, i, x, t) <=> On(q, i, x, t)
      /\ \A i \in 1..Len(r) : On(r, i, x, t) => i \in 1..Len(q) /\ On(q, i, x, t)
    BY <1>1, Zenon DEF On, NoneNew
<1>3. ASSUME NEW cut, NEW end, InOrder(q, x, t, cut, end) PROVE InOrder(r, x, t, cut, end)
  <2>1. ASSUME NEW i \in 1..Len(r), On(r, i, x, t) PROVE FollowedUp(r, i, x, t, cut, end)
    <3>1. i \in 1..Len(q) /\ On(q, i, x, t) /\ r[i] = q[i]
        BY <1>1, <1>2, <2>1, Zenon
    <3>2. FollowedUp(q, i, x, t, cut, end)
        BY <3>1, <1>3, Zenon DEF InOrder
    <3>3. QED
        BY <3>1, <3>2, <1>1, <1>2, Zenon DEF FollowedUp
  <2>2. ASSUME NEW i \in 1..Len(r), NEW j \in 1..Len(r), On(r, i, x, t), On(r, j, x, t), i < j
        PROVE  GoesBefore(r, i, j)
    <3>1. /\ i \in 1..Len(q) /\ On(q, i, x, t) /\ r[i] = q[i]
          /\ j \in 1..Len(q) /\ On(q, j, x, t) /\ r[j] = q[j]
        BY <1>1, <1>2, <2>2, Zenon
    <3>2. GoesBefore(q, i, j)
        BY <3>1, <2>2, <1>3, Zenon DEF InOrder
    <3>3. QED
        BY <3>1, <3>2, Zenon DEF GoesBefore
  <2>3. QED
        BY <2>1, <2>2, Zenon DEF InOrder
<1>4. ASSUME NEW cut, NEW n, WaitsAfter(q, x, t, cut, n) PROVE WaitsAfter(r, x, t, cut, n)
    BY <1>1, <1>2, <1>4, Zenon DEF WaitsAfter
<1>5. ASSUME NEW cut, NEW end, NEW l, GoesOn(q, x, t, cut, end, l) PROVE GoesOn(r, x, t, cut, end, l)
    BY <1>1, <1>2, <1>4, <1>5, Zenon DEF GoesOn
<1>6. QED
    BY <1>3, <1>4, <1>5, Zenon

\* The segment that was just cut is put behind the queue.
LEMMA NewKeeps ==
    ASSUME NEW q \in Seq(Event), NEW r \in Seq(Event), NEW x, NEW t, Extends(q, r),
           NEW k \in (Len(q) + 1)..Len(r), On(r, k, x, t),
           \A i \in (Len(q) + 1)..Len(r) : On(r, i, x, t) => i = k,
           NEW cut \in Nat, NEW end, r[k].seg.n = cut + 1, cut > 0 => r[k].seg.start = end
    PROVE  /\ InOrder(q, x, t, cut, end) => InOrder(r, x, t, cut + 1, r[k].seg.end)
           /\ \A n \in Nat : WaitsAfter(q, x, t, cut, n) => WaitsAfter(r, x, t, cut + 1, n)
           /\ \A l : GoesOn(q, x, t, cut, end, l) => GoesOn(r, x, t, cut + 1, r[k].seg.end, l)
<1>0. Len(q) \in Nat /\ Len(r) \in Nat
    OBVIOUS
<1>1. /\ \A i \in 1..Len(q) : i \in 1..Len(r) /\ r[i] = q[i] /\ i < k
      /\ \A i \in 1..Len(r) : i \in 1..Len(q) \/ i \in (Len(q) + 1)..Len(r)
      /\ k \in 1..Len(r)
    BY SMT DEF Extends
<1>2. /\ \A i \in 1..Len(q) : On(r, i, x, t) <=> On(q, i, x, t)
      /\ \A i \in 1..Len(r) : On(r, i, x, t) => i = k \/ (i \in 1..Len(q) /\ On(q, i, x, t) /\ r[i] = q[i])
    BY <1>1, Zenon DEF On
<1>3. ASSUME NEW n \in Nat, n < cut + 1,
             \A m \in (n + 1)..cut : \E j \in 1..Len(q) : On(q, j, x, t) /\ q[j].seg.n = m
      PROVE  \A m \in (n + 1)..(cut + 1) : \E j \in 1..Len(r) : On(r, j, x, t) /\ r[j].seg.n = m
  <2>1. SUFFICES ASSUME NEW m \in (n + 1)..(cut + 1)
                 PROVE  \E j \in 1..Len(r) : On(r, j, x, t) /\ r[j].seg.n = m
        BY Zenon
  <2>2. CASE m = cut + 1
        BY <2>2, <1>1, Zenon
  <2>3. CASE m \in (n + 1)..cut
        BY <2>3, <1>3, <1>1, <1>2, Zenon
  <2>4. QED
        BY <2>2, <2>3, SMT
<1>4. ASSUME InOrder(q, x, t, cut, end) PROVE InOrder(r, x, t, cut + 1, r[k].seg.end)
  <2>1. ASSUME NEW i \in 1..Len(r), On(r, i, x, t)
        PROVE  FollowedUp(r, i, x, t, cut + 1, r[k].seg.end)
    <3>1. CASE i = k
      <4>1. r[k].seg.n \in 1..(cut + 1) /\ (r[k].seg.n + 1)..(cut + 1) = {}
            BY SMT
      <4>2. QED
            BY <4>1, <3>1, Zenon DEF FollowedUp
    <3>2. CASE i \in 1..Len(q) /\ On(q, i, x, t) /\ r[i] = q[i]
      <4>1. FollowedUp(q, i, x, t, cut, end)
            BY <3>2, <1>4, Zenon DEF InOrder
      <4>2. r[i].seg.n \in Nat /\ r[i].seg.n < cut + 1 /\ r[i].seg.n \in 1..(cut + 1) /\ r[i].seg.n # cut + 1
            BY <4>1, <3>2, BelowNext, Zenon DEF FollowedUp
      <4>3. \A m \in (r[i].seg.n + 1)..cut : \E j \in 1..Len(q) : On(q, j, x, t) /\ q[j].seg.n = m
            BY <4>1, <3>2, Zenon DEF FollowedUp
      <4>4. QED
            BY <4>2, <4>3, <1>3, Zenon DEF FollowedUp
    <3>3. QED
        BY <3>1, <3>2, <1>2, <2>1, Zenon
  <2>2. ASSUME NEW i \in 1..Len(r), NEW j \in 1..Len(r), On(r, i, x, t), On(r, j, x, t), i < j
        PROVE  GoesBefore(r, i, j)
    <3>1. i \in 1..Len(q) /\ On(q, i, x, t) /\ r[i] = q[i]
      <4>1. i # k \/ j \in 1..Len(q)
            BY <1>2, <2>2, SMT
      <4>2. QED
            BY <4>1, <1>1, <1>2, <2>2, SMT
    <3>2. CASE j = k
      <4>1. FollowedUp(q, i, x, t, cut, end)
            BY <3>1, <1>4, Zenon DEF InOrder
      <4>2. r[i].seg.n \in 1..cut /\ (r[i].seg.n = cut => r[i].seg.end = end)
            BY <4>1, <3>1, Zenon DEF FollowedUp
      <4>3. r[i].seg.n < cut + 1 /\ (cut + 1 = r[i].seg.n + 1 => cut > 0 /\ r[i].seg.n = cut)
            BY <4>2, BelowNext, Zenon
      <4>4. QED
            BY <4>2, <4>3, <3>2, Zenon DEF GoesBefore
    <3>3. CASE j \in 1..Len(q) /\ On(q, j, x, t) /\ r[j] = q[j]
      <4>1. GoesBefore(q, i, j)
            BY <3>1, <3>3, <2>2, <1>4, Zenon DEF InOrder
      <4>2. QED
            BY <3>1, <3>3, <4>1, Zenon DEF GoesBefore
    <3>4. QED
        BY <3>2, <3>3, <1>2, <2>2, Zenon
  <2>3. QED
        BY <2>1, <2>2, Zenon DEF InOrder
<1>5. ASSUME NEW n \in Nat, WaitsAfter(q, x, t, cut, n) PROVE WaitsAfter(r, x, t, cut + 1, n)
  <2>1. n \in 0..cut
        BY <1>5, Zenon DEF WaitsAfter
  <2>2. n < cut + 1 /\ n \in 0..(cut + 1) /\ r[k].seg.n > n
        BY <2>1, SMT
  <2>3. \A i \in 1..Len(r) : On(r, i, x, t) => r[i].seg.n > n
        BY <2>2, <1>2, <1>5, Zenon DEF WaitsAfter
  <2>4. \A m \in (n + 1)..cut : \E j \in 1..Len(q) : On(q, j, x, t) /\ q[j].seg.n = m
        BY <1>5, Zenon DEF WaitsAfter
  <2>5. QED
        BY <1>3, <2>2, <2>3, <2>4, Zenon DEF WaitsAfter
<1>6. ASSUME NEW l, GoesOn(q, x, t, cut, end, l) PROVE GoesOn(r, x, t, cut + 1, r[k].seg.end, l)
  <2>1. l.n \in 1..cut
        BY <1>6, Zenon DEF GoesOn
  <2>2. l.n \in Nat /\ l.n \in 1..(cut + 1) /\ l.n # cut + 1 /\ (cut + 1 = l.n + 1 => l.n = cut /\ cut > 0)
        BY <2>1, BelowNext, SMT
  <2>3. WaitsAfter(r, x, t, cut + 1, l.n)
        BY <1>5, <1>6, <2>2, Zenon DEF GoesOn
  <2>4. r[k].seg.n = l.n + 1 => r[k].seg.start = l.end
        BY <2>2, <1>6, Zenon DEF GoesOn
  <2>5. \A i \in 1..Len(r) : On(r, i, x, t) /\ r[i].seg.n = l.n + 1 => r[i].seg.start = l.end
        BY <2>4, <1>2, <1>6, Zenon DEF GoesOn
  <2>6. QED
        BY <2>2, <2>3, <2>5, Zenon DEF GoesOn
<1>7. QED
    BY <1>4, <1>5, <1>6, Zenon

\* What is new in r is this, for sinks of the source, and one thing is for x.
AllNew(q, r, k, t, s) ==
    \A i \in (Len(q) + 1)..Len(r) : r[i].kind = k /\ r[i].track = t /\ r[i].seg = s /\ r[i].to \in sinks_

OneNew(q, r, x) ==
    \E i \in (Len(q) + 1)..Len(r) : r[i].to = x /\ \A j \in (Len(q) + 1)..Len(r) : r[j].to = x => j = i

\* M4sMediaSource posts one thing to each of its sinks.
LEMMA ToSinksIs ==
    ASSUME posted \in Seq(Event), sinks_ \subseteq Sink,
           NEW k \in {"init", "seg"}, NEW t \in Track, NEW s \in Piece
    PROVE  /\ ToSinks(k, t, s) \in Seq(Event) /\ Extends(posted, ToSinks(k, t, s))
           /\ AllNew(posted, ToSinks(k, t, s), k, t, s)
           /\ \A x \in sinks_ : OneNew(posted, ToSinks(k, t, s), x)
<1> DEFINE e(x) == [to |-> x, kind |-> k, track |-> t, seg |-> s]
           q == Post(posted, "mpd", k, t, s)
           r == ToSinks(k, t, s)
<1>0. "mpd" \in Sink /\ "rec" \in Sink /\ (\A x \in sinks_ : x = "mpd" \/ x = "rec")
    BY Zenon DEF Sink
<1>1. \A x : e(x).to = x /\ e(x).kind = k /\ e(x).track = t /\ e(x).seg = s
    BY Zenon
<1>2. CASE "mpd" \in sinks_ /\ "rec" \in sinks_
  <2>1. r = Post(q, "rec", k, t, s)
        BY <1>2, Zenon DEF ToSinks
  <2>2. q \in Seq(Event) /\ Len(q) = Len(posted) + 1 /\ Extends(posted, q) /\ q[Len(posted) + 1] = e("mpd")
        BY <1>0, PostIs
  <2>3. r \in Seq(Event) /\ Len(r) = Len(q) + 1 /\ Extends(q, r) /\ r[Len(q) + 1] = e("rec")
        BY <2>1, <2>2, <1>0, PostIs
  <2> HIDE DEF e, q, r
  <2>4. /\ Extends(posted, r) /\ (Len(posted) + 1)..Len(r) = {Len(posted) + 1, Len(posted) + 2}
        /\ r[Len(posted) + 1] = e("mpd") /\ r[Len(posted) + 2] = e("rec")
        BY <2>2, <2>3, SMT DEF Extends
  <2>5. Len(posted) + 1 # Len(posted) + 2
        BY SMT
  <2>6. AllNew(posted, r, k, t, s)
        BY <1>1, <1>2, <2>4, Zenon DEF AllNew
  <2>7. OneNew(posted, r, "mpd") /\ OneNew(posted, r, "rec")
    <3>1. r[Len(posted) + 1].to = "mpd" /\ r[Len(posted) + 2].to = "rec"
        BY <1>1, <2>4, Zenon
    <3>2. OneNew(posted, r, "mpd")
        BY <3>1, <2>4, Zenon DEF OneNew
    <3>3. OneNew(posted, r, "rec")
        BY <3>1, <2>4, Zenon DEF OneNew
    <3>4. QED
        BY <3>2, <3>3, Zenon
  <2>8. QED
        BY <1>0, <2>3, <2>4, <2>6, <2>7, Zenon DEF r
<1>3. CASE "mpd" \in sinks_ /\ "rec" \notin sinks_
  <2>1. r = q
        BY <1>3, Zenon DEF ToSinks
  <2>2. q \in Seq(Event) /\ Len(q) = Len(posted) + 1 /\ Extends(posted, q) /\ q[Len(posted) + 1] = e("mpd")
        BY <1>0, PostIs
  <2> HIDE DEF e, q, r
  <2>3. (Len(posted) + 1)..Len(r) = {Len(posted) + 1}
        BY <2>1, <2>2, SMT
  <2>4. AllNew(posted, r, k, t, s)
        BY <1>1, <1>3, <2>1, <2>2, <2>3, Zenon DEF AllNew
  <2>5. OneNew(posted, r, "mpd")
        BY <1>1, <2>1, <2>2, <2>3, Zenon DEF OneNew
  <2>6. QED
        BY <1>0, <1>3, <2>1, <2>2, <2>4, <2>5, Zenon DEF r
<1>4. CASE "mpd" \notin sinks_ /\ "rec" \in sinks_
  <2>1. r = Post(posted, "rec", k, t, s)
        BY <1>4, Zenon DEF ToSinks
  <2>2. r \in Seq(Event) /\ Len(r) = Len(posted) + 1 /\ Extends(posted, r) /\ r[Len(posted) + 1] = e("rec")
        BY <2>1, <1>0, PostIs
  <2> HIDE DEF e, q, r
  <2>3. (Len(posted) + 1)..Len(r) = {Len(posted) + 1}
        BY <2>2, SMT
  <2>4. AllNew(posted, r, k, t, s)
        BY <1>1, <1>4, <2>2, <2>3, Zenon DEF AllNew
  <2>5. OneNew(posted, r, "rec")
        BY <1>1, <2>2, <2>3, Zenon DEF OneNew
  <2>6. QED
        BY <1>0, <1>4, <2>2, <2>4, <2>5, Zenon DEF r
<1>5. CASE "mpd" \notin sinks_ /\ "rec" \notin sinks_
  <2>1. r = posted
        BY <1>5, Zenon DEF ToSinks
  <2> HIDE DEF e, q, r
  <2>2. Extends(posted, r) /\ (Len(posted) + 1)..Len(r) = {}
        BY <2>1, SMT DEF Extends
  <2>3. QED
        BY <1>0, <1>5, <2>1, <2>2, Zenon DEF r, AllNew
<1>6. QED
    BY <1>2, <1>3, <1>4, <1>5, Zenon

-----------------------------------------------------------------------------
(* Steps of the bridge.                                                    *)

Rest == QueueInv /\ WindowInv /\ ManifestInv /\ ViewerInv /\ RecorderInv /\ RecordedManifest

\* A step keeps the order of what waits for a sink, and what the sink has goes on with it.
Carries(x, t) ==
    /\ InOrder(posted', x, t, Cut(t)', seg_'[t].end)
    /\ \A n \in Nat : WaitsAfter(posted, x, t, Cut(t), n) => WaitsAfter(posted', x, t, Cut(t)', n)
    /\ \A l : GoesOn(posted, x, t, Cut(t), seg_[t].end, l) => GoesOn(posted', x, t, Cut(t)', seg_'[t].end, l)

\* A step of the bridge keeps what the sinks have in order.
LEMMA Grows ==
    ASSUME Rest, UNCHANGED <<sinks_, mpdVars, recVars>>,
           posted' \in Seq(Event), Extends(posted, posted'),
           \A i \in (Len(posted) + 1)..Len(posted') : posted'[i].to \in sinks_,
           \A x \in sinks_, t \in Track : Carries(x, t)
    PROVE  Rest'
<1>0. UNCHANGED <<sinks_, mpd_init_, segments_, mpd_, viewer, rec, rec_init_, m4s_segs_, files, failures, manifest>>
    BY Zenon DEF mpdVars, recVars
<1>1. QueueInv'
  <2>1. \A i \in 1..Len(posted') : (i \in 1..Len(posted) /\ posted'[i] = posted[i]) \/ posted'[i].to \in sinks_
    <3>1. \A i \in 1..Len(posted') : i \in 1..Len(posted) \/ i \in (Len(posted) + 1)..Len(posted')
        BY SMT DEF Extends, Rest, QueueInv
    <3>2. QED
        BY <3>1, Zenon DEF Extends
  <2>2. "mpd" \notin sinks_ => \A i \in 1..Len(posted') : posted'[i].to # "mpd"
        BY <2>1, Zenon DEF Rest, QueueInv
  <2>3. rec.state = "none" => \A i \in 1..Len(posted') : posted'[i].to # "rec"
        BY <2>1, Zenon DEF Rest, QueueInv, RecorderInv
  <2>4. \A x \in sinks_, t \in Track : InOrder(posted', x, t, Cut(t)', seg_'[t].end)
        BY Zenon DEF Carries
  <2>5. QED
        BY <1>0, <2>2, <2>3, <2>4, Zenon DEF Rest, QueueInv
<1>2. WindowInv'
  <2>1. ASSUME NEW t \in Track, segments_[t] # <<>>
        PROVE  GoesOn(posted', "mpd", t, Cut(t)', seg_'[t].end, LastPiece(segments_[t]))
    <3>1. "mpd" \in sinks_
        BY <2>1, Zenon DEF Rest, WindowInv, ByTrack
    <3>2. GoesOn(posted, "mpd", t, Cut(t), seg_[t].end, LastPiece(segments_[t]))
        BY <2>1, Zenon DEF Rest, WindowInv
    <3>3. QED
        BY <3>1, <3>2, Zenon DEF Carries
  <2>2. QED
        BY <1>0, <2>1, Zenon DEF Rest, WindowInv, LastPiece
<1>3. ManifestInv' /\ ViewerInv' /\ RecordedManifest'
    BY <1>0, Zenon DEF Rest, ManifestInv, ViewerInv, LastPiece, RecordedManifest
<1>4. RecorderInv'
  <2>1. ASSUME rec.state = "on", ~rec.late, failures = 0, NEW t \in Track
        PROVE  WaitsAfter(posted', "rec", t, Cut(t)', Len(m4s_segs_[t]))
    <3>1. PICK S : m4s_segs_[t] \in Seq(S)
        BY Zenon DEF Rest, RecorderInv
    <3>2. Len(m4s_segs_[t]) \in Nat
        BY <3>1, SMT
    <3>3. "rec" \in sinks_ /\ WaitsAfter(posted, "rec", t, Cut(t), Len(m4s_segs_[t]))
        BY <2>1, Zenon DEF Rest, RecorderInv
    <3>4. QED
        BY <3>2, <3>3, Zenon DEF Carries
  <2>2. QED
        BY <1>0, <2>1, Zenon DEF Rest, RecorderInv
<1>5. QED
    BY <1>1, <1>2, <1>3, <1>4, Zenon DEF Rest

\* Nothing is cut, and at most an init segment is posted.
LEMMA QuietStep ==
    ASSUME Rest, UNCHANGED <<sinks_, mpdVars, recVars, seq_no_, seg_>>,
           \/ posted' = posted
           \/ \E t \in Track : posted' = ToSinks("init", t, NoSeg)
    PROVE  Rest'
<1>0. NoSeg \in Piece /\ posted \in Seq(Event) /\ sinks_ \subseteq Sink
    BY Zenon DEF NoSeg, Piece, Rest, QueueInv
<1>1. /\ posted' \in Seq(Event) /\ Extends(posted, posted')
      /\ \A i \in (Len(posted) + 1)..Len(posted') : posted'[i].kind = "init" /\ posted'[i].to \in sinks_
  <2>1. CASE posted' = posted
    <3>1. Len(posted) \in Nat /\ (Len(posted) + 1)..Len(posted) = {} /\ Len(posted) <= Len(posted)
        BY <1>0, SMT
    <3>2. QED
        BY <2>1, <1>0, <3>1, Zenon DEF Extends
  <2>2. CASE \E t \in Track : posted' = ToSinks("init", t, NoSeg)
    <3>1. PICK t \in Track : posted' = ToSinks("init", t, NoSeg)
        BY <2>2, Zenon
    <3>2. /\ ToSinks("init", t, NoSeg) \in Seq(Event) /\ Extends(posted, ToSinks("init", t, NoSeg))
          /\ AllNew(posted, ToSinks("init", t, NoSeg), "init", t, NoSeg)
        BY <1>0, ToSinksIs, Zenon
    <3>3. QED
        BY <3>1, <3>2, Zenon DEF AllNew
  <2>3. QED
        BY <2>1, <2>2, Zenon
<1>2. ASSUME NEW x \in sinks_, NEW t \in Track PROVE Carries(x, t)
  <2>1. NoneNew(posted, posted', x, t)
        BY <1>1, DistinctNames, Zenon DEF NoneNew, On
  <2>2. InOrder(posted, x, t, Cut(t), seg_[t].end)
        BY Zenon DEF Rest, QueueInv
  <2>3. Cut(t)' = Cut(t) /\ seg_'[t] = seg_[t]
        BY Zenon DEF Cut
  <2>4. /\ \A cut, end : InOrder(posted, x, t, cut, end) => InOrder(posted', x, t, cut, end)
        /\ \A cut, n : WaitsAfter(posted, x, t, cut, n) => WaitsAfter(posted', x, t, cut, n)
        /\ \A cut, end, l : GoesOn(posted, x, t, cut, end, l) => GoesOn(posted', x, t, cut, end, l)
        BY <1>0, <1>1, <2>1, NoneNewKeeps, Zenon
  <2>5. QED
        BY <2>2, <2>3, <2>4, Zenon DEF Carries
<1>3. QED
    BY <1>1, <1>2, Grows, Zenon

\* A segment is cut and posted.
LEMMA CutStep ==
    ASSUME CutInv, Rest, UNCHANGED <<sinks_, mpdVars, recVars>>,
           NEW t \in Track, NEW s \in Piece, s.n = seq_no_[t], s.start = pkts_[t][1].ts,
           seq_no_' = [seq_no_ EXCEPT ![t] = @ + 1],
           seg_'[t].end = s.end, \A u \in Track : u # t => seg_'[u] = seg_[u],
           posted' = ToSinks("seg", t, s)
    PROVE  Rest'
<1>0. posted \in Seq(Event) /\ sinks_ \subseteq Sink
    BY Zenon DEF Rest, QueueInv
<1>1. /\ posted' \in Seq(Event) /\ Extends(posted, posted') /\ AllNew(posted, posted', "seg", t, s)
      /\ \A x \in sinks_ : OneNew(posted, posted', x)
    BY <1>0, ToSinksIs, Zenon
<1>2. Cut(t) \in Nat /\ Cut(t)' = Cut(t) + 1 /\ s.n = Cut(t) + 1
    BY SMT DEF CutInv, Cut
<1>3. Cut(t) > 0 => s.start = seg_[t].end
    BY Zenon DEF CutInv
<1>4. ASSUME NEW x \in sinks_ PROVE Carries(x, t)
  <2>1. PICK k \in (Len(posted) + 1)..Len(posted') :
            posted'[k].to = x /\ \A j \in (Len(posted) + 1)..Len(posted') : posted'[j].to = x => j = k
        BY <1>1, <1>4, Zenon DEF OneNew
  <2>2. /\ posted'[k].seg = s /\ posted'[k].kind = "seg" /\ posted'[k].track = t
        /\ \A i \in (Len(posted) + 1)..Len(posted') : On(posted', i, x, t) => i = k
        BY <1>1, <2>1, Zenon DEF AllNew, On
  <2>3. k \in 1..Len(posted')
        BY <1>0, <1>1, SMT
  <2>4. On(posted', k, x, t)
        BY <2>1, <2>2, <2>3, Zenon DEF On
  <2>5. InOrder(posted, x, t, Cut(t), seg_[t].end)
        BY Zenon DEF Rest, QueueInv
  <2>6. posted'[k].seg.n = Cut(t) + 1 /\ (Cut(t) > 0 => posted'[k].seg.start = seg_[t].end)
        BY <1>2, <1>3, <2>2, Zenon
  <2>7. /\ InOrder(posted, x, t, Cut(t), seg_[t].end) => InOrder(posted', x, t, Cut(t) + 1, posted'[k].seg.end)
        /\ \A n \in Nat : WaitsAfter(posted, x, t, Cut(t), n) => WaitsAfter(posted', x, t, Cut(t) + 1, n)
        /\ \A l : GoesOn(posted, x, t, Cut(t), seg_[t].end, l)
                    => GoesOn(posted', x, t, Cut(t) + 1, posted'[k].seg.end, l)
        BY <1>0, <1>1, <1>2, <2>2, <2>4, <2>6, NewKeeps, ZenonT(30)
  <2>8. QED
        BY <1>2, <2>2, <2>5, <2>7, Zenon DEF Carries
<1>5. ASSUME NEW x \in sinks_, NEW u \in Track, u # t PROVE Carries(x, u)
  <2>1. NoneNew(posted, posted', x, u)
        BY <1>1, <1>5, Zenon DEF NoneNew, On, AllNew
  <2>2. InOrder(posted, x, u, Cut(u), seg_[u].end)
        BY Zenon DEF Rest, QueueInv
  <2>3. Cut(u)' = Cut(u) /\ seg_'[u] = seg_[u]
    <3>1. seq_no_'[u] = seq_no_[u]
        BY <1>5, Zenon DEF CutInv
    <3>2. QED
        BY <1>5, <3>1, Zenon DEF Cut
  <2>4. /\ \A cut, end : InOrder(posted, x, u, cut, end) => InOrder(posted', x, u, cut, end)
        /\ \A cut, n : WaitsAfter(posted, x, u, cut, n) => WaitsAfter(posted', x, u, cut, n)
        /\ \A cut, end, l : GoesOn(posted, x, u, cut, end, l) => GoesOn(posted', x, u, cut, end, l)
        BY <1>0, <1>1, <2>1, NoneNewKeeps, Zenon
  <2>5. QED
        BY <2>2, <2>3, <2>4, Zenon DEF Carries
<1>6. \A i \in (Len(posted) + 1)..Len(posted') : posted'[i].to \in sinks_
    BY <1>1, Zenon DEF AllNew
<1>7. \A x \in sinks_, u \in Track : Carries(x, u)
    BY <1>4, <1>5, Zenon
<1>8. QED
    BY <1>1, <1>6, <1>7, Grows, Zenon

\* What a segment says of itself.
LEMMA ReapIs ==
    ASSUME NEW ps, NEW dts, NEW n
    PROVE  /\ reap_seg(ps, dts, n).n = n /\ reap_seg(ps, dts, n).start = ps[1].ts
           /\ reap_seg(ps, dts, n).end = dts
BY Zenon DEF reap_seg

\* A frame ends a segment, or is kept with the others.
Reaped(t, p) ==
    /\ pkts_' = [pkts_ EXCEPT ![t] = <<p>>]
    /\ seg_' = [seg_ EXCEPT ![t] = reap_seg(pkts_[t], p.ts, seq_no_[t])]
    /\ seq_no_' = [seq_no_ EXCEPT ![t] = @ + 1]
    /\ posted' = ToSinks("seg", t, [n |-> reap_seg(pkts_[t], p.ts, seq_no_[t]).n,
                                    start |-> reap_seg(pkts_[t], p.ts, seq_no_[t]).start,
                                    end |-> reap_seg(pkts_[t], p.ts, seq_no_[t]).end])

Joined(t, p) == pkts_' = [pkts_ EXCEPT ![t] = Append(@, p)] /\ UNCHANGED <<seg_, seq_no_, posted>>

\* What the bridge's other variables do when a frame comes.
FrameStep(t) ==
    /\ sent[t] < Len(FrameTimes[t]) /\ sent' = [sent EXCEPT ![t] = @ + 1]
    /\ codec_' \in [Track -> VideoCodecs \cup AudioCodecs \cup {"none"}]
    /\ metadata_ => codec_' = stream
    /\ UNCHANGED <<stream, metadata_, sinks_, mpdVars, recVars>>

\* A frame that goes into a segment.
LEMMA MuxStep ==
    ASSUME CutInv, Rest, NEW t \in Track, NEW p \in Packet, FrameStep(t), UNCHANGED crashed,
           (Len(pkts_[t]) >= 2 /\ Reaped(t, p)) \/ Joined(t, p)
    PROVE  CutInv' /\ Rest'
<1>0. /\ seq_no_[t] \in Nat /\ p.ts \in Nat /\ pkts_[t] \in Seq(Packet) /\ sent[t] \in Nat
      /\ DOMAIN seg_ = Track /\ seq_no_ \in [Track -> Nat \ {0}] /\ pkts_ \in [Track -> Seq(Packet)]
    BY Zenon DEF CutInv, Packet
<1>1. /\ stream' \in [Track -> VideoCodecs \cup AudioCodecs]
      /\ codec_' \in [Track -> VideoCodecs \cup AudioCodecs \cup {"none"}]
      /\ metadata_' => codec_' = stream'
      /\ crashed' => \E u \in Track : stream'[u] = "none"
    BY Zenon DEF CutInv, FrameStep
<1>2. sent' \in [Track -> Nat] /\ \A u \in Track : sent'[u] <= Len(FrameTimes[u]) /\ sent[u] <= sent'[u]
    BY SMT DEF CutInv, FrameStep
<1>u. UNCHANGED <<sinks_, mpdVars, recVars>>
    BY Zenon DEF FrameStep
<1>s. sent'[t] = sent[t] + 1
    BY Zenon DEF CutInv, FrameStep
<1>3. CASE Len(pkts_[t]) >= 2 /\ Reaped(t, p)
  <2> DEFINE s == reap_seg(pkts_[t], p.ts, seq_no_[t])
             e == [n |-> s.n, start |-> s.start, end |-> s.end]
  <2>1. s.n = seq_no_[t] /\ s.start = pkts_[t][1].ts /\ s.end = p.ts
        BY ReapIs, SMT
  <2>2. pkts_[t][1] \in Packet
        BY <1>0, <1>3, SMT
  <2>3. pkts_[t][1].ts \in Nat
        BY <2>2, Zenon DEF Packet
  <2>4. e \in Piece /\ e.n = s.n /\ e.start = s.start /\ e.end = s.end
        BY <2>1, <2>3, <1>0, Zenon DEF Piece
  <2>5. /\ seg_' = [seg_ EXCEPT ![t] = s] /\ posted' = ToSinks("seg", t, e)
        /\ seq_no_' = [seq_no_ EXCEPT ![t] = @ + 1] /\ pkts_' = [pkts_ EXCEPT ![t] = <<p>>]
        BY <1>3, Zenon DEF Reaped
  <2> HIDE DEF s, e
  <2>6. /\ DOMAIN seg_' = Track /\ seg_'[t] = s /\ \A u \in Track : u # t => seg_'[u] = seg_[u]
        BY <2>5, <1>0, Zenon
  <2>7. /\ seq_no_' \in [Track -> Nat \ {0}] /\ seq_no_'[t] = seq_no_[t] + 1
        /\ \A u \in Track : u # t => seq_no_'[u] = seq_no_[u]
        BY <2>5, <1>0, SMT
  <2>8. /\ pkts_' \in [Track -> Seq(Packet)] /\ pkts_'[t] = <<p>>
        /\ \A u \in Track : u # t => pkts_'[u] = pkts_[u]
    <3>1. <<p>> \in Seq(Packet)
        BY SMT
    <3>2. QED
        BY <3>1, <2>5, <1>0, Zenon
  <2>9. Rest'
        BY <2>1, <2>4, <2>5, <2>6, <1>u, CutStep, ZenonT(30)
  <2>10. ASSUME NEW u \in Track
         PROVE  /\ Cut(u)' <= sent'[u] /\ sent'[u] <= Len(FrameTimes[u])
                /\ seg_'[u].n = Cut(u)' /\ (Cut(u)' = 0 => seg_'[u] = NoSeg)
                /\ Cut(u)' > 0 => pkts_'[u] # <<>> /\ pkts_'[u][1].ts = seg_'[u].end
    <3>1. CASE u = t
      <4>1. Cut(t)' = seq_no_[t] /\ seq_no_[t] = Cut(t) + 1 /\ seq_no_[t] > 0 /\ Cut(t) \in Nat
            BY <2>7, <1>0, SMT DEF Cut
      <4>2. pkts_'[t] # <<>> /\ pkts_'[t][1] = p
            BY <2>8, SMT
      <4>3. Cut(t) <= sent[t]
            BY Zenon DEF CutInv
      <4>4. Cut(t)' <= sent'[t] /\ Cut(t)' # 0
            BY <4>1, <4>3, <1>0, <1>s, SMT
      <4>5. QED
            BY <3>1, <4>1, <4>2, <4>4, <1>2, <2>1, <2>6, Zenon
    <3>2. CASE u # t
      <4>1. Cut(u)' = Cut(u) /\ seg_'[u] = seg_[u] /\ pkts_'[u] = pkts_[u]
            BY <3>2, <2>6, <2>7, <2>8, Zenon DEF Cut
      <4>2. sent'[u] = sent[u]
            BY <3>2, Zenon DEF FrameStep, CutInv
      <4>3. QED
            BY <4>1, <4>2, Zenon DEF CutInv
    <3>3. QED
        BY <3>1, <3>2, Zenon
  <2>11. CutInv'
        BY <1>1, <1>2, <2>6, <2>7, <2>8, <2>10, Zenon DEF CutInv
  <2>12. QED
        BY <2>9, <2>11, Zenon
<1>4. CASE Joined(t, p)
  <2>1. /\ UNCHANGED <<seg_, seq_no_, posted>>
        /\ pkts_' = [pkts_ EXCEPT ![t] = Append(pkts_[t], p)]
        BY <1>4, Zenon DEF Joined
  <2>2. Rest'
        BY <2>1, QuietStep, Zenon DEF FrameStep
  <2>3. /\ Append(pkts_[t], p) \in Seq(Packet) /\ Append(pkts_[t], p) # <<>>
        /\ pkts_[t] # <<>> => Append(pkts_[t], p)[1] = pkts_[t][1]
        BY <1>0, AppendIs, SMT
  <2>4. /\ pkts_' \in [Track -> Seq(Packet)]
        /\ \A u \in Track : pkts_[u] # <<>> => pkts_'[u] # <<>> /\ pkts_'[u][1] = pkts_[u][1]
        BY <2>1, <2>3, <1>0, Zenon
  <2>5. \A u \in Track : Cut(u)' = Cut(u) /\ Cut(u) <= sent[u] /\ Cut(u) \in Nat /\ sent[u] \in Nat
        BY <2>1, SMT DEF Cut, CutInv
  <2>6. \A u \in Track : Cut(u)' <= sent'[u]
        BY <2>5, <1>2, SMT
  <2>7. ASSUME NEW u \in Track
        PROVE  /\ Cut(u)' <= sent'[u] /\ sent'[u] <= Len(FrameTimes[u])
               /\ seg_'[u].n = Cut(u)' /\ (Cut(u)' = 0 => seg_'[u] = NoSeg)
               /\ Cut(u)' > 0 => pkts_'[u] # <<>> /\ pkts_'[u][1].ts = seg_'[u].end
    <3>1. seg_'[u] = seg_[u] /\ Cut(u)' = Cut(u) /\ Cut(u)' <= sent'[u] /\ sent'[u] <= Len(FrameTimes[u])
        BY <1>2, <2>1, <2>5, <2>6, Zenon
    <3>2. /\ seg_[u].n = Cut(u) /\ (Cut(u) = 0 => seg_[u] = NoSeg)
          /\ Cut(u) > 0 => pkts_[u] # <<>> /\ pkts_[u][1].ts = seg_[u].end
        BY Zenon DEF CutInv
    <3>3. QED
        BY <3>1, <3>2, <2>4, Zenon
  <2>8. DOMAIN seg_' = Track /\ seq_no_' \in [Track -> Nat \ {0}]
        BY <2>1, <1>0, Zenon
  <2>9. CutInv'
        BY <1>1, <1>2, <2>4, <2>7, <2>8, Zenon DEF CutInv
  <2>10. QED
        BY <2>2, <2>9
<1>5. QED
    BY <1>3, <1>4, Zenon

\* A step of the bridge that touches no segment.
LEMMA NoCutStep ==
    ASSUME CutInv, Rest, UNCHANGED <<stream, seq_no_, seg_, pkts_, sinks_, mpdVars, recVars>>,
           sent' \in [Track -> Nat],
           \A u \in Track : sent[u] <= sent'[u] /\ sent'[u] <= Len(FrameTimes[u]),
           codec_' \in [Track -> VideoCodecs \cup AudioCodecs \cup {"none"}],
           metadata_' => codec_' = stream,
           crashed' => \E t \in Track : stream[t] = "none",
           \/ posted' = posted
           \/ \E t \in Track : posted' = ToSinks("init", t, NoSeg)
    PROVE  CutInv' /\ Rest'
<1>1. Rest'
    BY QuietStep, Zenon
<1>2. \A u \in Track : Cut(u)' = Cut(u)
    BY Zenon DEF Cut
<1>3. \A u \in Track : Cut(u)' <= sent'[u]
  <2>1. \A u \in Track : Cut(u) \in Nat /\ sent[u] \in Nat /\ sent'[u] \in Nat /\ Cut(u) <= sent[u]
        BY SMT DEF CutInv, Cut
  <2>2. QED
        BY <1>2, <2>1, SMT
<1>4. CutInv'
  <2>1. ASSUME NEW u \in Track
        PROVE  /\ Cut(u)' <= sent'[u] /\ sent'[u] <= Len(FrameTimes[u])
               /\ seg_'[u].n = Cut(u)' /\ (Cut(u)' = 0 => seg_'[u] = NoSeg)
               /\ Cut(u)' > 0 => pkts_'[u] # <<>> /\ pkts_'[u][1].ts = seg_'[u].end
        BY <1>2, <1>3, Zenon DEF CutInv
  <2>2. /\ stream' \in [Track -> VideoCodecs \cup AudioCodecs] /\ seq_no_' \in [Track -> Nat \ {0}]
        /\ pkts_' \in [Track -> Seq(Packet)] /\ DOMAIN seg_' = Track
        /\ metadata_' => codec_' = stream'
        /\ crashed' => \E t \in Track : stream'[t] = "none"
        BY Zenon DEF CutInv
  <2>3. QED
        BY <2>1, <2>2, Zenon DEF CutInv
<1>5. QED
    BY <1>1, <1>4, Zenon

\* Frames that are sent are counted.
LEMMA SentStays ==
    ASSUME CutInv
    PROVE  /\ sent \in [Track -> Nat]
           /\ \A u \in Track : sent[u] <= sent[u] /\ sent[u] <= Len(FrameTimes[u])
           /\ \A t \in Track : Arrives(t) =>
                /\ sent' \in [Track -> Nat]
                /\ \A u \in Track : sent[u] <= sent'[u] /\ sent'[u] <= Len(FrameTimes[u])
<1>1. sent \in [Track -> Nat] /\ \A u \in Track : sent[u] <= Len(FrameTimes[u])
    BY Zenon DEF CutInv
<1>2. \A u \in Track : sent[u] <= sent[u]
    BY <1>1, SMT
<1>3. ASSUME NEW t \in Track, Arrives(t)
      PROVE  /\ sent' \in [Track -> Nat]
             /\ \A u \in Track : sent[u] <= sent'[u] /\ sent'[u] <= Len(FrameTimes[u])
  <2>1. \A u \in Track : Len(FrameTimes[u]) \in Nat
        BY M4sAssumption, SMT
  <2>2. QED
        BY <1>1, <1>3, <2>1, SMT DEF Arrives
<1>4. QED
    BY <1>1, <1>2, <1>3, Zenon

LEMMA MetadataStep ==
    ASSUME CutInv, Rest, on_metadata
    PROVE  CutInv' /\ Rest'
<1>1. /\ UNCHANGED <<stream, seq_no_, seg_, pkts_, sinks_, mpdVars, recVars, sent, crashed, posted>>
      /\ codec_' = stream
    BY Zenon DEF on_metadata, sourceVars
<1>2. codec_' \in [Track -> VideoCodecs \cup AudioCodecs \cup {"none"}]
    BY <1>1, SMT DEF CutInv
<1>3. crashed' => \E t \in Track : stream[t] = "none"
    BY <1>1, Zenon DEF CutInv
<1>4. QED
    BY <1>1, <1>2, <1>3, SentStays, NoCutStep, Zenon

\* The codec of a track becomes the publisher's.
LEMMA CodecIs ==
    ASSUME CutInv, NEW t \in Track
    PROVE  /\ codec_ \in [Track -> VideoCodecs \cup AudioCodecs \cup {"none"}]
           /\ metadata_ => codec_ = stream
           /\ [codec_ EXCEPT ![t] = stream[t]] \in [Track -> VideoCodecs \cup AudioCodecs \cup {"none"}]
           /\ metadata_ => [codec_ EXCEPT ![t] = stream[t]] = stream
<1>1. codec_ \in [Track -> VideoCodecs \cup AudioCodecs \cup {"none"}] /\ (metadata_ => codec_ = stream)
    BY Zenon DEF CutInv
<1>2. stream \in [Track -> VideoCodecs \cup AudioCodecs]
    BY Zenon DEF CutInv
<1>3. QED
    BY <1>1, <1>2, SMT

LEMMA HeaderStep ==
    ASSUME CutInv, Rest, NEW t \in Track, seq_header(t)
    PROVE  CutInv' /\ Rest'
<1>1. /\ UNCHANGED <<stream, seq_no_, seg_, pkts_, sinks_, mpdVars, recVars, sent, crashed, metadata_>>
      /\ codec_' = codec_ \/ codec_' = [codec_ EXCEPT ![t] = stream[t]]
      /\ posted' = posted \/ posted' = ToSinks("init", t, NoSeg)
  <2>1. CASE codec_[t] = "none" /\ t = "audio"
        BY <2>1, Zenon DEF seq_header, Fails
  <2>2. CASE ~(codec_[t] = "none" /\ t = "audio")
    <3>1. generate_init_seg(t) /\ UNCHANGED <<stream, seq_no_, seg_, pkts_, sinks_, mpdVars, recVars, sent, crashed, metadata_>>
          /\ codec_' = [codec_ EXCEPT ![t] = stream[t]]
        BY <2>2, Zenon DEF seq_header
    <3>2. QED
        BY <3>1, Zenon DEF generate_init_seg
  <2>3. QED
        BY <2>1, <2>2, Zenon
<1>2. codec_' \in [Track -> VideoCodecs \cup AudioCodecs \cup {"none"}] /\ (metadata_' => codec_' = stream)
    BY <1>1, CodecIs, Zenon
<1>3. crashed' => \E u \in Track : stream[u] = "none"
    BY <1>1, Zenon DEF CutInv
<1>4. sent' \in [Track -> Nat] /\ \A u \in Track : sent[u] <= sent'[u] /\ sent'[u] <= Len(FrameTimes[u])
    BY <1>1, SentStays, Zenon
<1>5. QED
    BY <1>1, <1>2, <1>3, <1>4, NoCutStep, Zenon

\* The process is lost only with a stream of one track.
LEMMA CrashesIs ==
    ASSUME CutInv, Crashes
    PROVE  \E t \in Track : stream[t] = "none"
BY Zenon DEF CutInv, Crashes, Ready

\* A frame's time and size.
LEMMA PacketIs ==
    ASSUME CutInv, NEW t \in Track, Arrives(t), NEW size \in Nat
    PROVE  [ts |-> Timestamp(t), size |-> size] \in Packet
<1>1. sent[t] + 1 \in 1..Len(FrameTimes[t]) /\ FrameTimes[t] \in Seq(Nat)
  <2>1. sent[t] \in Nat /\ FrameTimes[t] \in Seq(Nat) /\ sent[t] < Len(FrameTimes[t])
        BY M4sAssumption, Zenon DEF Arrives, CutInv
  <2>2. QED
        BY <2>1, SMT
<1>2. Timestamp(t) \in Nat
    BY <1>1, SMT DEF Timestamp
<1>3. QED
    BY <1>2, SMT DEF Packet

\* A frame of the stream ends the bridge, the process or a segment, or joins the others.
LEMMA FrameCases ==
    ASSUME CutInv, Rest, NEW t \in Track, Arrives(t), NEW p \in Packet,
           codec_' \in [Track -> VideoCodecs \cup AudioCodecs \cup {"none"}],
           metadata_ => codec_' = stream,
           UNCHANGED <<stream, sinks_, mpdVars, recVars>>,
           \/ Fails
           \/ Crashes /\ Crash
           \/ UNCHANGED <<metadata_, seq_no_, seg_, pkts_, crashed, posted>>
           \/ /\ (Len(pkts_[t]) >= 2 /\ Reaped(t, p)) \/ Joined(t, p)
              /\ UNCHANGED <<metadata_, crashed>>
    PROVE  CutInv' /\ Rest'
<1>1. sent' \in [Track -> Nat] /\ \A u \in Track : sent[u] <= sent'[u] /\ sent'[u] <= Len(FrameTimes[u])
    BY SentStays, Zenon
<1>2. CASE Fails \/ (Crashes /\ Crash) \/ UNCHANGED <<metadata_, seq_no_, seg_, pkts_, crashed, posted>>
  <2>1. UNCHANGED <<metadata_, seq_no_, seg_, pkts_, posted>>
        BY <1>2, Zenon DEF Fails, Crash
  <2>2. crashed' => \E u \in Track : stream[u] = "none"
    <3>1. CASE crashed' = crashed
        BY <3>1, Zenon DEF CutInv
    <3>2. CASE Crashes
        BY <3>2, CrashesIs, Zenon
    <3>3. QED
        BY <1>2, <3>1, <3>2, Zenon DEF Fails
  <2>3. QED
        BY <1>1, <2>1, <2>2, NoCutStep, Zenon
<1>3. CASE /\ (Len(pkts_[t]) >= 2 /\ Reaped(t, p)) \/ Joined(t, p)
           /\ UNCHANGED <<metadata_, crashed>>
  <2>1. FrameStep(t)
        BY <1>3, Zenon DEF FrameStep, Arrives
  <2>2. QED
        BY <1>3, <2>1, MuxStep, Zenon
<1>4. QED
    BY <1>2, <1>3, Zenon

LEMMA VideoStep ==
    ASSUME CutInv, Rest, NEW is_key \in BOOLEAN, NEW size \in VideoBytes, on_video_packet(is_key, size)
    PROVE  CutInv' /\ Rest'
<1> DEFINE p == [ts |-> Timestamp("video"), size |-> size]
           reaps == Len(pkts_["video"]) >= 2
                        /\ can_reap_mp4(is_key, Duration("video", Timestamp("video")), bytes_["video"])
<1>0. "video" \in Track /\ size \in Nat
    BY M4sAssumption, Zenon DEF Track
<1>1. /\ Arrives("video") /\ codec_' = [codec_ EXCEPT !["video"] = stream["video"]]
      /\ process_h264_packet(is_key, Timestamp("video"), size)
      /\ UNCHANGED <<stream, sinks_, mpdVars, recVars>>
    BY Zenon DEF on_video_packet
<1>2. p \in Packet
    BY <1>0, <1>1, PacketIs, Zenon
<1>3. \/ Fails
      \/ Crashes /\ Crash
      \/ mux("video", reaps, p)
    BY <1>1, Zenon DEF process_h264_packet
<1>4. p.ts = Timestamp("video")
    BY Zenon
<1>5. ASSUME mux("video", reaps, p)
      PROVE  /\ (Len(pkts_["video"]) >= 2 /\ Reaped("video", p)) \/ Joined("video", p)
             /\ UNCHANGED <<metadata_, crashed>>
  <2> HIDE DEF p
  <2>1. CASE reaps
    <3>1. Reaped("video", p) /\ UNCHANGED <<metadata_, crashed>>
        BY <1>5, <2>1, Zenon DEF mux, keep, Reaped
    <3>2. QED
        BY <2>1, <3>1, Zenon
  <2>2. CASE ~reaps
    <3>1. Joined("video", p) /\ UNCHANGED <<metadata_, crashed>>
        BY <1>5, <2>2, Zenon DEF mux, keep, Joined
    <3>2. QED
        BY <3>1, Zenon
  <2>3. QED
        BY <2>1, <2>2, Zenon
<1>6. codec_' \in [Track -> VideoCodecs \cup AudioCodecs \cup {"none"}] /\ (metadata_ => codec_' = stream)
    BY <1>0, <1>1, CodecIs, Zenon
<1> HIDE DEF p, reaps
<1>7. QED
    BY <1>0, <1>1, <1>2, <1>3, <1>5, <1>6, FrameCases, Zenon

LEMMA AudioStep ==
    ASSUME CutInv, Rest, NEW size \in AudioBytes, on_audio_packet(size)
    PROVE  CutInv' /\ Rest'
<1> DEFINE p == [ts |-> Timestamp("audio"), size |-> size]
           reaps == Len(pkts_["audio"]) >= 2
                        /\ (can_reap_mp4(FALSE, Duration("audio", Timestamp("audio")), bytes_["audio"]) \/ video_reaped_)
<1>0. "audio" \in Track /\ size \in Nat
    BY M4sAssumption, Zenon DEF Track
<1>1. /\ Arrives("audio") /\ codec_' = codec_
      /\ Fails \/ UNCHANGED <<bridgeVars, posted>> \/ process_aac_packet(Timestamp("audio"), size)
      /\ UNCHANGED <<stream, sinks_, mpdVars, recVars>>
    BY Zenon DEF on_audio_packet
<1>2. p \in Packet
    BY <1>0, <1>1, PacketIs, Zenon
<1>3. \/ Fails
      \/ Crashes /\ Crash
      \/ UNCHANGED <<metadata_, seq_no_, seg_, pkts_, crashed, posted>>
      \/ mux("audio", reaps, p)
    BY <1>1, Zenon DEF process_aac_packet, bridgeVars
<1>4. p.ts = Timestamp("audio")
    BY Zenon
<1>5. ASSUME mux("audio", reaps, p)
      PROVE  /\ (Len(pkts_["audio"]) >= 2 /\ Reaped("audio", p)) \/ Joined("audio", p)
             /\ UNCHANGED <<metadata_, crashed>>
  <2> HIDE DEF p
  <2>1. CASE reaps
    <3>1. Reaped("audio", p) /\ UNCHANGED <<metadata_, crashed>>
        BY <1>5, <2>1, Zenon DEF mux, keep, Reaped
    <3>2. QED
        BY <2>1, <3>1, Zenon
  <2>2. CASE ~reaps
    <3>1. Joined("audio", p) /\ UNCHANGED <<metadata_, crashed>>
        BY <1>5, <2>2, Zenon DEF mux, keep, Joined
    <3>2. QED
        BY <3>1, Zenon
  <2>3. QED
        BY <2>1, <2>2, Zenon
<1>6. codec_' \in [Track -> VideoCodecs \cup AudioCodecs \cup {"none"}] /\ (metadata_ => codec_' = stream)
    BY <1>0, <1>1, CodecIs, Zenon
<1> HIDE DEF p, reaps
<1>7. QED
    BY <1>0, <1>1, <1>2, <1>3, <1>5, <1>6, FrameCases, Zenon

-----------------------------------------------------------------------------
(* Steps that leave the bridge alone.                                      *)

\* The bridge's own invariant is about the bridge.
LEMMA CutStays ==
    ASSUME CutInv, UNCHANGED <<sourceVars, bridgeVars>>
    PROVE  CutInv' /\ UNCHANGED <<seq_no_, seg_>> /\ \A t \in Track : Cut(t)' = Cut(t)
<1>1. UNCHANGED <<stream, sent, metadata_, codec_, seq_no_, seg_, pkts_, crashed>>
    BY Zenon DEF sourceVars, bridgeVars
<1>2. QED
    BY <1>1, Zenon DEF CutInv, Cut

\* The last n of a sequence.
LEMMA LastOfIs ==
    ASSUME NEW S, NEW q \in Seq(S), NEW n \in Nat \ {0}
    PROVE  /\ LastOf(q, n) \in Seq(S) /\ Len(LastOf(q, n)) <= n /\ Len(LastOf(q, n)) <= Len(q)
           /\ \A k \in 1..Len(LastOf(q, n)) :
                k + (Len(q) - Len(LastOf(q, n))) \in 1..Len(q)
                /\ LastOf(q, n)[k] = q[k + (Len(q) - Len(LastOf(q, n)))]
<1>1. CASE Len(q) >= n
  <2>1. LastOf(q, n) = SubSeq(q, Len(q) - n + 1, Len(q))
        BY <1>1, Zenon DEF LastOf
  <2>2. LastOf(q, n) \in Seq(S) /\ Len(LastOf(q, n)) = n
        BY <1>1, <2>1, SMT
  <2>3. \A k \in 1..n : LastOf(q, n)[k] = q[k + (Len(q) - n)] /\ k + (Len(q) - n) \in 1..Len(q)
        BY <1>1, <2>1, SMT
  <2>4. QED
        BY <1>1, <2>2, <2>3, SMT
<1>2. CASE ~(Len(q) >= n)
  <2>1. LastOf(q, n) = SubSeq(q, 1, Len(q))
        BY <1>2, Zenon DEF LastOf
  <2>2. LastOf(q, n) \in Seq(S) /\ Len(LastOf(q, n)) = Len(q)
        BY <1>2, <2>1, SMT
  <2>3. \A k \in 1..Len(q) : LastOf(q, n)[k] = q[k]
        BY <1>2, <2>1, SMT
  <2>4. QED
        BY <1>2, <2>2, <2>3, SMT
<1>3. QED
    BY <1>1, <1>2, Zenon

\* The live manifest gets its sink.
LEMMA BridgeStep ==
    ASSUME CutInv, Rest, get_or_create_bridge
    PROVE  CutInv' /\ Rest'
<1>1. /\ UNCHANGED <<sourceVars, bridgeVars, posted, mpdVars, recVars>>
      /\ "mpd" \notin sinks_ /\ sinks_' = sinks_ \cup {"mpd"}
    BY Zenon DEF get_or_create_bridge
<1>2. UNCHANGED <<mpd_init_, segments_, mpd_, viewer, rec, rec_init_, m4s_segs_, files, failures, manifest>>
    BY <1>1, Zenon DEF mpdVars, recVars
<1>3. CutInv' /\ UNCHANGED <<seq_no_, seg_>> /\ \A t \in Track : Cut(t)' = Cut(t)
    BY <1>1, CutStays, Zenon
<1>4. QueueInv'
  <2>1. \A i \in 1..Len(posted), t \in Track : ~On(posted, i, "mpd", t)
        BY <1>1, Zenon DEF Rest, QueueInv, On
  <2>2. \A t \in Track : InOrder(posted, "mpd", t, Cut(t), seg_[t].end)
        BY <2>1, Zenon DEF InOrder
  <2>3. \A x \in sinks_', t \in Track : InOrder(posted, x, t, Cut(t), seg_[t].end)
        BY <1>1, <2>2, Zenon DEF Rest, QueueInv
  <2>4. \A x \in sinks_', t \in Track : InOrder(posted', x, t, Cut(t)', seg_'[t].end)
        BY <1>1, <1>3, <2>3, Zenon
  <2>5. sinks_' \subseteq Sink
        BY <1>1, Zenon DEF Rest, QueueInv, Sink
  <2>6. QED
        BY <1>1, <1>2, <2>4, <2>5, Zenon DEF Rest, QueueInv
<1>5. WindowInv'
  <2>1. segments_ = ByTrack(<<>>)
        BY <1>1, Zenon DEF Rest, WindowInv
  <2>2. \A t \in Track : segments_[t] = <<>> /\ segments_'[t] = <<>>
        BY <1>2, <2>1, Zenon DEF ByTrack
  <2>3. "mpd" \in sinks_'
        BY <1>1, Zenon
  <2>4. \A t \in Track : segments_'[t] # <<>> =>
            GoesOn(posted', "mpd", t, Cut(t)', seg_'[t].end, LastPiece(segments_'[t]))
        BY <2>2, Zenon
  <2>5. QED
        BY <1>2, <2>3, <2>4, Zenon DEF Rest, WindowInv, LastPiece
<1>6. ManifestInv' /\ ViewerInv' /\ RecordedManifest'
    BY <1>2, Zenon DEF Rest, ManifestInv, ViewerInv, LastPiece, RecordedManifest
<1>7. RecorderInv'
  <2>1. "rec" \in sinks_' <=> "rec" \in sinks_
        BY <1>1, DistinctNames, Zenon
  <2>2. QED
        BY <1>1, <1>2, <1>3, <2>1, Zenon DEF Rest, RecorderInv
<1>8. QED
    BY <1>3, <1>4, <1>5, <1>6, <1>7, Zenon DEF Rest

\* A viewer reads the manifest.
LEMMA ReadStep ==
    ASSUME CutInv, Rest, get_mpd
    PROVE  CutInv' /\ Rest'
<1>1. /\ UNCHANGED <<sourceVars, bridgeVars, sinks_, posted, mpd_init_, segments_, mpd_, recVars>>
      /\ mpd_ # ByTrack(<<>>)
      /\ viewer' = [listed |-> [t \in Track |-> {mpd_[t][k].n : k \in DOMAIN mpd_[t]}], since |-> ByTrack(0)]
    BY Zenon DEF get_mpd
<1>2. UNCHANGED <<rec, rec_init_, m4s_segs_, files, failures, manifest>>
    BY <1>1, Zenon DEF recVars
<1>3. CutInv' /\ UNCHANGED <<seq_no_, seg_>> /\ \A t \in Track : Cut(t)' = Cut(t)
    BY <1>1, CutStays, Zenon
<1>4. QueueInv' /\ WindowInv'
    BY <1>1, <1>2, <1>3, Zenon DEF Rest, QueueInv, WindowInv, LastPiece
<1>5. ManifestInv' /\ RecordedManifest' /\ RecorderInv'
    BY <1>1, <1>2, <1>3, Zenon DEF Rest, ManifestInv, RecorderInv, RecordedManifest
<1>6. ViewerInv'
  <2>1. /\ \A t \in Track : Len(segments_[t]) > 1
        /\ mpd_ = [t \in Track |-> LastOf(segments_[t], Listed)]
        BY <1>1, Zenon DEF Rest, ManifestInv
  <2>2. Listed \in Nat \ {0} /\ Kept \in Nat /\ Kept > 0
        BY M4sAssumption, SMT
  <2>3. ASSUME NEW t \in Track, NEW n, n \in {mpd_[t][k].n : k \in DOMAIN mpd_[t]}
        PROVE  /\ n \in Nat /\ segments_[t] # <<>>
               /\ n <= LastPiece(segments_[t]).n - 0
               /\ n >= LastPiece(segments_[t]).n - 0 - Listed + 1
               /\ n >= segments_[t][1].n
    <3> DEFINE q == segments_[t]
               m == LastOf(segments_[t], Listed)
    <3>1. q \in Seq(Piece) /\ Len(q) > 1 /\ mpd_[t] = m /\ Len(q) \in Nat
        BY <2>1, SMT DEF Rest, WindowInv
    <3>2. /\ m \in Seq(Piece) /\ Len(m) <= Listed /\ Len(m) <= Len(q)
          /\ \A k \in 1..Len(m) : k + (Len(q) - Len(m)) \in 1..Len(q) /\ m[k] = q[k + (Len(q) - Len(m))]
        BY <2>2, <3>1, LastOfIs, Zenon
    <3>3. \A k \in 1..Len(q) : q[k] \in Piece /\ q[k].n = LastPiece(q).n - (Len(q) - k)
      <4>1. \A k \in 1..Len(q) : q[k] \in Piece
            BY <3>1, SMT
      <4>2. QED
            BY <4>1, Zenon DEF Rest, WindowInv
    <3>4. 1 \in 1..Len(q) /\ Len(q) \in 1..Len(q)
        BY <3>1, SMT
    <3>5. q[1].n \in Nat /\ LastPiece(q).n \in Nat
        BY <3>3, <3>4, Zenon DEF Piece, LastPiece
    <3> HIDE DEF q, m
    <3>6. DOMAIN m = 1..Len(m) /\ Len(m) \in Nat
        BY <3>2, SMT
    <3>7. PICK k \in 1..Len(m) : n = m[k].n
        BY <2>3, <3>1, <3>6, Zenon
    <3>8. PICK j \in 1..Len(q) : j = k + (Len(q) - Len(m)) /\ n = q[j].n
        BY <3>2, <3>7, Zenon
    <3>9. n \in Nat /\ n = LastPiece(q).n - (Len(q) - j)
        BY <3>3, <3>8, Zenon DEF Piece
    <3>10. j <= Len(q) /\ j >= Len(q) - Listed + 1 /\ j >= 1
        BY <3>1, <3>2, <3>6, <3>7, <3>8, <2>2, SMT
    <3>11. q[1].n = LastPiece(q).n - (Len(q) - 1)
        BY <3>3, <3>4, Zenon
    <3>12. /\ n <= LastPiece(q).n - 0 /\ n >= LastPiece(q).n - 0 - Listed + 1 /\ n >= q[1].n /\ q # <<>>
        BY <3>1, <3>5, <3>9, <3>10, <3>11, <2>2, SMTT(30)
    <3>13. QED
        BY <3>9, <3>12, Zenon DEF q
  <2>4. viewer'.since = ByTrack(0) /\ viewer'.listed = [t \in Track |-> {mpd_[t][k].n : k \in DOMAIN mpd_[t]}]
        BY <1>1, Zenon
  <2>5. viewer' = [listed |-> viewer'.listed, since |-> viewer'.since]
        BY <1>1, <2>4, Zenon
  <2>6. viewer'.listed \in [Track -> SUBSET Nat]
        BY <2>3, <2>4, Zenon
  <2>7. 0 \in 0..Kept
        BY <2>2, SMT
  <2>8. viewer'.since \in [Track -> 0..Kept] /\ \A t \in Track : viewer'.since[t] = 0
        BY <2>4, <2>7, Zenon DEF ByTrack
  <2>9. \A t \in Track : viewer'.listed[t] = {mpd_[t][k].n : k \in DOMAIN mpd_[t]}
        BY <2>4, Zenon
  <2>10. \A t \in Track : \A n \in viewer'.listed[t] :
            /\ segments_'[t] # <<>>
            /\ viewer'.since[t] < Kept =>
                /\ n <= LastPiece(segments_'[t]).n - viewer'.since[t]
                /\ n >= LastPiece(segments_'[t]).n - viewer'.since[t] - Listed + 1
            /\ Len(segments_'[t]) < Kept => n >= segments_'[t][1].n
        BY <1>1, <2>3, <2>8, <2>9, Zenon
  <2>11. QED
        BY <2>5, <2>6, <2>8, <2>10, Zenon DEF ViewerInv, LastPiece
<1>7. QED
    BY <1>3, <1>4, <1>5, <1>6, Zenon DEF Rest

\* Init segments that are there are posted to the recorder.
InitsBehind(q, r) ==
    /\ r \in Seq(Event) /\ Extends(q, r)
    /\ \A i \in (Len(q) + 1)..Len(r) : r[i].kind = "init" /\ r[i].to = "rec"

LEMMA InitPosted ==
    ASSUME NEW q \in Seq(Event), NEW r, InitsBehind(q, r), NEW t \in Track
    PROVE  InitsBehind(q, Post(r, "rec", "init", t, NoSeg))
<1> DEFINE p == Post(r, "rec", "init", t, NoSeg)
           e == [to |-> "rec", kind |-> "init", track |-> t, seg |-> NoSeg]
<1>1. NoSeg \in Piece /\ "rec" \in Sink /\ "init" \in {"init", "seg"} /\ r \in Seq(Event)
    BY Zenon DEF NoSeg, Piece, Sink, InitsBehind
<1>2. p \in Seq(Event) /\ Len(p) = Len(r) + 1 /\ Extends(r, p) /\ p[Len(r) + 1] = e
    BY <1>1, PostIs
<1>3. e.kind = "init" /\ e.to = "rec"
    BY Zenon
<1> HIDE DEF p, e
<1>4. Extends(q, p)
    BY <1>1, <1>2, SMT DEF Extends, InitsBehind
<1>5. ASSUME NEW i \in (Len(q) + 1)..Len(p) PROVE p[i].kind = "init" /\ p[i].to = "rec"
  <2>1. i = Len(r) + 1 \/ (i \in (Len(q) + 1)..Len(r) /\ i \in 1..Len(r))
        BY <1>1, <1>2, SMT
  <2>2. i \in 1..Len(r) => p[i] = r[i]
        BY <1>2, Zenon DEF Extends
  <2>3. QED
        BY <2>1, <2>2, <1>2, <1>3, Zenon DEF InitsBehind
<1>6. QED
    BY <1>2, <1>4, <1>5, Zenon DEF InitsBehind, p

\* A recorder comes.
LEMMA RecorderStep ==
    ASSUME CutInv, Rest, M4sRecorder_init
    PROVE  CutInv' /\ Rest'
<1>1. /\ UNCHANGED <<sourceVars, bridgeVars, mpdVars, rec_init_, m4s_segs_, files, failures, manifest>>
      /\ rec.state = "none" /\ rec' = [state |-> "on", late |-> \E t \in Track : seq_no_[t] > 1]
      /\ sinks_' = sinks_ \cup {"rec"}
    BY Zenon DEF M4sRecorder_init
<1>2. UNCHANGED <<mpd_init_, segments_, mpd_, viewer>>
    BY <1>1, Zenon DEF mpdVars
<1>3. CutInv' /\ UNCHANGED <<seq_no_, seg_>> /\ \A t \in Track : Cut(t)' = Cut(t)
    BY <1>1, CutStays, Zenon
<1>r. rec'.state = "on" /\ (rec'.late <=> \E t \in Track : seq_no_[t] > 1) /\ rec' = [state |-> rec'.state, late |-> rec'.late]
  <2>1. PICK b : b = (\E t \in Track : seq_no_[t] > 1)
        BY Zenon
  <2>2. rec' = [state |-> "on", late |-> b]
        BY <1>1, <2>1, Zenon
  <2>3. rec'.state = "on" /\ rec'.late = b /\ rec' = [state |-> rec'.state, late |-> rec'.late]
        BY <2>2, SMT
  <2>4. QED
        BY <2>1, <2>3, Zenon
<1>4. posted \in Seq(Event) /\ sinks_ \subseteq Sink /\ \A i \in 1..Len(posted) : posted[i].to # "rec"
    BY <1>1, Zenon DEF Rest, QueueInv
<1>5. InitsBehind(posted, posted')
  <2>1. InitsBehind(posted, posted)
    <3>1. Len(posted) \in Nat /\ (Len(posted) + 1)..Len(posted) = {} /\ Len(posted) <= Len(posted)
        BY <1>4, SMT
    <3>2. QED
        BY <1>4, <3>1, Zenon DEF InitsBehind, Extends
  <2>2. PICK q : /\ q = IF "audio" \in init_seg_ THEN Post(posted, "rec", "init", "audio", NoSeg) ELSE posted
                 /\ posted' = IF "video" \in init_seg_ THEN Post(q, "rec", "init", "video", NoSeg) ELSE q
        BY Zenon DEF M4sRecorder_init
  <2>3. "audio" \in Track /\ "video" \in Track
        BY Zenon DEF Track
  <2>4. InitsBehind(posted, q)
        BY <1>4, <2>1, <2>2, <2>3, InitPosted, Zenon
  <2>5. QED
        BY <1>4, <2>2, <2>3, <2>4, InitPosted, Zenon
<1>6. \A x \in Sink, t \in Track : NoneNew(posted, posted', x, t)
    BY <1>5, DistinctNames, Zenon DEF InitsBehind, NoneNew, On
<1>7. \A t \in Track : InOrder(posted, "rec", t, Cut(t), seg_[t].end)
    BY <1>4, Zenon DEF InOrder, On
<1>8. ASSUME NEW x \in sinks_', NEW t \in Track
      PROVE  /\ InOrder(posted', x, t, Cut(t)', seg_'[t].end)
             /\ \A l : GoesOn(posted, x, t, Cut(t), seg_[t].end, l) => GoesOn(posted', x, t, Cut(t)', seg_'[t].end, l)
             /\ \A n : WaitsAfter(posted, x, t, Cut(t), n) => WaitsAfter(posted', x, t, Cut(t)', n)
  <2>1. x \in Sink /\ InOrder(posted, x, t, Cut(t), seg_[t].end)
        BY <1>1, <1>4, <1>7, <1>8, Zenon DEF Rest, QueueInv, Sink
  <2>2. posted' \in Seq(Event) /\ Extends(posted, posted') /\ NoneNew(posted, posted', x, t)
        BY <1>5, <1>6, <2>1, Zenon DEF InitsBehind
  <2>3. /\ \A cut, end : InOrder(posted, x, t, cut, end) => InOrder(posted', x, t, cut, end)
        /\ \A cut, n : WaitsAfter(posted, x, t, cut, n) => WaitsAfter(posted', x, t, cut, n)
        /\ \A cut, end, l : GoesOn(posted, x, t, cut, end, l) => GoesOn(posted', x, t, cut, end, l)
        BY <1>4, <2>2, NoneNewKeeps, Zenon
  <2>4. QED
        BY <1>3, <2>1, <2>3, Zenon
<1>9. QueueInv'
  <2>1. "mpd" \notin sinks_' => \A i \in 1..Len(posted') : posted'[i].to # "mpd"
    <3>1. \A i \in 1..Len(posted') : i \in 1..Len(posted) \/ i \in (Len(posted) + 1)..Len(posted')
        BY <1>4, <1>5, SMT DEF InitsBehind, Extends
    <3>2. QED
        BY <1>1, <1>5, <3>1, DistinctNames, Zenon DEF InitsBehind, Extends, Rest, QueueInv
  <2>2. sinks_' \subseteq Sink /\ posted' \in Seq(Event) /\ rec'.state # "none"
        BY <1>1, <1>4, <1>5, <1>r, DistinctNames, Zenon DEF Sink, InitsBehind
  <2>3. QED
        BY <1>8, <2>1, <2>2, Zenon DEF QueueInv
<1>10. WindowInv'
  <2>1. ASSUME NEW t \in Track, segments_[t] # <<>>
        PROVE  GoesOn(posted', "mpd", t, Cut(t)', seg_'[t].end, LastPiece(segments_[t]))
    <3>1. "mpd" \in sinks_'
        BY <1>1, <2>1, Zenon DEF Rest, WindowInv, ByTrack
    <3>2. GoesOn(posted, "mpd", t, Cut(t), seg_[t].end, LastPiece(segments_[t]))
        BY <2>1, Zenon DEF Rest, WindowInv
    <3>3. QED
        BY <3>1, <3>2, <1>8, Zenon
  <2>2. "mpd" \notin sinks_' => "mpd" \notin sinks_
        BY <1>1, Zenon
  <2>3. QED
        BY <1>2, <2>1, <2>2, Zenon DEF Rest, WindowInv, LastPiece
<1>11. ManifestInv' /\ ViewerInv' /\ RecordedManifest'
  <2>1. rec'.state # "closed"
        BY <1>r, DistinctNames, Zenon
  <2>2. QED
        BY <1>2, <2>1, Zenon DEF Rest, ManifestInv, ViewerInv, LastPiece, RecordedManifest
<1>12. RecorderInv'
  <2>1. m4s_segs_ = ByTrack(<<>>) /\ files = {} /\ rec_init_ = {}
        BY <1>1, Zenon DEF Rest, RecorderInv
  <2>2. "rec" \in sinks_' /\ rec'.state \in {"none", "on", "closed"} /\ rec'.state # "none"
        BY <1>1, <1>r, DistinctNames, Zenon
  <2>3. ASSUME NEW t \in Track, ~rec'.late
        PROVE  /\ WaitsAfter(posted', "rec", t, Cut(t)', Len(m4s_segs_'[t]))
               /\ \A k \in 1..Len(m4s_segs_'[t]) : m4s_segs_'[t][k].seq_no = k
               /\ \A n \in Nat \ {0} : <<t, n>> \in files' <=> n <= Len(m4s_segs_'[t])
    <3>1. m4s_segs_'[t] = <<>>
        BY <1>1, <2>1, Zenon DEF ByTrack
    <3>2. Len(m4s_segs_'[t]) = 0 /\ 1..0 = {} /\ \A n \in Nat \ {0} : ~(n <= 0)
        BY <3>1, SMT
    <3>3. Cut(t) = 0
      <4>1. ~(seq_no_[t] > 1) /\ seq_no_[t] \in Nat \ {0}
            BY <1>r, <2>3, Zenon DEF CutInv
      <4>2. QED
            BY <4>1, SMT DEF Cut
    <3>4. 0 \in 0..0 /\ (0 + 1)..0 = {}
        BY SMT
    <3>5. WaitsAfter(posted, "rec", t, 0, 0)
        BY <3>4, <1>4, Zenon DEF WaitsAfter, On
    <3>6. WaitsAfter(posted', "rec", t, Cut(t)', 0)
        BY <1>8, <2>2, <3>3, <3>5, Zenon
    <3>7. QED
        BY <1>1, <2>1, <3>2, <3>6, Zenon
  <2>4. QED
        BY <1>1, <1>r, <2>2, <2>3, Zenon DEF Rest, RecorderInv
<1>13. QED
    BY <1>3, <1>9, <1>10, <1>11, <1>12, Zenon DEF Rest

\* The recorder closes and writes its manifest.
LEMMA CloseStep ==
    ASSUME CutInv, Rest, M4sRecorder_close
    PROVE  CutInv' /\ Rest'
<1>1. /\ UNCHANGED <<sourceVars, bridgeVars, posted, mpdVars, rec_init_, m4s_segs_, files, failures>>
      /\ rec.state = "on" /\ rec' = [rec EXCEPT !.state = "closed"]
      /\ sinks_' = sinks_ \ {"rec"} /\ manifest' = gen_mpd
    BY Zenon DEF M4sRecorder_close
<1>2. UNCHANGED <<mpd_init_, segments_, mpd_, viewer>>
    BY <1>1, Zenon DEF mpdVars
<1>3. CutInv' /\ UNCHANGED <<seq_no_, seg_>> /\ \A t \in Track : Cut(t)' = Cut(t)
    BY <1>1, CutStays, Zenon
<1>r. rec'.state = "closed" /\ rec'.late = rec.late /\ rec' = [state |-> rec'.state, late |-> rec'.late]
  <2>1. PICK a : a = rec.late
        BY Zenon
  <2>2. rec = [state |-> rec.state, late |-> a]
        BY <2>1, Zenon DEF Rest, RecorderInv
  <2>3. QED
        BY <1>1, <2>1, <2>2, SMT
<1>4. "mpd" \in sinks_' <=> "mpd" \in sinks_
    BY <1>1, DistinctNames, Zenon
<1>5. QueueInv'
  <2>1. sinks_' \subseteq Sink /\ \A x \in sinks_' : x \in sinks_
        BY <1>1, Zenon DEF Rest, QueueInv
  <2>2. rec'.state # "none"
        BY <1>r, DistinctNames, Zenon
  <2>3. QED
        BY <1>1, <1>3, <1>4, <2>1, <2>2, Zenon DEF Rest, QueueInv
<1>6. WindowInv' /\ ManifestInv' /\ ViewerInv'
    BY <1>1, <1>2, <1>3, <1>4, Zenon DEF Rest, WindowInv, ManifestInv, ViewerInv, LastPiece
<1>7. RecorderInv'
  <2>1. "rec" \notin sinks_' /\ rec'.state # "on" /\ rec'.state # "none" /\ rec'.state \in {"none", "on", "closed"}
        BY <1>1, <1>r, DistinctNames, Zenon
  <2>2. QED
        BY <1>1, <1>r, <2>1, Zenon DEF Rest, RecorderInv
<1>8. RecordedManifest'
  <2>1. SUFFICES ASSUME ~rec.late, failures = 0, NEW t \in rec_init_
                 PROVE  gen_mpd[t] = {n \in 1..Len(FrameTimes[t]) : <<t, n>> \in files}
        BY <1>1, <1>r, Zenon DEF RecordedManifest
  <2>2. /\ t \in Track /\ WaitsAfter(posted, "rec", t, Cut(t), Len(m4s_segs_[t]))
        /\ \A k \in 1..Len(m4s_segs_[t]) : m4s_segs_[t][k].seq_no = k
        /\ \A n \in Nat \ {0} : <<t, n>> \in files <=> n <= Len(m4s_segs_[t])
        BY <1>1, <2>1, Zenon DEF Rest, RecorderInv
  <2>3. PICK S : m4s_segs_[t] \in Seq(S)
        BY <2>2, Zenon DEF Rest, RecorderInv
  <2>4. PICK K \in Nat : K = Len(m4s_segs_[t]) /\ DOMAIN m4s_segs_[t] = 1..K
        BY <2>3, SMT
  <2>5. K <= Len(FrameTimes[t]) /\ Len(FrameTimes[t]) \in Nat
    <3>1. K \in 0..Cut(t) /\ Cut(t) <= sent[t] /\ sent[t] <= Len(FrameTimes[t]) /\ sent[t] \in Nat /\ seq_no_[t] \in Nat
        BY <2>2, <2>4, Zenon DEF WaitsAfter, CutInv
    <3>2. Len(FrameTimes[t]) \in Nat
        BY M4sAssumption, <2>2, SMT
    <3>3. Cut(t) \in Int
        BY <3>1, SMT DEF Cut
    <3>4. QED
        BY <3>1, <3>2, <3>3, SMT
  <2>6. {n \in 1..Len(FrameTimes[t]) : <<t, n>> \in files} = 1..K
    <3>1. \A n \in 1..Len(FrameTimes[t]) : n \in Nat \ {0} /\ (n <= K <=> n \in 1..K)
        BY <2>5, SMT
    <3>2. 1..K \subseteq 1..Len(FrameTimes[t])
        BY <2>5, SMT
    <3>3. QED
        BY <2>2, <2>4, <3>1, <3>2, Zenon
  <2>7. CASE m4s_segs_[t] = <<>>
    <3>1. K = 0 /\ 1..K = {}
        BY <2>4, <2>7, SMT
    <3>2. gen_mpd[t] = {}
        BY <2>2, <2>7, Zenon DEF gen_mpd
    <3>3. QED
        BY <2>6, <3>1, <3>2, Zenon
  <2>8. CASE m4s_segs_[t] # <<>>
    <3>1. 1 \in 1..K
        BY <2>3, <2>4, <2>8, SMT
    <3>2. gen_mpd[t] = {m4s_segs_[t][1].seq_no + k - 1 : k \in 1..K}
        BY <2>1, <2>2, <2>4, <2>8, Zenon DEF gen_mpd
    <3>3. m4s_segs_[t][1].seq_no = 1
        BY <2>2, <2>4, <3>1, Zenon
    <3>4. \A k \in 1..K : 1 + k - 1 = k
        BY SMT
    <3>5. {1 + k - 1 : k \in 1..K} = 1..K
        BY <3>4, Zenon
    <3>6. QED
        BY <2>6, <3>2, <3>3, <3>5, Zenon
  <2>9. QED
        BY <2>7, <2>8, Zenon
<1>9. QED
    BY <1>3, <1>5, <1>6, <1>7, <1>8, Zenon DEF Rest

-----------------------------------------------------------------------------
(* Deliveries.                                                             *)

\* The worker takes the first thing in its queue.
Taken == posted # <<>> /\ posted' = Tail(posted) /\ UNCHANGED <<sourceVars, bridgeVars, sinks_, rec>>

\* The queue stays in order, and what is not for a sink's track leaves it where it was.
LEMMA TakenKeeps ==
    ASSUME CutInv, Rest, Taken
    PROVE  /\ CutInv' /\ QueueInv' /\ UNCHANGED <<seq_no_, seg_>> /\ (\A t \in Track : Cut(t)' = Cut(t))
           /\ \A x, t, n : ~On(posted, 1, x, t) /\ WaitsAfter(posted, x, t, Cut(t), n)
                => WaitsAfter(posted', x, t, Cut(t), n)
           /\ \A x, t, l : ~On(posted, 1, x, t) /\ GoesOn(posted, x, t, Cut(t), seg_[t].end, l)
                => GoesOn(posted', x, t, Cut(t), seg_[t].end, l)
<1>1. CutInv' /\ UNCHANGED <<seq_no_, seg_>> /\ \A t \in Track : Cut(t)' = Cut(t)
    BY CutStays, Zenon DEF Taken
<1>2. posted \in Seq(Event) /\ posted # <<>> /\ posted' = Tail(posted) /\ UNCHANGED <<sinks_, rec>>
    BY Zenon DEF Taken, Rest, QueueInv
<1>3. posted' \in Seq(Event) /\ \A i \in 1..Len(posted') : i + 1 \in 1..Len(posted) /\ posted'[i] = posted[i + 1]
    BY <1>2, TailIs, Zenon
<1>4. ASSUME NEW x \in sinks_, NEW t \in Track PROVE InOrder(posted', x, t, Cut(t)', seg_'[t].end)
  <2>1. InOrder(posted, x, t, Cut(t), seg_[t].end)
        BY Zenon DEF Rest, QueueInv
  <2>2. Cut(t) \in Nat
        BY SMT DEF CutInv, Cut
  <2>3. InOrder(Tail(posted), x, t, Cut(t), seg_[t].end)
        BY <1>2, <2>1, <2>2, InOrderTail, Zenon
  <2>4. QED
        BY <1>1, <1>2, <2>3, Zenon
<1>5. QueueInv'
    BY <1>2, <1>3, <1>4, Zenon DEF Rest, QueueInv
<1>6. ASSUME NEW x, NEW t, ~On(posted, 1, x, t)
      PROVE  /\ \A n : WaitsAfter(posted, x, t, Cut(t), n) => WaitsAfter(posted', x, t, Cut(t), n)
             /\ \A l : GoesOn(posted, x, t, Cut(t), seg_[t].end, l) => GoesOn(posted', x, t, Cut(t), seg_[t].end, l)
  <2>1. /\ \A n : WaitsAfter(posted, x, t, Cut(t), n) => WaitsAfter(Tail(posted), x, t, Cut(t), n)
        /\ \A end, l : GoesOn(posted, x, t, Cut(t), end, l) => GoesOn(Tail(posted), x, t, Cut(t), end, l)
        BY <1>2, <1>6, WaitsTail, Zenon
  <2>2. QED
        BY <1>2, <2>1, Zenon
<1>7. QED
    BY <1>1, <1>5, <1>6, Zenon

\* What the manifest's side needs when nothing of it is delivered to the window.
LEMMA WindowStays ==
    ASSUME CutInv, Rest, Taken, UNCHANGED segments_, \A t \in Track : ~On(posted, 1, "mpd", t)
    PROVE  WindowInv'
<1>1. ASSUME NEW t \in Track, segments_[t] # <<>>
      PROVE  GoesOn(posted', "mpd", t, Cut(t)', seg_'[t].end, LastPiece(segments_[t]))
  <2>1. GoesOn(posted, "mpd", t, Cut(t), seg_[t].end, LastPiece(segments_[t]))
        BY <1>1, Zenon DEF Rest, WindowInv
  <2>2. GoesOn(posted', "mpd", t, Cut(t), seg_[t].end, LastPiece(segments_[t]))
        BY <2>1, TakenKeeps, Zenon
  <2>3. Cut(t)' = Cut(t) /\ seg_' = seg_
        BY TakenKeeps, Zenon
  <2>4. QED
        BY <2>2, <2>3, Zenon
<1>2. QED
    BY <1>1, Zenon DEF Taken, Rest, WindowInv, LastPiece

\* What the recorder's side needs when nothing is delivered to it.
LEMMA RecorderStays ==
    ASSUME CutInv, Rest, Taken, UNCHANGED <<rec, rec_init_, m4s_segs_, files, failures, manifest>>,
           rec.state = "on" => \A t \in Track : ~On(posted, 1, "rec", t)
    PROVE  RecorderInv' /\ RecordedManifest'
<1>1. RecordedManifest'
    BY Zenon DEF Rest, RecordedManifest
<1>2. ASSUME rec.state = "on", ~rec.late, failures = 0, NEW t \in Track
      PROVE  WaitsAfter(posted', "rec", t, Cut(t)', Len(m4s_segs_[t]))
  <2>1. WaitsAfter(posted, "rec", t, Cut(t), Len(m4s_segs_[t]))
        BY <1>2, Zenon DEF Rest, RecorderInv
  <2>2. Cut(t)' = Cut(t)
        BY TakenKeeps, Zenon
  <2>3. WaitsAfter(posted', "rec", t, Cut(t), Len(m4s_segs_[t]))
        BY <1>2, <2>1, TakenKeeps, Zenon
  <2>4. QED
        BY <2>2, <2>3, Zenon
<1>3. RecorderInv'
    BY <1>2, Zenon DEF Taken, Rest, RecorderInv
<1>4. QED
    BY <1>1, <1>3, Zenon

\* The smaller of two numbers.
LEMMA MinIs ==
    ASSUME NEW a \in Nat, NEW b \in Nat
    PROVE  Min({a, b}) \in {a, b} /\ Min({a, b}) <= a /\ Min({a, b}) <= b
<1>1. \E x \in {a, b} : \A y \in {a, b} : x <= y
    BY SMT
<1>2. Min({a, b}) \in {a, b} /\ \A y \in {a, b} : Min({a, b}) <= y
    BY <1>1, Zenon DEF Min
<1>3. QED
    BY <1>2, Zenon

\* The window when a segment comes: it ends with that one, and lost at most its first.
LEMMA WindowIs ==
    ASSUME NEW q \in Seq(Piece), Len(q) <= Kept, NEW p \in Piece
    PROVE  /\ Window(q, p) \in Seq(Piece) /\ Window(q, p) # <<>>
           /\ Len(Window(q, p)) \in 1..Kept
           /\ Window(q, p)[Len(Window(q, p))] = p
           /\ Len(q) < Kept => Len(Window(q, p)) = Len(q) + 1
           /\ Len(q) >= Kept => Len(Window(q, p)) = Len(q)
           /\ \A k \in 1..(Len(Window(q, p)) - 1) :
                /\ k + (Len(q) + 1 - Len(Window(q, p))) \in 1..Len(q)
                /\ Window(q, p)[k] = q[k + (Len(q) + 1 - Len(Window(q, p)))]
<1>0. Kept \in Nat /\ Kept > 0 /\ Len(q) \in Nat
    BY M4sAssumption, SMT
<1>1. CASE Len(q) >= Kept
  <2>1. Window(q, p) = Append(Tail(q), p)
        BY <1>1, Zenon DEF Window
  <2>2. Tail(q) \in Seq(Piece) /\ Len(Tail(q)) = Len(q) - 1 /\ \A k \in 1..(Len(q) - 1) : Tail(q)[k] = q[k + 1]
        BY <1>0, <1>1, SMT
  <2> DEFINE r == Tail(q)
  <2> HIDE DEF r
  <2>3. /\ Append(r, p) \in Seq(Piece) /\ Append(r, p) # <<>> /\ Len(Append(r, p)) = Len(r) + 1
        /\ Append(r, p)[Len(r) + 1] = p /\ \A i \in 1..Len(r) : Append(r, p)[i] = r[i]
        BY <2>2, AppendIs, SMT DEF r
  <2>4. Len(r) = Len(q) - 1 /\ (\A k \in 1..(Len(q) - 1) : r[k] = q[k + 1]) /\ Window(q, p) = Append(r, p)
        BY <2>1, <2>2 DEF r
  <2>5. Len(Append(r, p)) = Len(q) /\ Len(r) + 1 = Len(q) /\ Len(q) \in 1..Kept
        BY <1>0, <1>1, <2>3, <2>4, SMT
  <2>6. \A k \in 1..(Len(q) - 1) : k + (Len(q) + 1 - Len(q)) = k + 1 /\ k + 1 \in 1..Len(q) /\ k \in 1..Len(r)
        BY <1>0, <2>4, SMT
  <2>7. ~(Len(q) < Kept)
        BY <1>0, <1>1, SMT
  <2>8. QED
        BY <2>3, <2>4, <2>5, <2>6, <2>7, Zenon
<1>2. CASE ~(Len(q) >= Kept)
  <2>1. Window(q, p) = Append(q, p)
        BY <1>2, Zenon DEF Window
  <2>2. /\ Append(q, p) \in Seq(Piece) /\ Append(q, p) # <<>> /\ Len(Append(q, p)) = Len(q) + 1
        /\ Append(q, p)[Len(q) + 1] = p /\ \A i \in 1..Len(q) : Append(q, p)[i] = q[i]
        BY AppendIs, SMT
  <2>3. /\ Len(q) + 1 \in 1..Kept /\ (Len(q) + 1) - 1 = Len(q)
        /\ \A k \in 1..Len(q) : k + (Len(q) + 1 - (Len(q) + 1)) = k
        BY <1>0, <1>2, SMT
  <2>4. \A k \in 1..(Len(Append(q, p)) - 1) :
            /\ k + (Len(q) + 1 - Len(Append(q, p))) \in 1..Len(q)
            /\ Append(q, p)[k] = q[k + (Len(q) + 1 - Len(Append(q, p)))]
    <3>1. TAKE k \in 1..(Len(Append(q, p)) - 1)
    <3>2. k \in 1..Len(q) /\ k + (Len(q) + 1 - Len(Append(q, p))) = k
        BY <1>0, <2>2, <2>3, Zenon
    <3>3. QED
        BY <2>2, <3>2, Zenon
  <2>5. QED
        BY <1>2, <2>1, <2>2, <2>3, <2>4, Zenon
<1>3. QED
    BY <1>1, <1>2, Zenon

\* An init segment comes to the live manifest.
LEMMA MpdInitStep ==
    ASSUME CutInv, Rest, Taken, posted[1].to = "mpd", posted[1].kind = "init", posted[1].track \in Track,
           mpd_on_init_segment(posted[1]), UNCHANGED recVars
    PROVE  CutInv' /\ Rest'
<1>1. UNCHANGED <<segments_, mpd_, viewer, rec, rec_init_, m4s_segs_, files, failures, manifest>>
    BY Zenon DEF mpd_on_init_segment, recVars
<1>2. \A x, t : ~On(posted, 1, x, t)
    BY DistinctNames, Zenon DEF On
<1>3. WindowInv' /\ RecorderInv' /\ RecordedManifest'
    BY <1>1, <1>2, WindowStays, RecorderStays, Zenon
<1>4. ViewerInv'
    BY <1>1, Zenon DEF Rest, ViewerInv, LastPiece
<1>5. mpd_init_' = mpd_init_ \cup {posted[1].track}
    BY Zenon DEF mpd_on_init_segment
<1>6. mpd_init_ = Track => mpd_init_' = Track
    BY <1>5, Zenon
<1>7. ManifestInv'
    BY <1>1, <1>6, Zenon DEF Rest, ManifestInv
<1>8. QED
    BY <1>3, <1>4, <1>7, TakenKeeps, Zenon DEF Rest

\* A segment comes to the live manifest.
LEMMA MpdSegmentStep ==
    ASSUME CutInv, Rest, Taken, posted[1].to = "mpd", posted[1].kind = "seg",
           mpd_on_segment(posted[1]), UNCHANGED recVars
    PROVE  CutInv' /\ Rest'
<1> DEFINE t0 == posted[1].track
           p == posted[1].seg
           q == segments_[t0]
           w == Window(q, p)
<1>0. posted \in Seq(Event) /\ posted # <<>> /\ posted' = Tail(posted) /\ 1 \in 1..Len(posted)
  <2>1. posted \in Seq(Event) /\ posted # <<>> /\ posted' = Tail(posted)
        BY Zenon DEF Rest, QueueInv, Taken
  <2>2. QED
        BY <2>1, SMT
<1>1. t0 \in Track /\ p \in Piece
    BY <1>0, EventIs, Zenon
<1>2. /\ UNCHANGED <<mpd_init_, rec, rec_init_, m4s_segs_, files, failures, manifest>>
      /\ segments_' = [segments_ EXCEPT ![t0] = w]
      /\ mpd_' = update_mpd(segments_')
      /\ viewer' = [viewer EXCEPT !.since[t0] = Min({@ + 1, Kept})]
    BY Zenon DEF mpd_on_segment, recVars
<1>3. /\ "mpd" \in sinks_ /\ InOrder(posted, "mpd", t0, Cut(t0), seg_[t0].end) /\ Cut(t0) \in Nat
      /\ On(posted, 1, "mpd", t0) /\ \A t \in Track : t # t0 => ~On(posted, 1, "mpd", t)
  <2>1. "mpd" \in sinks_
        BY <1>0, Zenon DEF Rest, QueueInv
  <2>2. InOrder(posted, "mpd", t0, Cut(t0), seg_[t0].end)
        BY <1>1, <2>1, Zenon DEF Rest, QueueInv
  <2>3. Cut(t0) \in Nat
        BY <1>1, SMT DEF CutInv, Cut
  <2>4. QED
        BY <1>0, <2>1, <2>2, <2>3, Zenon DEF On
<1>4. GoesOn(posted', "mpd", t0, Cut(t0), seg_[t0].end, p)
    BY <1>0, <1>3, AfterHead, Zenon
<1>5. /\ q \in Seq(Piece) /\ Len(q) <= Kept /\ Len(q) \in Nat
      /\ \A k \in 1..Len(q) : q[k].n = LastPiece(q).n - (Len(q) - k)
      /\ \A k \in 1..(Len(q) - 1) : q[k + 1].start = q[k].end
      /\ q # <<>> => GoesOn(posted, "mpd", t0, Cut(t0), seg_[t0].end, LastPiece(q))
  <2>1. q \in Seq(Piece)
        BY <1>1, Zenon DEF Rest, WindowInv
  <2>2. Len(q) \in Nat
        BY <2>1, SMT
  <2>3. QED
        BY <1>1, <2>1, <2>2, Zenon DEF Rest, WindowInv
<1>6. /\ w \in Seq(Piece) /\ w # <<>> /\ Len(w) \in 1..Kept /\ w[Len(w)] = p
      /\ Len(q) < Kept => Len(w) = Len(q) + 1
      /\ Len(q) >= Kept => Len(w) = Len(q)
      /\ \A k \in 1..(Len(w) - 1) :
            k + (Len(q) + 1 - Len(w)) \in 1..Len(q) /\ w[k] = q[k + (Len(q) + 1 - Len(w))]
    BY <1>1, <1>5, WindowIs, Zenon
<1>7. q # <<>> => /\ LastPiece(q).n \in Nat /\ p.n = LastPiece(q).n + 1 /\ p.start = LastPiece(q).end
                  /\ Len(q) \in 1..Len(q) /\ LastPiece(q) = q[Len(q)]
  <2>1. SUFFICES ASSUME q # <<>>
                 PROVE  /\ LastPiece(q).n \in Nat /\ p.n = LastPiece(q).n + 1 /\ p.start = LastPiece(q).end
                        /\ Len(q) \in 1..Len(q)
        BY DEF LastPiece
  <2>2. Len(q) \in 1..Len(q) /\ q[Len(q)] \in Piece
        BY <1>5, <2>1, SMT
  <2>3. LastPiece(q).n \in Nat
        BY <2>2, Zenon DEF LastPiece, Piece
  <2>4. WaitsAfter(posted, "mpd", t0, Cut(t0), LastPiece(q).n)
        BY <1>5, <2>1, Zenon DEF GoesOn
  <2>5. p.n = LastPiece(q).n + 1
        BY <1>0, <1>3, <2>3, <2>4, NextWaits, SMT
  <2>6. p.start = LastPiece(q).end
        BY <1>0, <1>3, <1>5, <2>1, <2>5, Zenon DEF GoesOn
  <2>7. QED
        BY <2>2, <2>3, <2>5, <2>6, Zenon
<1> HIDE DEF t0, p, q, w
<1>8. /\ DOMAIN segments_ = Track /\ DOMAIN segments_' = Track /\ segments_'[t0] = w
      /\ \A t \in Track : t # t0 => segments_'[t] = segments_[t]
    BY <1>1, <1>2, Zenon DEF Rest, WindowInv
<1>p. p.n \in Nat
    BY <1>1, Zenon DEF Piece
<1>9. /\ LastPiece(w) = p
      /\ \A k \in 1..Len(w) : w[k].n = LastPiece(w).n - (Len(w) - k)
      /\ \A k \in 1..(Len(w) - 1) : w[k + 1].start = w[k].end
  <2>1. LastPiece(w) = p
        BY <1>6, Zenon DEF LastPiece
  <2>2. ASSUME NEW k \in 1..Len(w) PROVE w[k].n = LastPiece(w).n - (Len(w) - k)
    <3>1. CASE k = Len(w)
      <4>1. p.n = p.n - (Len(w) - Len(w))
            BY <1>p, <1>6, SMT
      <4>2. QED
            BY <3>1, <4>1, <2>1, <1>6, Zenon
    <3>2. CASE k # Len(w)
      <4>1. k \in 1..(Len(w) - 1)
            BY <1>6, <3>2, SMT
      <4>2. PICK j \in 1..Len(q) : j = k + (Len(q) + 1 - Len(w)) /\ w[k] = q[j]
            BY <1>6, <4>1, Zenon
      <4>3. q # <<>>
            BY <1>5, <4>2, SMT
      <4>4. q[j].n = LastPiece(q).n - (Len(q) - j) /\ p.n = LastPiece(q).n + 1 /\ LastPiece(q).n \in Nat
            BY <1>5, <1>7, <4>2, <4>3, Zenon
      <4>5. Len(w) \in Nat /\ k \in Nat /\ Len(q) \in Nat
            BY <1>5, <1>6, SMT
      <4>6. LastPiece(q).n - (Len(q) - j) = p.n - (Len(w) - k)
            BY <4>2, <4>4, <4>5, SMT
      <4>7. QED
            BY <2>1, <4>2, <4>4, <4>6, Zenon
    <3>3. QED
        BY <3>1, <3>2, Zenon
  <2>3. ASSUME NEW k \in 1..(Len(w) - 1) PROVE w[k + 1].start = w[k].end
    <3>1. PICK j \in 1..Len(q) : j = k + (Len(q) + 1 - Len(w)) /\ w[k] = q[j]
        BY <1>6, <2>3, Zenon
    <3>2. q # <<>>
        BY <1>5, <3>1, SMT
    <3>3. CASE k + 1 = Len(w)
      <4>0. Len(w) \in Nat /\ Len(q) \in Nat /\ k \in Nat
            BY <1>5, <1>6, SMT
      <4>1. j = Len(q)
            BY <3>1, <3>3, <4>0, SMT
      <4>2. QED
            BY <1>6, <1>7, <3>1, <3>2, <3>3, <4>1, Zenon
    <3>4. CASE k + 1 # Len(w)
      <4>1. k + 1 \in 1..(Len(w) - 1) /\ (k + 1) + (Len(q) + 1 - Len(w)) = j + 1 /\ j \in 1..(Len(q) - 1)
        <5>1. Len(w) \in Nat /\ Len(q) \in Nat /\ k \in Nat
            BY <1>5, <1>6, SMT
        <5>2. k + 1 \in 1..(Len(w) - 1)
            BY <2>3, <3>4, <5>1, SMT
        <5>3. (k + 1) + (Len(q) + 1 - Len(w)) = j + 1
            BY <3>1, <5>1, SMT
        <5>4. j + 1 \in 1..Len(q)
            BY <1>6, <5>2, <5>3, Zenon
        <5>5. j \in 1..(Len(q) - 1)
            BY <5>1, <5>4, SMT
        <5>6. QED
            BY <5>2, <5>3, <5>5
      <4>2. w[k + 1] = q[j + 1]
            BY <1>6, <4>1, Zenon
      <4>3. q[j + 1].start = q[j].end
            BY <1>5, <4>1, Zenon
      <4>4. QED
            BY <3>1, <4>2, <4>3, Zenon
    <3>5. QED
        BY <3>3, <3>4, Zenon
  <2>4. QED
        BY <2>1, <2>2, <2>3, Zenon
<1>10. WindowInv'
  <2>1. ASSUME NEW t \in Track
        PROVE  /\ segments_'[t] \in Seq(Piece) /\ Len(segments_'[t]) <= Kept
               /\ \A k \in 1..Len(segments_'[t]) :
                    segments_'[t][k].n = LastPiece(segments_'[t]).n - (Len(segments_'[t]) - k)
               /\ \A k \in 1..(Len(segments_'[t]) - 1) : segments_'[t][k + 1].start = segments_'[t][k].end
               /\ segments_'[t] # <<>> =>
                    GoesOn(posted', "mpd", t, Cut(t)', seg_'[t].end, LastPiece(segments_'[t]))
    <3>0. Cut(t)' = Cut(t) /\ seg_' = seg_
        BY TakenKeeps, Zenon
    <3>1. CASE t = t0
      <4>1. Len(w) <= Kept
            BY <1>6, M4sAssumption, SMT
      <4>2. QED
            BY <1>4, <1>6, <1>8, <1>9, <3>0, <3>1, <4>1, Zenon
    <3>2. CASE t # t0
      <4>1. segments_'[t] = segments_[t] /\ ~On(posted, 1, "mpd", t)
            BY <1>3, <1>8, <3>2, Zenon
      <4>2. segments_[t] # <<>> => GoesOn(posted', "mpd", t, Cut(t), seg_[t].end, LastPiece(segments_[t]))
            BY <4>1, TakenKeeps, Zenon DEF Rest, WindowInv
      <4>3. QED
            BY <3>0, <4>1, <4>2, Zenon DEF Rest, WindowInv
    <3>3. QED
        BY <3>1, <3>2, Zenon
  <2>2. segments_' \in [Track -> Seq(Piece)]
    <3>1. segments_ \in [Track -> Seq(Piece)]
        BY Zenon DEF Rest, WindowInv
    <3>2. QED
        BY <1>1, <1>2, <1>6, <3>1, Zenon
  <2>3. "mpd" \in sinks_'
        BY <1>3, Zenon DEF Taken
  <2>4. QED
        BY <2>1, <2>2, <2>3, Zenon DEF WindowInv, LastPiece
<1>11. ManifestInv'
  <2>1. \A t \in Track : Len(segments_[t]) > 1 => Len(segments_'[t]) > 1
    <3>1. Len(q) > 1 => Len(w) > 1
        BY <1>5, <1>6, M4sAssumption, SMT
    <3>2. QED
        BY <1>8, <3>1, Zenon DEF q
  <2>2. CASE mpd_init_ = Track /\ \A t \in Track : Len(segments_'[t]) > 1
    <3>1. mpd_' = [t \in Track |-> LastOf(segments_'[t], Listed)]
        BY <1>2, <2>2, Zenon DEF update_mpd
    <3>2. QED
        BY <1>2, <2>2, <3>1, Zenon DEF ManifestInv
  <2>3. CASE ~(mpd_init_ = Track /\ \A t \in Track : Len(segments_'[t]) > 1)
    <3>1. mpd_' = mpd_
        BY <1>2, <2>3, Zenon DEF update_mpd
    <3>2. mpd_ = ByTrack(<<>>)
        BY <2>1, <2>3, Zenon DEF Rest, ManifestInv
    <3>3. mpd_' = ByTrack(<<>>)
        BY <3>1, <3>2, Zenon
    <3>4. QED
        BY <3>3, Zenon DEF ManifestInv, ByTrack
  <2>4. QED
        BY <2>2, <2>3, Zenon
<1>12. ViewerInv'
  <2>0. Kept \in Nat
        BY M4sAssumption, Zenon
  <2>1. PICK a \in [Track -> SUBSET Nat] : a = viewer.listed
        BY Zenon DEF Rest, ViewerInv
  <2>2. PICK b \in [Track -> 0..Kept] : b = viewer.since
        BY Zenon DEF Rest, ViewerInv
  <2>3. viewer = [listed |-> a, since |-> b]
        BY <2>1, <2>2, Zenon DEF Rest, ViewerInv
  <2>4. PICK m : m = Min({b[t0] + 1, Kept})
        BY Zenon
  <2>5. viewer' = [listed |-> a, since |-> [b EXCEPT ![t0] = m]]
        BY <1>1, <1>2, <2>2, <2>3, <2>4, SMT
  <2>6. b[t0] \in Nat /\ b[t0] <= Kept
        BY <1>1, <2>0, <2>2, SMT
  <2>7. m \in {b[t0] + 1, Kept} /\ m <= b[t0] + 1 /\ m <= Kept /\ m \in 0..Kept
    <3>1. b[t0] + 1 \in Nat
        BY <2>6, SMT
    <3>2. m \in {b[t0] + 1, Kept} /\ m <= b[t0] + 1 /\ m <= Kept
        BY <2>0, <2>4, <3>1, MinIs, Zenon
    <3>3. QED
        BY <2>0, <3>1, <3>2, SMT
  <2>8. PICK c \in [Track -> 0..Kept] : c = [b EXCEPT ![t0] = m]
        BY <2>2, <2>7, Zenon
  <2>9. c[t0] = m /\ \A t \in Track : t # t0 => c[t] = b[t]
        BY <1>1, <2>2, <2>8, Zenon
  <2>10. viewer'.listed = a /\ viewer'.since = c /\ viewer' = [listed |-> viewer'.listed, since |-> viewer'.since]
        BY <2>5, <2>8, Zenon
  <2>11. ASSUME NEW t \in Track, NEW n \in a[t]
         PROVE  /\ segments_'[t] # <<>>
                /\ c[t] < Kept =>
                    /\ n <= LastPiece(segments_'[t]).n - c[t]
                    /\ n >= LastPiece(segments_'[t]).n - c[t] - Listed + 1
                /\ Len(segments_'[t]) < Kept => n >= segments_'[t][1].n
    <3>1. /\ segments_[t] # <<>>
          /\ b[t] < Kept => /\ n <= LastPiece(segments_[t]).n - b[t]
                            /\ n >= LastPiece(segments_[t]).n - b[t] - Listed + 1
          /\ Len(segments_[t]) < Kept => n >= segments_[t][1].n
        BY <2>1, <2>2, <2>11, Zenon DEF Rest, ViewerInv
    <3>2. CASE t # t0
        BY <1>8, <2>9, <3>1, <3>2, Zenon
    <3>3. CASE t = t0
      <4>1. segments_[t] = q /\ segments_'[t] = w
            BY <1>8, <3>3, Zenon DEF q
      <4>2. q # <<>> /\ p.n = LastPiece(q).n + 1 /\ LastPiece(q).n \in Nat /\ LastPiece(w) = p
            BY <1>7, <1>9, <3>1, <4>1, Zenon
      <4>3. n \in Nat /\ Listed \in Nat
            BY <2>1, <2>11, M4sAssumption, SMT
      <4>4. ASSUME m < Kept
            PROVE  n <= p.n - m /\ n >= p.n - m - Listed + 1
        <5>1. m = b[t0] + 1 /\ b[t0] < Kept
            BY <2>0, <2>6, <2>7, <4>4, SMT
        <5>2. n <= LastPiece(q).n - b[t0] /\ n >= LastPiece(q).n - b[t0] - Listed + 1
            BY <3>1, <3>3, <4>1, <5>1, Zenon
        <5>3. p.n - m = LastPiece(q).n - b[t0]
            BY <2>6, <4>2, <5>1, SMT
        <5>4. QED
            BY <5>2, <5>3, Zenon
      <4>5. ASSUME Len(w) < Kept PROVE n >= w[1].n
        <5>1. Len(q) < Kept /\ Len(w) = Len(q) + 1
            BY <1>5, <1>6, <2>0, <4>5, SMTT(30)
        <5>2. 1 \in 1..(Len(w) - 1) /\ 1 + (Len(q) + 1 - Len(w)) = 1
            BY <1>5, <4>2, <5>1, SMT
        <5>3. w[1] = q[1]
            BY <1>6, <5>2, Zenon
        <5>4. QED
            BY <3>1, <4>1, <5>1, <5>3, Zenon
      <4>6. QED
            BY <1>6, <2>9, <3>3, <4>1, <4>2, <4>4, <4>5, Zenon
    <3>4. QED
        BY <3>2, <3>3, Zenon
  <2>12. viewer'.listed \in [Track -> SUBSET Nat] /\ viewer'.since \in [Track -> 0..Kept]
        BY <2>1, <2>8, <2>10, Zenon
  <2>13. \A t \in Track : \A n \in viewer'.listed[t] :
            /\ segments_'[t] # <<>>
            /\ viewer'.since[t] < Kept =>
                /\ n <= LastPiece(segments_'[t]).n - viewer'.since[t]
                /\ n >= LastPiece(segments_'[t]).n - viewer'.since[t] - Listed + 1
            /\ Len(segments_'[t]) < Kept => n >= segments_'[t][1].n
        BY <2>10, <2>11, Zenon
  <2>14. QED
        BY <2>10, <2>12, <2>13, Zenon DEF ViewerInv, LastPiece
<1>13. RecorderInv' /\ RecordedManifest'
  <2>1. \A t \in Track : ~On(posted, 1, "rec", t)
        BY DistinctNames, Zenon DEF On
  <2>2. QED
        BY <1>2, <2>1, RecorderStays, Zenon
<1>14. QED
    BY <1>10, <1>11, <1>12, <1>13, TakenKeeps, Zenon DEF Rest

\* A write of the recorder fails.
LEMMA RecFailsStep ==
    ASSUME CutInv, Rest, Taken, posted[1].to = "rec", rec.state = "on", posted[1].track \in Track,
           rec_fails(posted[1]), UNCHANGED mpdVars
    PROVE  CutInv' /\ Rest'
<1>1. /\ UNCHANGED <<mpd_init_, segments_, mpd_, viewer, rec, m4s_segs_, files, manifest>>
      /\ failures' = failures + 1
      /\ rec_init_' = rec_init_ \/ rec_init_' = rec_init_ \cup {posted[1].track}
    BY Zenon DEF rec_fails, mpdVars
<1>2. \A t \in Track : ~On(posted, 1, "mpd", t)
    BY DistinctNames, Zenon DEF On
<1>3. WindowInv' /\ ManifestInv' /\ ViewerInv'
    BY <1>1, <1>2, WindowStays, Zenon DEF Rest, ManifestInv, ViewerInv, LastPiece
<1>4. failures' \in Nat /\ failures' # 0
  <2>1. failures \in Nat
        BY Zenon DEF Rest, RecorderInv
  <2>2. QED
        BY <1>1, <2>1, SMT
<1>5. rec_init_' \subseteq Track /\ rec'.state # "none" /\ rec'.state # "closed"
    BY <1>1, DistinctNames, Zenon DEF Rest, RecorderInv
<1>6. RecorderInv' /\ RecordedManifest'
    BY <1>1, <1>4, <1>5, Zenon DEF Taken, Rest, RecorderInv, RecordedManifest
<1>7. QED
    BY <1>3, <1>6, TakenKeeps, Zenon DEF Rest

\* An init segment comes to the recorder.
LEMMA RecInitStep ==
    ASSUME CutInv, Rest, Taken, posted[1].to = "rec", posted[1].kind = "init", rec.state = "on",
           posted[1].track \in Track, rec_on_init_segment(posted[1]), UNCHANGED mpdVars
    PROVE  CutInv' /\ Rest'
<1>1. /\ UNCHANGED <<mpd_init_, segments_, mpd_, viewer, rec, m4s_segs_, failures, manifest>>
      /\ rec_init_' = rec_init_ \cup {posted[1].track} /\ files' = files \cup {<<posted[1].track, 0>>}
    BY Zenon DEF rec_on_init_segment, mpdVars
<1>2. \A x, t : ~On(posted, 1, x, t)
    BY DistinctNames, Zenon DEF On
<1>3. WindowInv' /\ ManifestInv' /\ ViewerInv'
    BY <1>1, <1>2, WindowStays, Zenon DEF Rest, ManifestInv, ViewerInv, LastPiece
<1>4. rec_init_' \subseteq Track /\ rec'.state # "none" /\ rec'.state # "closed"
    BY <1>1, DistinctNames, Zenon DEF Rest, RecorderInv
<1>5. \A t \in Track, n \in Nat \ {0} : <<t, n>> \in files' <=> <<t, n>> \in files
    BY <1>1, SMT
<1>6. ASSUME ~rec.late, failures = 0, NEW t \in Track
      PROVE  /\ WaitsAfter(posted', "rec", t, Cut(t)', Len(m4s_segs_[t]))
             /\ \A k \in 1..Len(m4s_segs_[t]) : m4s_segs_[t][k].seq_no = k
             /\ \A n \in Nat \ {0} : <<t, n>> \in files' <=> n <= Len(m4s_segs_[t])
  <2>1. /\ WaitsAfter(posted, "rec", t, Cut(t), Len(m4s_segs_[t]))
        /\ \A k \in 1..Len(m4s_segs_[t]) : m4s_segs_[t][k].seq_no = k
        /\ \A n \in Nat \ {0} : <<t, n>> \in files <=> n <= Len(m4s_segs_[t])
        BY <1>6, Zenon DEF Rest, RecorderInv
  <2>2. WaitsAfter(posted', "rec", t, Cut(t), Len(m4s_segs_[t])) /\ Cut(t)' = Cut(t)
        BY <1>2, <2>1, TakenKeeps, Zenon
  <2>3. QED
        BY <1>5, <2>1, <2>2, Zenon
<1>7. RecorderInv' /\ RecordedManifest'
    BY <1>1, <1>4, <1>6, Zenon DEF Taken, Rest, RecorderInv, RecordedManifest
<1>8. QED
    BY <1>3, <1>7, TakenKeeps, Zenon DEF Rest

\* A segment comes to the recorder: it has the number the recorder counts.
LEMMA RecSegmentStep ==
    ASSUME CutInv, Rest, Taken, posted[1].to = "rec", posted[1].kind = "seg", rec.state = "on",
           rec_on_segment(posted[1]), UNCHANGED mpdVars
    PROVE  CutInv' /\ Rest'
<1> DEFINE t0 == posted[1].track
           g == posted[1].seg
           e == [seq_no |-> Len(m4s_segs_[t0]) + 1, file |-> g.n]
<1>0. posted \in Seq(Event) /\ posted # <<>> /\ posted' = Tail(posted) /\ 1 \in 1..Len(posted)
  <2>1. posted \in Seq(Event) /\ posted # <<>> /\ posted' = Tail(posted)
        BY Zenon DEF Rest, QueueInv, Taken
  <2>2. QED
        BY <2>1, SMT
<1>1. t0 \in Track /\ g \in Piece /\ g.n \in Nat
    BY <1>0, EventIs, Zenon
<1>2. /\ UNCHANGED <<mpd_init_, segments_, mpd_, viewer, rec, rec_init_, failures, manifest>>
      /\ files' = files \cup {<<t0, g.n>>}
      /\ m4s_segs_' = [m4s_segs_ EXCEPT ![t0] = Append(m4s_segs_[t0], e)]
    BY Zenon DEF rec_on_segment, mpdVars, SeqNo
<1>3. \A t \in Track : ~On(posted, 1, "mpd", t)
    BY DistinctNames, Zenon DEF On
<1>4. WindowInv' /\ ManifestInv' /\ ViewerInv'
    BY <1>2, <1>3, WindowStays, Zenon DEF Rest, ManifestInv, ViewerInv, LastPiece
<1>5. /\ "rec" \in sinks_ /\ InOrder(posted, "rec", t0, Cut(t0), seg_[t0].end) /\ Cut(t0) \in Nat
      /\ On(posted, 1, "rec", t0) /\ \A t \in Track : t # t0 => ~On(posted, 1, "rec", t)
  <2>1. "rec" \in sinks_
        BY Zenon DEF Rest, RecorderInv
  <2>2. InOrder(posted, "rec", t0, Cut(t0), seg_[t0].end)
        BY <1>1, <2>1, Zenon DEF Rest, QueueInv
  <2>3. Cut(t0) \in Nat
        BY <1>1, SMT DEF CutInv, Cut
  <2>4. QED
        BY <1>0, <2>1, <2>2, <2>3, Zenon DEF On
<1>6. WaitsAfter(posted', "rec", t0, Cut(t0), g.n)
    BY <1>0, <1>5, AfterHead, Zenon DEF GoesOn
<1>e. e.seq_no = Len(m4s_segs_[t0]) + 1
    BY Zenon
<1>n. ASSUME NEW n \in Nat, WaitsAfter(posted, "rec", t0, Cut(t0), n) PROVE g.n = n + 1
    BY <1>0, <1>5, <1>n, NextWaits, SMT
<1> HIDE DEF t0, g, e
<1>7. DOMAIN m4s_segs_ = Track /\ DOMAIN m4s_segs_' = Track
      /\ m4s_segs_'[t0] = Append(m4s_segs_[t0], e) /\ \A t \in Track : t # t0 => m4s_segs_'[t] = m4s_segs_[t]
    BY <1>1, <1>2, Zenon DEF Rest, RecorderInv
<1>8. PICK S : m4s_segs_[t0] \in Seq(S) /\ e \in S
  <2>1. PICK R : m4s_segs_[t0] \in Seq(R)
        BY <1>1, Zenon DEF Rest, RecorderInv
  <2>2. m4s_segs_[t0] \in Seq(R \cup {e})
        BY <2>1, SMT
  <2>3. e \in R \cup {e}
        BY Zenon
  <2>4. QED
        BY <2>2, <2>3, Zenon
<1>9. PICK K \in Nat : K = Len(m4s_segs_[t0])
  <2>1. m4s_segs_[t0] \in Seq(S)
        BY <1>8, Zenon
  <2>2. Len(m4s_segs_[t0]) \in Nat
        BY <2>1, SMT
  <2>3. QED
        BY <2>2, Zenon
<1>10. /\ m4s_segs_'[t0] \in Seq(S) /\ Len(m4s_segs_'[t0]) = K + 1 /\ m4s_segs_'[t0][K + 1] = e
       /\ \A i \in 1..K : m4s_segs_'[t0][i] = m4s_segs_[t0][i]
    BY <1>7, <1>8, <1>9, AppendIs, SMT
<1>11. \A t \in Track : \E R : m4s_segs_'[t] \in Seq(R)
    BY <1>7, <1>10, Zenon DEF Rest, RecorderInv
<1>12. rec'.state # "none" /\ rec'.state # "closed"
    BY <1>2, DistinctNames, Zenon
<1>13. ASSUME ~rec.late, failures = 0, NEW t \in Track
       PROVE  /\ WaitsAfter(posted', "rec", t, Cut(t)', Len(m4s_segs_'[t]))
              /\ \A k \in 1..Len(m4s_segs_'[t]) : m4s_segs_'[t][k].seq_no = k
              /\ \A n \in Nat \ {0} : <<t, n>> \in files' <=> n <= Len(m4s_segs_'[t])
  <2>0. Cut(t)' = Cut(t)
        BY TakenKeeps, Zenon
  <2>1. /\ WaitsAfter(posted, "rec", t, Cut(t), Len(m4s_segs_[t]))
        /\ \A k \in 1..Len(m4s_segs_[t]) : m4s_segs_[t][k].seq_no = k
        /\ \A n \in Nat \ {0} : <<t, n>> \in files <=> n <= Len(m4s_segs_[t])
        BY <1>13, Zenon DEF Rest, RecorderInv
  <2>2. CASE t = t0
    <3>1. g.n = K + 1
        BY <1>9, <1>n, <2>1, <2>2, Zenon
    <3>2. WaitsAfter(posted', "rec", t, Cut(t)', Len(m4s_segs_'[t]))
        BY <1>6, <1>10, <2>0, <2>2, <3>1, Zenon
    <3>3. ASSUME NEW k \in 1..(K + 1) PROVE m4s_segs_'[t0][k].seq_no = k
      <4>1. k = K + 1 \/ k \in 1..K
            BY SMT
      <4>2. QED
            BY <1>9, <1>10, <1>e, <2>1, <2>2, <4>1, Zenon
    <3>4. ASSUME NEW n \in Nat \ {0} PROVE <<t0, n>> \in files' <=> n <= K + 1
      <4>1. <<t0, n>> \in files' <=> (<<t0, n>> \in files \/ n = K + 1)
            BY <1>2, <3>1, SMT
      <4>2. <<t0, n>> \in files <=> n <= K
            BY <1>9, <2>1, <2>2, Zenon
      <4>3. n <= K \/ n = K + 1 <=> n <= K + 1
            BY SMT
      <4>4. QED
            BY <4>1, <4>2, <4>3, Zenon
    <3>5. QED
        BY <1>10, <2>2, <3>2, <3>3, <3>4, Zenon
  <2>3. CASE t # t0
    <3>1. WaitsAfter(posted', "rec", t, Cut(t), Len(m4s_segs_[t]))
        BY <1>5, <2>1, <2>3, TakenKeeps, Zenon
    <3>2. \A n \in Nat \ {0} : <<t, n>> \in files' <=> <<t, n>> \in files
        BY <1>2, <2>3, SMT
    <3>3. QED
        BY <1>7, <2>0, <2>1, <2>3, <3>1, <3>2, Zenon
  <2>4. QED
        BY <2>2, <2>3, Zenon
<1>14. RecorderInv' /\ RecordedManifest'
    BY <1>2, <1>7, <1>11, <1>12, <1>13, Zenon DEF Taken, Rest, RecorderInv, RecordedManifest
<1>15. QED
    BY <1>4, <1>14, TakenKeeps, Zenon DEF Rest

\* The worker runs what was posted first.
LEMMA DeliverStep ==
    ASSUME CutInv, Rest, deliver
    PROVE  CutInv' /\ Rest'
<1>1. posted # <<>> /\ posted' = Tail(posted) /\ UNCHANGED <<sourceVars, bridgeVars, sinks_>> /\ posted \in Seq(Event)
    BY Zenon DEF deliver, Rest, QueueInv
<1>2. Head(posted) = posted[1] /\ 1 \in 1..Len(posted)
    BY <1>1, SMT
<1>3. posted[1].track \in Track /\ posted[1].kind \in {"init", "seg"}
    BY <1>1, <1>2, EventIs, Zenon
<1>4. \/ /\ posted[1].to = "mpd"
         /\ IF posted[1].kind = "init" THEN mpd_on_init_segment(posted[1]) ELSE mpd_on_segment(posted[1])
         /\ UNCHANGED recVars
      \/ /\ posted[1].to = "rec" /\ rec.state = "on"
         /\ \/ rec_fails(posted[1])
            \/ IF posted[1].kind = "init" THEN rec_on_init_segment(posted[1]) ELSE rec_on_segment(posted[1])
         /\ UNCHANGED mpdVars
      \/ /\ posted[1].to = "rec" /\ rec.state = "closed"
         /\ UNCHANGED <<recVars, mpdVars>>
    BY <1>2, Zenon DEF deliver
<1>5. rec' = rec
    BY <1>4, Zenon DEF recVars, rec_fails, rec_on_init_segment, rec_on_segment
<1>6. Taken
    BY <1>1, <1>5, Zenon DEF Taken
<1>7. CASE posted[1].to = "mpd" /\ UNCHANGED recVars
           /\ IF posted[1].kind = "init" THEN mpd_on_init_segment(posted[1]) ELSE mpd_on_segment(posted[1])
  <2>1. CASE posted[1].kind = "init"
        BY <1>3, <1>6, <1>7, <2>1, MpdInitStep, Zenon
  <2>2. CASE posted[1].kind = "seg"
        BY <1>6, <1>7, <2>2, DistinctNames, MpdSegmentStep, Zenon
  <2>3. QED
        BY <1>3, <2>1, <2>2, Zenon
<1>8. CASE posted[1].to = "rec" /\ rec.state = "on" /\ UNCHANGED mpdVars /\ rec_fails(posted[1])
    BY <1>3, <1>6, <1>8, RecFailsStep, Zenon
<1>9. CASE posted[1].to = "rec" /\ rec.state = "on" /\ UNCHANGED mpdVars
           /\ IF posted[1].kind = "init" THEN rec_on_init_segment(posted[1]) ELSE rec_on_segment(posted[1])
  <2>1. CASE posted[1].kind = "init"
        BY <1>3, <1>6, <1>9, <2>1, RecInitStep, Zenon
  <2>2. CASE posted[1].kind = "seg"
        BY <1>6, <1>9, <2>2, DistinctNames, RecSegmentStep, Zenon
  <2>3. QED
        BY <1>3, <2>1, <2>2, Zenon
<1>10. CASE posted[1].to = "rec" /\ rec.state = "closed" /\ UNCHANGED <<recVars, mpdVars>>
  <2>1. UNCHANGED <<mpd_init_, segments_, mpd_, viewer, rec, rec_init_, m4s_segs_, files, failures, manifest>>
        BY <1>10, Zenon DEF recVars, mpdVars
  <2>2. \A t \in Track : ~On(posted, 1, "mpd", t)
        BY <1>10, DistinctNames, Zenon DEF On
  <2>3. rec.state # "on"
        BY <1>10, DistinctNames, Zenon
  <2>4. WindowInv' /\ RecorderInv' /\ RecordedManifest'
        BY <1>6, <2>1, <2>2, <2>3, WindowStays, RecorderStays, Zenon
  <2>5. ManifestInv' /\ ViewerInv'
        BY <2>1, Zenon DEF Rest, ManifestInv, ViewerInv, LastPiece
  <2>6. QED
        BY <1>6, <2>4, <2>5, TakenKeeps, Zenon DEF Rest
<1>11. QED
    BY <1>4, <1>7, <1>8, <1>9, <1>10, Zenon

-----------------------------------------------------------------------------
(* The theorems.                                                           *)

LEMMA Starts == Init => M4sInv
<1> SUFFICES ASSUME Init PROVE M4sInv
    BY Zenon
<1>1. /\ sent = ByTrack(0) /\ codec_ = ByTrack("none") /\ pkts_ = ByTrack(<<>>) /\ seq_no_ = ByTrack(1)
      /\ seg_ = ByTrack(NoSeg) /\ segments_ = ByTrack(<<>>) /\ mpd_ = ByTrack(<<>>) /\ m4s_segs_ = ByTrack(<<>>)
      /\ posted = <<>> /\ sinks_ = {} /\ files = {} /\ rec_init_ = {} /\ failures = 0
      /\ viewer = [listed |-> ByTrack({}), since |-> ByTrack(0)]
      /\ rec = [state |-> "none", late |-> FALSE] /\ metadata_ = FALSE /\ crashed = FALSE
    BY Zenon DEF Init
<1>2. stream \in [Track -> VideoCodecs \cup AudioCodecs]
    BY Zenon DEF Init
<1>3. CutInv
  <2>1. codec_ \in [Track -> VideoCodecs \cup AudioCodecs \cup {"none"}]
        BY <1>1, SMT DEF ByTrack
  <2>2. sent \in [Track -> Nat] /\ seq_no_ \in [Track -> Nat \ {0}] /\ pkts_ \in [Track -> Seq(Packet)]
        BY <1>1, SMT DEF ByTrack
  <2>3. DOMAIN seg_ = Track
        BY <1>1, Zenon DEF ByTrack
  <2>4. ASSUME NEW t \in Track
        PROVE  /\ Cut(t) = 0 /\ Cut(t) <= sent[t] /\ sent[t] <= Len(FrameTimes[t])
               /\ seg_[t].n = Cut(t) /\ seg_[t] = NoSeg /\ ~(Cut(t) > 0)
    <3>1. seq_no_[t] = 1 /\ sent[t] = 0 /\ seg_[t] = NoSeg
          BY <1>1, Zenon DEF ByTrack
    <3>2. NoSeg.n = 0
          BY Zenon DEF NoSeg
    <3>3. FrameTimes[t] \in Seq(Nat)
          BY M4sAssumption, Zenon
    <3>4. Len(FrameTimes[t]) \in Nat
          BY <3>3, SMT
    <3>5. QED
          BY <3>1, <3>2, <3>4, SMT DEF Cut
  <2>5. QED
        BY <1>1, <1>2, <2>1, <2>2, <2>3, <2>4, Zenon DEF CutInv
<1>4. posted \in Seq(Event) /\ 1..Len(posted) = {}
    BY <1>1, SMT
<1>5. rec.state = "none"
    BY <1>1, Zenon
<1>6. QueueInv
    BY <1>1, <1>4, Zenon DEF QueueInv
<1>7. WindowInv
  <2>1. segments_ \in [Track -> Seq(Piece)]
        BY <1>1, SMT DEF ByTrack
  <2>2. \A t \in Track : segments_[t] = <<>>
        BY <1>1, Zenon DEF ByTrack
  <2>3. Len(<<>>) <= Kept /\ 1..Len(<<>>) = {} /\ 1..(Len(<<>>) - 1) = {}
        BY M4sAssumption, SMT
  <2>4. QED
        BY <1>1, <2>1, <2>2, <2>3, Zenon DEF WindowInv
<1>8. ManifestInv
    BY <1>1, Zenon DEF ManifestInv
<1>9. ViewerInv
  <2>1. viewer.listed = ByTrack({}) /\ viewer.since = ByTrack(0)
        BY <1>1, Zenon
  <2>2. \A t \in Track : viewer.listed[t] = {}
        BY <2>1, Zenon DEF ByTrack
  <2>3. viewer.listed \in [Track -> SUBSET Nat] /\ viewer.since \in [Track -> 0..Kept]
        BY <2>1, M4sAssumption, SMT DEF ByTrack
  <2>4. viewer = [listed |-> viewer.listed, since |-> viewer.since]
        BY <1>1, <2>1, Zenon
  <2>5. QED
        BY <2>2, <2>3, <2>4, Zenon DEF ViewerInv
<1>10. RecorderInv
  <2>1. rec = [state |-> rec.state, late |-> rec.late]
        BY <1>1, Zenon
  <2>2. DOMAIN m4s_segs_ = Track
        BY <1>1, Zenon DEF ByTrack
  <2>3. ASSUME NEW t \in Track PROVE \E S : m4s_segs_[t] \in Seq(S)
    <3>1. m4s_segs_[t] = <<>>
          BY <1>1, Zenon DEF ByTrack
    <3>2. <<>> \in Seq(Nat)
          BY SMT
    <3>3. QED
          BY <3>1, <3>2, Zenon
  <2>4. failures \in Nat
        BY <1>1, SMT
  <2>5. QED
        BY <1>1, <1>5, <2>1, <2>2, <2>3, <2>4, DistinctNames, Zenon DEF RecorderInv
<1>11. RecordedManifest
    BY <1>5, DistinctNames, Zenon DEF RecordedManifest
<1>12. QED
    BY <1>3, <1>6, <1>7, <1>8, <1>9, <1>10, <1>11, Zenon DEF M4sInv

LEMMA StutterStep ==
    ASSUME CutInv, Rest, UNCHANGED vars
    PROVE  CutInv' /\ Rest'
<1>1. UNCHANGED <<stream, sent, metadata_, codec_, seq_no_, seg_, pkts_, crashed, sinks_, posted, mpdVars, recVars>>
    BY Zenon DEF vars, sourceVars, bridgeVars
<1>2. CutInv
    BY Zenon
<1>3. sent' \in [Track -> Nat] /\ \A u \in Track : sent[u] <= sent'[u] /\ sent'[u] <= Len(FrameTimes[u])
    BY <1>1, SentStays, Zenon
<1>4. codec_' \in [Track -> VideoCodecs \cup AudioCodecs \cup {"none"}] /\ (metadata_' => codec_' = stream)
      /\ (crashed' => \E t \in Track : stream[t] = "none")
    BY <1>1, <1>2, Zenon DEF CutInv
<1>5. QED
    BY <1>1, <1>3, <1>4, NoCutStep, Zenon

LEMMA Steps ==
    ASSUME CutInv, Rest, [Next]_vars
    PROVE  CutInv' /\ Rest'
<1>1. CASE on_metadata
    BY <1>1, MetadataStep, Zenon
<1>2. CASE \E t \in Track : seq_header(t)
    BY <1>2, HeaderStep, Zenon
<1>3. CASE \E is_key \in BOOLEAN, size \in VideoBytes : on_video_packet(is_key, size)
    BY <1>3, VideoStep, Zenon
<1>4. CASE \E size \in AudioBytes : on_audio_packet(size)
    BY <1>4, AudioStep, Zenon
<1>5. CASE get_or_create_bridge
    BY <1>5, BridgeStep, Zenon
<1>6. CASE get_mpd
    BY <1>6, ReadStep, Zenon
<1>7. CASE M4sRecorder_init
    BY <1>7, RecorderStep, Zenon
<1>8. CASE M4sRecorder_close
    BY <1>8, CloseStep, Zenon
<1>9. CASE deliver
    BY <1>9, DeliverStep, Zenon
<1>10. CASE UNCHANGED vars
    BY <1>10, StutterStep, Zenon
<1>11. QED
    BY <1>1, <1>2, <1>3, <1>4, <1>5, <1>6, <1>7, <1>8, <1>9, <1>10, Zenon DEF Next

\* The inductive invariant holds: the queue of the worker, the window of the live
\* manifest and the recorder's list agree with what the bridge has cut.
THEOREM Invariance == Spec => []M4sInv
<1>1. M4sInv <=> CutInv /\ Rest
    BY Zenon DEF M4sInv, Rest
<1>2. M4sInv /\ [Next]_vars => M4sInv'
  <2> SUFFICES ASSUME M4sInv, [Next]_vars PROVE M4sInv'
        BY Zenon
  <2>1. CutInv' /\ Rest'
        BY <1>1, Steps, Zenon
  <2>2. QED
        BY <2>1, Zenon DEF M4sInv, Rest
<1>3. QED
    BY Starts, <1>2, PTL DEF Spec

\* Consecutive numbers and times in the manifest (update_mpd).
LEMMA ListIsConsecutive ==
    ASSUME M4sInv, NEW t \in Track, NEW k \in 1..(Len(mpd_[t]) - 1)
    PROVE  mpd_[t][k + 1].n = mpd_[t][k].n + 1 /\ mpd_[t][k + 1].start = mpd_[t][k].end
<1>1. CASE mpd_ = ByTrack(<<>>)
  <2>1. mpd_[t] = <<>>
        BY <1>1, Zenon DEF ByTrack
  <2>2. QED
        BY <2>1, SMT
<1>2. CASE mpd_ = [u \in Track |-> LastOf(segments_[u], Listed)]
  <2> DEFINE q == segments_[t]
             l == LastOf(q, Listed)
  <2>1. mpd_[t] = l /\ q \in Seq(Piece) /\ Listed \in Nat \ {0}
    <3>1. mpd_[t] = l /\ q \in Seq(Piece)
          BY <1>2, Zenon DEF M4sInv, WindowInv
    <3>2. Listed \in Nat \ {0}
          BY M4sAssumption, SMT
    <3>3. QED
          BY <3>1, <3>2, Zenon
  <2>2. /\ l \in Seq(Piece) /\ Len(l) <= Len(q)
        /\ \A i \in 1..Len(l) : i + (Len(q) - Len(l)) \in 1..Len(q) /\ l[i] = q[i + (Len(q) - Len(l))]
        BY <2>1, LastOfIs, Zenon
  <2>3. /\ \A i \in 1..Len(q) : q[i].n = LastPiece(q).n - (Len(q) - i)
        /\ \A i \in 1..(Len(q) - 1) : q[i + 1].start = q[i].end
        BY Zenon DEF M4sInv, WindowInv
  <2> HIDE DEF q, l
  <2>a. Len(q) \in Nat /\ Len(l) \in Nat /\ Len(l) <= Len(q)
    <3>1. Len(q) \in Nat
          BY <2>1, SMT
    <3>2. Len(l) \in Nat
          BY <2>2, SMT
    <3>3. QED
          BY <2>2, <3>1, <3>2, Zenon
  <2>4. PICK d \in Nat, m \in Nat : d = Len(q) - Len(l) /\ m = Len(l) /\ Len(q) = m + d
    <3>1. Len(q) - Len(l) \in Nat /\ Len(q) = Len(l) + (Len(q) - Len(l))
          BY <2>a, SMT
    <3>2. QED
          BY <2>a, <3>1, Zenon
  <2>5. k \in 1..m /\ k + 1 \in 1..m /\ k \in Nat /\ (k + 1) + d = (k + d) + 1 /\ k + d \in 1..(m + d - 1)
        BY <2>1, <2>4, SMT
  <2>6. l[k] = q[k + d] /\ l[k + 1] = q[(k + d) + 1] /\ k + d \in 1..Len(q) /\ (k + d) + 1 \in 1..Len(q)
        BY <2>2, <2>4, <2>5, Zenon
  <2>7. l[k + 1].start = l[k].end
    <3>1. k + d \in 1..(Len(q) - 1)
          BY <2>4, <2>5
    <3>2. q[(k + d) + 1].start = q[k + d].end
          BY <2>3, <3>1, Zenon
    <3>3. QED
          BY <2>6, <3>2, Zenon
  <2>8. l[k].n = LastPiece(q).n - (Len(q) - (k + d)) /\ l[k + 1].n = LastPiece(q).n - (Len(q) - ((k + d) + 1))
        BY <2>3, <2>6, Zenon
  <2>9. LastPiece(q).n \in Nat
    <3>1. Len(q) \in 1..Len(q)
          BY <2>4, <2>5, SMT
    <3>2. LastPiece(q) \in Piece
          BY <2>1, <3>1, SMT DEF LastPiece
    <3>3. QED
          BY <3>2, Zenon DEF Piece
  <2>10. l[k + 1].n = l[k].n + 1
    <3>1. PICK z \in Nat, y \in Nat : z = LastPiece(q).n /\ y = Len(q)
          BY <2>9, <2>a, Zenon
    <3>2. z - (y - ((k + d) + 1)) = z - (y - (k + d)) + 1
          BY <2>4, <2>5, SMT
    <3>3. QED
          BY <2>8, <3>1, <3>2, Zenon
  <2>11. QED
        BY <2>1, <2>7, <2>10, Zenon
<1>3. QED
    BY <1>1, <1>2, Zenon DEF M4sInv, ManifestInv

\* What a viewer has read is still kept (get_mp4_segment).
LEMMA ListedIsKept ==
    ASSUME M4sInv, NEW t \in Track, viewer.since[t] <= Kept - Listed, NEW n \in viewer.listed[t]
    PROVE  get_mp4_segment(t, n)
<1> DEFINE q == segments_[t]
           last == LastPiece(q).n
           k == n - (last - Len(q))
<1>1. /\ q \in Seq(Piece) /\ q # <<>> /\ Len(q) <= Kept
      /\ \A i \in 1..Len(q) : q[i].n = last - (Len(q) - i)
      /\ viewer.since[t] < Kept => n <= last - viewer.since[t] /\ n >= last - viewer.since[t] - Listed + 1
      /\ Len(q) < Kept => n >= q[1].n
      /\ viewer.since[t] \in 0..Kept /\ n \in Nat
    BY Zenon DEF M4sInv, WindowInv, ViewerInv
<1>2. Len(q) \in Nat /\ 1 \in 1..Len(q) /\ Len(q) \in 1..Len(q)
    BY <1>1, SMT
<1>3. last \in Nat
  <2>1. LastPiece(q) \in Piece
        BY <1>1, <1>2, SMT DEF LastPiece
  <2>2. QED
        BY <2>1, Zenon DEF Piece
<1>4. q[1].n = last - (Len(q) - 1)
    BY <1>1, <1>2, Zenon
<1>5. DOMAIN q = 1..Len(q)
    BY <1>1, SMT
<1> SUFFICES \E i \in DOMAIN q : q[i].n = n
    BY Zenon DEF get_mp4_segment
<1>6. Kept \in Nat /\ Listed \in 1..Kept
    BY M4sAssumption, Zenon
<1> HIDE DEF q, last
<1>7. n <= last - viewer.since[t] /\ n >= last - viewer.since[t] - Listed + 1
    BY <1>1, <1>6, SMT
<1>8. k \in 1..Len(q) /\ last - (Len(q) - k) = n
  <2>1. PICK z \in Nat, y \in Nat, f \in 0..Kept : z = last /\ y = Len(q) /\ f = viewer.since[t]
        BY <1>1, <1>2, <1>3, Zenon
  <2>2. y >= 1 /\ y <= Kept /\ (y < Kept => n >= z - (y - 1)) /\ n <= z - f /\ n >= z - f - Listed + 1
        /\ f <= Kept - Listed /\ n \in Nat
    <3>1. 1 <= Len(q)
          BY <1>2, SMT
    <3>2. QED
          BY <1>1, <1>4, <1>7, <2>1, <3>1, Zenon
  <2>3. n - (z - y) \in 1..y /\ z - (y - (n - (z - y))) = n
        BY <1>6, <2>2, SMT
  <2>4. QED
        BY <2>1, <2>3, Zenon
<1>9. q[k].n = n
    BY <1>1, <1>8, Zenon
<1>10. QED
    BY <1>5, <1>8, <1>9, Zenon

\* The live manifest lists consecutive numbers and times, and what a viewer has read
\* can be fetched until more segments have come than are kept beyond the listed
\* ones, for every window (MpdLiveMediaSource::update_mpd, get_mp4_segment).
THEOREM FetchInTimeHolds == Spec => []FetchInTime
<1>1. M4sInv => FetchInTime
    BY ListIsConsecutive, ListedIsKept, Zenon DEF FetchInTime
<1>2. QED
    BY <1>1, Invariance, PTL

\* The manifest of a recording names the files that were written, all of them and no
\* others, if the recorder was there from the first segment and no write failed, for
\* every stream and every queue (M4sRecorder::on_video_segment, on_audio_segment, gen_mpd).
THEOREM RecordedManifestHolds == Spec => []RecordedManifest
<1>1. M4sInv => RecordedManifest
    BY Zenon DEF M4sInv
<1>2. QED
    BY <1>1, Invariance, PTL

\* Who cuts (mux) numbers with seq_no_ and begins with the first packet that was kept.
CutsAsCounted == \A t \in Track : seg_'[t] # seg_[t] =>
    seg_'[t].n = seq_no_[t] /\ seg_'[t].start = pkts_[t][1].ts

LEMMA MuxCuts ==
    ASSUME DOMAIN seg_ = Track, NEW t \in Track, NEW reaps, NEW p, mux(t, reaps, p)
    PROVE  CutsAsCounted
<1>1. CASE reaps
  <2>1. seg_' = [seg_ EXCEPT ![t] = reap_seg(pkts_[t], p.ts, seq_no_[t])]
        BY <1>1, Zenon DEF mux
  <2>2. QED
    <3>1. \A u \in Track : u # t => seg_'[u] = seg_[u]
          BY <2>1, Zenon
    <3>2. seg_'[t].n = seq_no_[t] /\ seg_'[t].start = pkts_[t][1].ts
      <4>1. seg_'[t] = reap_seg(pkts_[t], p.ts, seq_no_[t])
            BY <2>1, Zenon
      <4>2. reap_seg(pkts_[t], p.ts, seq_no_[t]).n = seq_no_[t]
            /\ reap_seg(pkts_[t], p.ts, seq_no_[t]).start = pkts_[t][1].ts
            BY ReapIs, SMT
      <4>3. QED
            BY <4>1, <4>2, Zenon
    <3>3. QED
          BY <3>1, <3>2, Zenon DEF CutsAsCounted
<1>2. CASE ~reaps
    BY <1>2, Zenon DEF mux, CutsAsCounted
<1>3. QED
    BY <1>1, <1>2, Zenon

LEMMA StepCuts ==
    ASSUME CutInv, [Next]_vars
    PROVE  CutsAsCounted /\ stream' = stream
<1>0. DOMAIN seg_ = Track /\ "video" \in Track /\ "audio" \in Track
    BY Zenon DEF CutInv, Track
<1>1. seg_' = seg_ => CutsAsCounted
    BY Zenon DEF CutsAsCounted
<1>2. CASE on_metadata
    BY <1>1, <1>2, Zenon DEF on_metadata, sourceVars
<1>3. CASE \E t \in Track : seq_header(t)
  <2>1. PICK t \in Track : seq_header(t)
        BY <1>3, Zenon
  <2>2. stream' = stream
        BY <2>1, Zenon DEF seq_header
  <2>3. seg_' = seg_
        BY <2>1, Zenon DEF seq_header, Fails
  <2>4. QED
        BY <1>1, <2>2, <2>3, Zenon
<1>4. CASE \E is_key \in BOOLEAN, size \in VideoBytes : on_video_packet(is_key, size)
  <2>1. PICK is_key \in BOOLEAN, size \in VideoBytes : on_video_packet(is_key, size)
        BY <1>4, Zenon
  <2>2. stream' = stream /\ process_h264_packet(is_key, Timestamp("video"), size)
        BY <2>1, Zenon DEF on_video_packet
  <2>3. seg_' = seg_ \/ \E reaps, p : mux("video", reaps, p)
        BY <2>2, Zenon DEF process_h264_packet, Crash, Fails
  <2>4. QED
        BY <1>0, <1>1, <2>2, <2>3, MuxCuts, Zenon
<1>5. CASE \E size \in AudioBytes : on_audio_packet(size)
  <2>1. PICK size \in AudioBytes : on_audio_packet(size)
        BY <1>5, Zenon
  <2>2. /\ stream' = stream
        /\ Fails \/ UNCHANGED bridgeVars \/ process_aac_packet(Timestamp("audio"), size)
        BY <2>1, Zenon DEF on_audio_packet
  <2>3. seg_' = seg_ \/ \E reaps, p : mux("audio", reaps, p)
        BY <2>2, Zenon DEF process_aac_packet, Crash, Fails, bridgeVars
  <2>4. QED
        BY <1>0, <1>1, <2>2, <2>3, MuxCuts, Zenon
<1>6. CASE get_or_create_bridge \/ get_mpd \/ M4sRecorder_init \/ M4sRecorder_close \/ deliver \/ UNCHANGED vars
  <2>1. UNCHANGED <<sourceVars, bridgeVars>>
        BY <1>6, Zenon DEF get_or_create_bridge, get_mpd, M4sRecorder_init, M4sRecorder_close, deliver, vars
  <2>2. QED
        BY <1>1, <2>1, Zenon DEF sourceVars, bridgeVars
<1>7. QED
    BY <1>2, <1>3, <1>4, <1>5, <1>6, Zenon DEF Next

\* A track is cut without gap or overlap, with consecutive numbers, for every stream,
\* every sequence of frame times and all limits on a segment; the process is lost only
\* with a stream of one track (process_h264_packet, process_aac_packet).
THEOREM SegmentsTileHolds == Spec => SegmentsTile
<1> DEFINE Tiles ==
        /\ crashed' => \E t \in Track : stream[t] = "none"
        /\ \A t \in Track : seg_'[t] # seg_[t] =>
            /\ seg_'[t].n = seg_[t].n + 1
            /\ seg_[t] # NoSeg => seg_'[t].start = seg_[t].end
<1>1. M4sInv /\ M4sInv' /\ [Next]_vars => Tiles
  <2> SUFFICES ASSUME M4sInv, M4sInv', [Next]_vars PROVE Tiles
        BY Zenon
  <2>1. CutInv /\ CutInv'
        BY Zenon DEF M4sInv
  <2>2. CutsAsCounted /\ stream' = stream
        BY <2>1, StepCuts, Zenon
  <2>3. crashed' => \E t \in Track : stream[t] = "none"
        BY <2>1, <2>2, Zenon DEF CutInv
  <2>4. ASSUME NEW t \in Track, seg_'[t] # seg_[t]
        PROVE  /\ seg_'[t].n = seg_[t].n + 1
               /\ seg_[t] # NoSeg => seg_'[t].start = seg_[t].end
    <3>1. /\ seq_no_[t] \in Nat \ {0} /\ seg_[t].n = Cut(t) /\ (Cut(t) = 0 => seg_[t] = NoSeg)
          /\ Cut(t) > 0 => pkts_[t][1].ts = seg_[t].end
          BY <2>1, Zenon DEF CutInv
    <3>2. seg_'[t].n = seq_no_[t] /\ seg_'[t].start = pkts_[t][1].ts
          BY <2>2, <2>4, Zenon DEF CutsAsCounted
    <3>3. seq_no_[t] = Cut(t) + 1 /\ (Cut(t) = 0 \/ Cut(t) > 0)
          BY <3>1, SMT DEF Cut
    <3>4. QED
          BY <3>1, <3>2, <3>3, Zenon
  <2>5. QED
        BY <2>3, <2>4, Zenon
<1>2. M4sInv /\ M4sInv' /\ [Next]_vars => [Tiles]_vars
    BY <1>1, Zenon
<1>3. QED
    BY <1>2, Invariance, PTL DEF Spec, SegmentsTile
=============================================================================
