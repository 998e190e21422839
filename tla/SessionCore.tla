---------------------------- MODULE SessionCore ----------------------------
(***************************************************************************)
(* What the player sessions of the server share: a media source, the sink  *)
(* the session hangs on it, the channel and the send coroutines that write *)
(* to the connection, and the coroutine stop() spawns.                     *)
(*                                                                         *)
(* A session lives on one worker, so a step is what runs between two       *)
(* awaits; the source lives on another and its steps come in between.      *)
(* Three records hold the state: src (the source), s (the session and its  *)
(* sink) and c (the connection).  Handlers are composed from operators     *)
(* that map such a record to the next one, as the code composes calls.     *)
(***************************************************************************)
EXTENDS Naturals, Sequences

CONSTANTS
    MaxFrames,    \* bound: batches of media the source gives the sink
    MaxStatus     \* bound: calls of set_status

VARIABLES src, s, c
vars == <<src, s, c>>

Statuses == {"ok", "other"}      \* OK, or one of the codes that mean no stream

\* A live source that has not been given a status, or is already serving.
SourceStart(status) ==
    [live |-> TRUE, status |-> status, notify |-> FALSE, sets |-> 0, frames |-> 0,
     held |-> FALSE,          \* WebRTC: sinks_mtx_ is held while a packet is handed over
     lost |-> FALSE]          \* WebRTC: the coroutine that fed the source was thrown out

SessionStart(kind) ==
    [kind    |-> kind,
     pc      |-> "begin",     \* where start(), or the request handler, is
     sink    |-> "none",      \* "none", "set", "null" (reset by stop)
     joined  |-> FALSE,       \* the sink is in the source's sinks_
     linked  |-> FALSE,       \* the sink's source_ is not null
     cbs     |-> {},          \* callbacks the sink holds
     posted  |-> <<>>,        \* status notifications on their way
     told    |-> 0,           \* history: status notifications handled
     asked   |-> FALSE,       \* has_send_http_header_
     heads   |-> <<>>,        \* status handlers inside write_header
     flvhead |-> FALSE,       \* has_write_flv_header_
     senders |-> <<>>,        \* the send coroutines: "wait", "head", "write", "end"
     q       |-> <<>>,        \* what the channel holds
     chan    |-> TRUE,        \* the channel is open
     closing |-> 0,           \* sink->close() calls the source has posted
     closed  |-> FALSE,       \* closed_
     stopper |-> "none",      \* stop()'s coroutine: "queued", "wait", "done"
     crashed |-> FALSE,       \* a null pointer was used
     cmds    |-> 0,           \* RTMP, RTSP: commands read from the peer
     todo    |-> <<>>,        \* RTMP: messages the handler has still to send
     after   |-> "recv",      \* RTMP: what it does then
     item    |-> <<>>,        \* RTMP, RTSP: what the send coroutine is writing
     waits   |-> {},          \* RTMP: coroutines waiting on their wait_channel
     tcp     |-> FALSE,       \* RTSP: is_tcp_transport_
     play    |-> FALSE,       \* RTSP: play_source_ is set
     media   |-> "none",      \* RTSP: rtsp_media_source_ "none", "bare", "sdp"
     orphan  |-> FALSE,       \* RTSP: a sink in sinks_ the session forgot
     handed  |-> FALSE,       \* stop()'s coroutine is posted behind another one
     refusal |-> <<>>]        \* history: the answer the session ends with

\* stop(): the first call spawns the clean-up, the others return.
stop(x) == IF x.closed THEN x ELSE [x EXCEPT !.closed = TRUE, !.stopper = "queued"]

Crash(x) == [x EXCEPT !.crashed = TRUE]

-----------------------------------------------------------------------------
(* MediaSource and MediaSink.                                              *)

\* set_status(), first half: status_ is stored.
set_status ==
    /\ src.live /\ ~src.notify /\ src.sets < MaxStatus
    /\ \E st \in Statuses : src' = [src EXCEPT !.status = st, !.notify = TRUE, !.sets = @ + 1]
    /\ UNCHANGED <<s, c>>

\* notify_status(): every sink in sinks_ gets a coroutine on its worker.
notify_status ==
    /\ src.notify
    /\ src' = [src EXCEPT !.notify = FALSE]
    /\ s' = IF s.joined THEN [s EXCEPT !.posted = Append(@, src.status)] ELSE s
    /\ UNCHANGED c

\* add_media_sink(): the sink joins, and hears a status that is already there.
add_media_sink(x) ==
    [x EXCEPT !.joined = TRUE, !.linked = TRUE,
              !.posted = IF src.status = "init" THEN @ ELSE Append(@, src.status)]

\* A sink that is not in sinks_ keeps its pointer to the source.
remove_media_sink(x) == IF x.joined THEN [x EXCEPT !.joined = FALSE, !.linked = FALSE] ELSE x

\* close() of the source: it posts sink->close() for every sink and clears
\* sinks_.
source_close ==
    /\ src.live /\ ~src.held
    /\ src' = [src EXCEPT !.live = FALSE]
    /\ s' = [s EXCEPT !.closing = (IF s.joined THEN 1 ELSE 0) + (IF s.orphan THEN 1 ELSE 0),
                      !.joined = FALSE, !.orphan = FALSE]
    /\ UNCHANGED c

\* MediaSink::close(): the close callback, then out of the source.
MediaSink_close(x) ==
    LET told == IF "close" \in x.cbs THEN stop(x) ELSE x
    IN  IF told.linked THEN remove_media_sink(told) ELSE told

sink_close ==
    /\ s.closing > 0
    /\ s' = MediaSink_close([s EXCEPT !.closing = @ - 1])
    /\ UNCHANGED <<src, c>>

\* on_source_status_changed() on the sink's worker: a cleared callback drops it.
NextStatus == s.posted # <<>> /\ "status" \in s.cbs
Notified(x) == [x EXCEPT !.posted = Tail(@), !.told = @ + 1]

status_dropped ==
    /\ s.posted # <<>> /\ "status" \notin s.cbs
    /\ s' = [s EXCEPT !.posted = Tail(@)]
    /\ UNCHANGED <<src, c>>

\* A batch of media in the channel; RTSP items are numbers, 0 for media.
Media == IF s.kind = "rtsp" THEN 0 ELSE "data"

\* The sink has media for the session and hands a batch to its data callback,
\* which sends it to the channel; a closed channel refuses it.
deliver ==
    /\ s.kind \notin {"rtmp", "push", "whep", "whip"}
    /\ src.live /\ src.frames < MaxFrames
    /\ (s.joined /\ "data" \in s.cbs) \/ s.orphan
    /\ src' = [src EXCEPT !.frames = @ + 1]
    /\ s' = IF s.chan THEN [s EXCEPT !.q = Append(@, Media)] ELSE s
    /\ UNCHANGED c

-----------------------------------------------------------------------------
(* The connection: what was written to it, in order, and how a write ends. *)

\* up: "open", "gone" once the peer has left, "closed" once the server knows.
Wrote(y, item) == [y EXCEPT !.out = Append(@, item)]
WriteEnds(y) == CASE y.up = "open"   -> {TRUE}
                  [] y.up = "gone"   -> BOOLEAN
                  [] y.up = "closed" -> {FALSE}

\* The peer leaves, or the socket's inactivity timer gives it up.  A WebRTC
\* session has no use for its connection once the exchange is over.
peer_leaves ==
    /\ c.up = "open" /\ ~(s.kind \in {"whep", "whip"} /\ s.pc = "ended")
    /\ c' = [c EXCEPT !.up = "gone"]
    /\ UNCHANGED <<src, s>>

\* The coroutines that are in the middle of a write.
Writers(x) ==
    Len(x.heads) + (IF x.pc \in {"refusing", "heading", "body"} THEN 1 ELSE 0)
                 + Len(SelectSeq(x.senders, LAMBDA e : e \in {"head", "write"}))

SetSender(x, i, e) == [x EXCEPT !.senders[i] = e]
AddSender(x) == [x EXCEPT !.senders = Append(@, "wait")]
=============================================================================
