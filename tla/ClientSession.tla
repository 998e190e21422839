--------------------------- MODULE ClientSession ---------------------------
(***************************************************************************)
(* The sessions in which the server is the client of another one.          *)
(*                                                                         *)
(* kind:  "pull"     RtmpPlayClientSession, made by PublishApp::find_      *)
(*                   media_source for a player without a source;           *)
(*        "pullflv"  HttpFlvClientSession, likewise;                       *)
(*        "push"     RtmpPublishClientSession, which relays a source.      *)
(* c:     viewers (the sinks and bridges of the pulled source), came       *)
(*        (history: how many there were), idle (checks since one left, 2   *)
(*        when none ever did), checker (check_closable_timer_), rx (push:  *)
(*        the receive coroutine, then: what it does behind an acknowledge- *)
(*        ment), alive and active (push: the alive checker and whether     *)
(*        anything moved since its last look), moved (the origin sent a    *)
(*        redirect).                                                       *)
(***************************************************************************)
EXTENDS RtmpSession

CONSTANT
    MaxViewers    \* bound: viewers that come to the pulled source

Pulls == {"pull", "pullflv"}

ClientStart ==
    [up |-> "open", out |-> <<>>, viewers |-> 0, came |-> 0, idle |-> 2, checker |-> "off",
     rx |-> "off", then |-> "wait", alive |-> "off", active |-> FALSE, moved |-> FALSE]

-----------------------------------------------------------------------------
(* What the pulls share.                                                   *)

viewer_comes ==
    /\ s.kind \in Pulls /\ src.live /\ c.checker # "off" /\ c.came < MaxViewers
    /\ c' = [c EXCEPT !.viewers = @ + 1, !.came = @ + 1]
    /\ UNCHANGED <<src, s>>

viewer_leaves ==
    /\ s.kind \in Pulls /\ c.viewers > 0
    /\ c' = [c EXCEPT !.viewers = @ - 1, !.idle = 0]
    /\ UNCHANGED <<src, s>>

\* The source is closed by somebody else: it stops the session it knows.
pull_closed ==
    /\ s.kind \in Pulls /\ src.live /\ c.checker # "off"
    /\ src' = [src EXCEPT !.live = FALSE]
    /\ s' = IF s.stopper \in {"none", "queued", "wait"} THEN stop(s) ELSE s
    /\ c' = [c EXCEPT !.viewers = 0]

\* The timer runs for half of the time a source may be without players.
has_no_sinks_for_time == c.viewers = 0 /\ c.idle >= 2

\* mutant of CheckClosable: a look that finds viewers is the last one.
CheckClosable_once ==
    /\ c.checker = "on"
    /\ \/ /\ s.stopper \in {"wait", "delay", "done"} \/ has_no_sinks_for_time
          /\ s' = stop(s) /\ c' = [c EXCEPT !.checker = "end"]
       \/ /\ s.stopper \in {"none", "queued"} /\ ~has_no_sinks_for_time
          /\ s' = s /\ c' = [c EXCEPT !.checker = "end"]
    /\ UNCHANGED src

\* The coroutine behind check_closable_timer_, which stop() cancels.
CheckClosable ==
    /\ c.checker = "on"
    /\ \/ /\ s.stopper \in {"wait", "delay", "done"} \/ has_no_sinks_for_time
          /\ s' = stop(s) /\ c' = [c EXCEPT !.checker = "end"]
       \/ /\ s.stopper \in {"none", "queued"} /\ ~has_no_sinks_for_time /\ c.idle < 2
          /\ s' = s /\ c' = [c EXCEPT !.idle = @ + 1]
    /\ UNCHANGED src

\* stop()'s coroutine behind the wait group: the session lets go of the source
\* and start_delayed_source_check_and_delete removes it, if nobody has taken it.
LeaveSource ==
    \/ s.stopper = "wait" /\ s' = [s EXCEPT !.stopper = "delay"] /\ UNCHANGED <<src, c>>
    \/ /\ s.stopper = "delay"
       /\ s' = [s EXCEPT !.stopper = "done"]
       /\ src' = [src EXCEPT !.live = FALSE]
       /\ c' = [c EXCEPT !.viewers = 0]

-----------------------------------------------------------------------------
(* RtmpPlayClientSession.                                                  *)

\* start(): there is a source, or the URL is bad: nothing is started; a
\* protocol that is not RTMP goes through stop(), without a connection.
pull_start ==
    /\ s.kind = "pull"
    /\ \/ /\ s.pc = "begin"
          /\ \/ s' \in {[s EXCEPT !.pc = "ended"], Crash(s)} /\ UNCHANGED c
             \/ s' = [s EXCEPT !.pc = "connecting"] /\ c' = [c EXCEPT !.checker = "on"]
       \/ /\ s.pc = "connecting"
          /\ \/ s' = Ends(s)
             \/ /\ c.up = "open"
                /\ s' = AddSender([s EXCEPT !.pc = "sending",
                                     !.todo = <<"chunk_size", "connect", "createStream", "play">>])
          /\ UNCHANGED c
    /\ UNCHANGED src

pull_send == s.kind = "pull" /\ SendSync
pull_sender(i) == s.kind = "pull" /\ SendLoop(i, c)

\* on_recv_rtmp_message(): an acknowledgement that is due, then the message:
\* media and results change nothing here, onStatus is looked at, anything that
\* cannot be decoded ends the loop.
pull_recv ==
    /\ s.kind = "pull" /\ s.pc = "recv"
    /\ \/ c.up # "open" /\ s' = Ends(s)
       \/ /\ c.up = "open" /\ s.cmds < MaxCmds
          /\ \E ack \in {<<>>, <<"ack">>}, after \in {"recv", "end", "status"} :
               s' = [s EXCEPT !.cmds = @ + 1, !.pc = "sending", !.todo = ack, !.after = after]
    /\ UNCHANGED <<src, c>>

\* handle_amf0_status_command(): the stream starts, and the application is
\* asked (on_publish); the origin has no such stream, or rejects; other codes.
pull_status ==
    /\ s.kind = "pull"
    /\ \/ /\ s.pc = "status"
          /\ \/ s' = [s EXCEPT !.pc = "asked"] /\ src' = [src EXCEPT !.status = "ok"]
             \/ s' = Ends(s) /\ src' \in {src, [src EXCEPT !.status = "other"]}
       \/ /\ s.pc = "asked"
          /\ s' \in {[s EXCEPT !.pc = "recv"], Ends(s)} /\ UNCHANGED src
    /\ UNCHANGED c

pull_check_closable == s.kind = "pull" /\ CheckClosable

pull_stop ==
    /\ s.kind = "pull"
    /\ \/ /\ s.stopper = "queued" /\ ~s.handed
          /\ s' = [s EXCEPT !.chan = FALSE, !.stopper = "wait"]
          /\ c' = [c EXCEPT !.up = "closed"]
          /\ UNCHANGED src
       \/ LeaveSource

-----------------------------------------------------------------------------
(* HttpFlvClientSession.                                                   *)

Fails == s' = Ends(s) /\ src' = [src EXCEPT !.status = "other"]

\* start(): a source of another type, or one that cannot be added, ends it.
\* The request: a bad URL says nothing; a connection or a header that fails,
\* and any code but 200, is told to the source; 302 asks again, once, and does
\* not look whether there is a response.
pullflv_start ==
    /\ s.kind = "pullflv"
    /\ \/ /\ s.pc = "begin"
          /\ \/ s' = [s EXCEPT !.pc = "ended"] /\ UNCHANGED c
             \/ s' = [s EXCEPT !.pc = "request"] /\ c' = [c EXCEPT !.checker = "on"]
          /\ UNCHANGED src
       \/ /\ s.pc = "request"
          /\ \/ (s' = Ends(s) /\ UNCHANGED src) \/ Fails
             \/ c.up = "open" /\ s' = [s EXCEPT !.pc = "redirect"] /\ UNCHANGED src
             \/ c.up = "open" /\ s' = [s EXCEPT !.pc = "body"] /\ src' = [src EXCEPT !.status = "ok"]
          /\ c' = [c EXCEPT !.moved = s'.pc = "redirect"]
       \/ /\ s.pc = "redirect"
          /\ \/ Fails
             \/ s' = Crash(s) /\ UNCHANGED src
             \/ c.up = "open" /\ s' = [s EXCEPT !.pc = "body"] /\ src' = [src EXCEPT !.status = "ok"]
          /\ UNCHANGED c

\* cycle_pull_flv_tag(): the origin leaves, or what it sends is not an FLV header,
\* as behind a redirect, where the header of the response was never read.  An FLV
\* header is followed by the use of cache_tag_, which nothing sets.
cycle_pull_flv_tag ==
    /\ s.kind = "pullflv" /\ s.pc = "body"
    /\ \/ s' = Ends(s)
       \/ c.up = "open" /\ ~c.moved /\ s' = Crash(s)
    /\ UNCHANGED <<src, c>>

flv_check_closable == s.kind = "pullflv" /\ CheckClosable

pullflv_stop ==
    /\ s.kind = "pullflv"
    /\ \/ /\ s.stopper = "queued"
          /\ s' = [s EXCEPT !.stopper = "wait"]
          /\ c' = [c EXCEPT !.up = "closed"]
          /\ UNCHANGED src
       \/ LeaveSource

-----------------------------------------------------------------------------
(* RtmpPublishClientSession.                                               *)

\* start(): a bad URL, no connection or no handshake, and the push is not
\* tried again; else the send, receive and alive coroutines, and the commands.
push_start ==
    /\ s.kind = "push"
    /\ \/ s.pc = "begin" /\ s' = [s EXCEPT !.pc = "ended"] /\ UNCHANGED c
       \/ /\ s.pc = "begin" /\ c.up = "open"
          /\ s' = AddSender([s EXCEPT !.pc = "sending", !.sink = "set", !.after = "push",
                                      !.todo = <<"chunk_size", "connect", "release", "fcpublish",
                                                 "createStream", "publish">>])
          /\ c' = [c EXCEPT !.rx = "wait", !.alive = "on", !.active = TRUE]
       \/ /\ s.pc = "push"
          /\ s' = IF s.sink = "null" THEN Crash(s)
                  ELSE [s EXCEPT !.pc = "ended", !.cbs = @ \cup {"data"}]
          /\ UNCHANGED c
    /\ UNCHANGED src

push_send == s.kind = "push" /\ SendSync

\* The send coroutine, which notes that something moves.
push_sender(i) == s.kind = "push" /\ SendLoop(i, [c EXCEPT !.active = TRUE])

RxEnds == s' = stop(s) /\ c' = [c EXCEPT !.rx = "end"]

\* on_recv_rtmp_message(): an acknowledgement that is due is sent and waited
\* for; then the message, which may be the answer to publish.
push_recv ==
    /\ s.kind = "push" /\ c.rx = "wait"
    /\ \/ c.up # "open" /\ RxEnds
       \/ /\ c.up = "open" /\ s.cmds < MaxCmds
          /\ \E then \in {"wait", "end"} \cup (IF s.todo = <<>> /\ ~s.linked THEN {"status"} ELSE {}),
                ack \in BOOLEAN :
               LET x == [s EXCEPT !.cmds = @ + 1]
               IN  /\ s' = IF ~ack THEN x
                           ELSE [x EXCEPT !.q = Append(@, <<"ack", "ack">>), !.waits = @ \cup {"ack"}]
                   /\ c' = [c EXCEPT !.active = TRUE, !.then = then, !.rx = IF ack THEN "acking" ELSE "next"]
    /\ UNCHANGED src

\* handle_amf0_status_command(): a code but PUBLISH_START, or a source that is
\* gone, ends the loop; else the sink joins the source.
push_status ==
    /\ s.kind = "push"
    /\ \/ c.rx = "acking" /\ "ack" \notin s.waits /\ c' = [c EXCEPT !.rx = "next"] /\ UNCHANGED s
       \/ c.rx = "next" /\ c.then = "wait" /\ c' = [c EXCEPT !.rx = "wait"] /\ UNCHANGED s
       \/ c.rx = "next" /\ (c.then = "end" \/ (c.then = "status" /\ ~src.live)) /\ RxEnds
       \/ /\ c.rx = "next" /\ c.then = "status" /\ src.live
          /\ s' = IF s.sink = "null" THEN Crash(s) ELSE add_media_sink(s)
          /\ c' = [c EXCEPT !.rx = "wait"]
    /\ UNCHANGED src

\* start_alive_checker(): a look every 10 s at what moved in the last 5.
push_alive ==
    /\ s.kind = "push" /\ c.alive = "on"
    /\ \/ s' = stop(s) /\ c' = [c EXCEPT !.alive = "end"]
       \/ c.active /\ s.stopper \in {"none", "queued"} /\ c' = [c EXCEPT !.active = FALSE] /\ UNCHANGED s
    /\ UNCHANGED src

\* stop(): the sink has no close callback; it leaves its source by itself.
push_stop ==
    /\ s.kind = "push"
    /\ \/ /\ s.stopper = "queued" /\ ~s.handed
          /\ s' = [s EXCEPT !.chan = FALSE, !.stopper = "wait"]
          /\ c' = [c EXCEPT !.up = "closed"]
       \/ /\ s.stopper = "wait"
          /\ s' = [MediaSink_close([s EXCEPT !.cbs = {}]) EXCEPT !.sink = "null", !.stopper = "done"]
          /\ UNCHANGED c
    /\ UNCHANGED src
=============================================================================
