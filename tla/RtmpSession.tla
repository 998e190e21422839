---------------------------- MODULE RtmpSession ----------------------------
(***************************************************************************)
(* A playing RtmpServerSession (rtmp_server_session.cpp): the receive      *)
(* coroutine with its command handlers, the send coroutine behind the      *)
(* channel, and do_stop().                                                 *)
(*                                                                         *)
(* A handler sends synchronously: it puts the message into the channel and *)
(* waits until the send coroutine has dealt with it and closes the wait    *)
(* channel.  Media go through the same channel without waiting.  A channel *)
(* item is <<message, owner>>; owner is the waiting coroutine or "none".   *)
(* The player says play once.                                              *)
(***************************************************************************)
EXTENDS SessionCore

CONSTANT
    MaxCmds       \* bound: commands the player sends

\* The messages a command is answered with.
Answers == [connect      |-> <<"window", "bandwidth", "result">>,
            createStream |-> <<"result">>,
            play         |-> <<"begin", "start", "sample">>]

\* The messages c.out keeps: the last one of play, a refusal, media.
Noted == {"sample", "no_source", "rejected", "data"}

RtmpStart == [up |-> "open", out |-> <<>>]

Ends(x) == stop([x EXCEPT !.pc = "ended"])

\* start_recv_coroutine(): the handshake, the send coroutine, set chunk size.
rtmp_start ==
    /\ s.kind = "rtmp" /\ s.pc = "begin"
    /\ s' \in {Ends(s), AddSender([s EXCEPT !.pc = "sending", !.todo = <<"chunk_size">>])}
    /\ UNCHANGED <<src, c>>

\* cycle_recv_rtmp_message(): the peer leaves, or a command comes.  An
\* acknowledgement that is due goes first; media without a source, an empty or
\* an undecodable command end the loop.
on_recv_rtmp_message ==
    /\ s.kind = "rtmp" /\ s.pc = "recv"
    /\ \/ c.up # "open" /\ s' = Ends(s)
       \/ /\ c.up = "open" /\ s.cmds < MaxCmds
          /\ \E ack \in {<<>>, <<"ack">>} :
               LET x == [s EXCEPT !.cmds = @ + 1, !.pc = "sending"]
               IN  \/ s' = [x EXCEPT !.todo = ack, !.after = "end"]
                   \/ \E cmd \in {"connect", "createStream"} :
                        s' = [x EXCEPT !.todo = ack \o Answers[cmd], !.after = "recv"]
                   \/ s.sink = "none" /\ s' = [x EXCEPT !.todo = ack, !.after = "play"]
    /\ UNCHANGED <<src, c>>

\* handle_amf0_play_command(): no app or no leave to play, the session ends
\* without a word; no source or no bridge, it says so and ends.
handle_amf0_play_command ==
    /\ s.kind = "rtmp" /\ s.pc = "play"
    /\ LET x == [s EXCEPT !.pc = "sending"]
       IN  s' \in {Ends(s),
                   [x EXCEPT !.todo = <<"no_source">>, !.after = "end", !.refusal = <<"no_source">>],
                   [x EXCEPT !.todo = <<"rejected">>, !.after = "end", !.refusal = <<"rejected">>],
                   [x EXCEPT !.todo = Answers["play"], !.after = "join"]}
    /\ UNCHANGED <<src, c>>

\* The sink of the player: stop() on close, media once the source is OK.
Join(x) ==
    add_media_sink([x EXCEPT !.pc = "recv", !.sink = "set", !.cbs = {"close", "status"}])

\* mutant of SendSync: the coroutine does not wait.
SendSync_async ==
    /\ s.pc = "sending"
    /\ s' = LET x == [s EXCEPT !.handed = FALSE]
            IN  IF s.todo = <<>>
                THEN CASE s.after = "join" -> Join(x)
                       [] s.after = "end"  -> Ends(x)
                       [] OTHER            -> [x EXCEPT !.pc = s.after]
                ELSE IF ~s.chan THEN Ends(x)
                ELSE [x EXCEPT !.q = Append(@, <<Head(s.todo), "none">>), !.todo = Tail(@)]
    /\ UNCHANGED <<src, c>>

\* send_rtmp_message(msg) of a coroutine, message after message, and what comes
\* after the last one; a closed channel throws, which ends the coroutine.
SendSync ==
    /\ s.pc = "sending"
    /\ s' = LET x == [s EXCEPT !.handed = FALSE]
            IN  IF s.todo = <<>>
                THEN CASE s.after = "join" -> Join(x)
                       [] s.after = "end"  -> Ends(x)
                       [] OTHER            -> [x EXCEPT !.pc = s.after]
                ELSE IF ~s.chan THEN Ends(x)
                ELSE [x EXCEPT !.q = Append(@, <<Head(s.todo), "recv">>), !.todo = Tail(@),
                               !.pc = "sync", !.waits = @ \cup {"recv"}]
    /\ UNCHANGED <<src, c>>

send_rtmp_message == s.kind = "rtmp" /\ SendSync

\* The wait channel of an item's owner is closed.
Wake(x, owner) ==
    [x EXCEPT !.waits = @ \ {owner}, !.pc = IF owner = "recv" THEN "sending" ELSE @]

\* The send coroutine: write what the channel gives, wake its owner whether
\* or not the write went well, end when it did not or the channel is closed; y
\* is the connection with what taking an item changes.
\* The coroutine it woke is posted before that of its stop().
SendLoop(i, y) ==
    /\ \/ /\ s.senders[i] = "wait" /\ s.q # <<>>
          /\ s' = SetSender([s EXCEPT !.q = Tail(@), !.item = Head(s.q)], i, "write")
          /\ c' = IF Head(s.q)[1] \in Noted THEN Wrote(y, Head(s.q)[1]) ELSE y
       \/ /\ s.senders[i] = "write"
          /\ \E ok \in WriteEnds(c) :
               s' = SetSender(Wake([s EXCEPT !.item = <<>>], s.item[2]), i,
                              IF ok THEN "wait" ELSE "failed")
          /\ UNCHANGED c
       \/ /\ s.senders[i] = "failed" \/ (s.senders[i] = "wait" /\ ~s.chan)
          /\ s' = stop(SetSender([s EXCEPT !.handed = ~s.closed /\ s.pc = "sending"], i, "end"))
          /\ UNCHANGED c
    /\ UNCHANGED src

rtmp_sender(i) == s.kind = "rtmp" /\ SendLoop(i, c)

\* The status callback of the sink: OK lets the media through, anything else is
\* told to the player, synchronously, from a coroutine of its own.
rtmp_status ==
    /\ s.kind = "rtmp" /\ NextStatus
    /\ LET x == Notified(s)
       IN  s' = IF Head(s.posted) = "ok"
                THEN IF s.sink = "null" THEN Crash(x) ELSE [x EXCEPT !.cbs = @ \cup {"data"}]
                ELSE IF ~s.chan THEN x
                ELSE [x EXCEPT !.q = Append(@, <<Head(s.posted), "status">>),
                               !.waits = @ \cup {"status"}]
    /\ UNCHANGED <<src, c>>

\* The data callback: send_rtmp_message(vector), which does not wait.
rtmp_deliver ==
    /\ s.kind \in {"rtmp", "push"}
    /\ src.live /\ s.joined /\ "data" \in s.cbs /\ src.frames < MaxFrames
    /\ src' = [src EXCEPT !.frames = @ + 1]
    /\ s' = IF s.chan THEN [s EXCEPT !.q = Append(@, <<"data", "none">>)] ELSE s
    /\ UNCHANGED c

\* mutant of do_stop: the sink goes before its callbacks are cleared.
do_stop_uncleared ==
    /\ s.kind = "rtmp"
    /\ \/ /\ s.stopper = "queued" /\ ~s.handed
          /\ s' = [s EXCEPT !.chan = FALSE, !.stopper = "wait"]
          /\ c' = [c EXCEPT !.up = "closed"]
       \/ /\ s.stopper = "wait"
          /\ s' = IF s.sink # "set" THEN [s EXCEPT !.stopper = "done"]
                  ELSE [MediaSink_close(s) EXCEPT !.sink = "null", !.stopper = "done"]
          /\ UNCHANGED c
    /\ UNCHANGED src

\* do_stop(): the connection, the channel and the timers; then (the wait group
\* may let it through early) the sink's callbacks, the sink and its source.
do_stop ==
    /\ s.kind = "rtmp"
    /\ \/ /\ s.stopper = "queued" /\ ~s.handed
          /\ s' = [s EXCEPT !.chan = FALSE, !.stopper = "wait"]
          /\ c' = [c EXCEPT !.up = "closed"]
       \/ /\ s.stopper = "wait"
          /\ s' = IF s.sink # "set" THEN [s EXCEPT !.stopper = "done"]
                  ELSE [MediaSink_close([s EXCEPT !.cbs = {}]) EXCEPT
                           !.sink = "null", !.stopper = "done"]
          /\ UNCHANGED c
    /\ UNCHANGED src
=============================================================================
