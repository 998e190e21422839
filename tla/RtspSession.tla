---------------------------- MODULE RtspSession ----------------------------
(***************************************************************************)
(* An RtspServerSession (rtsp_server_session.cpp): the receive coroutine   *)
(* with its request handlers, the send coroutine, stop().                  *)
(*                                                                         *)
(* A handler sends its reply into the channel (2048 deep) and returns TRUE *)
(* to read on or FALSE to end the receive coroutine, which stops the       *)
(* session.  A channel item is 0 for media or the number of the request a    *)
(* reply answers.  A reply handed to an idle send coroutine is posted      *)
(* before anything the handler posts later, stop() included.               *)
(***************************************************************************)
EXTENDS SessionCore

CONSTANT
    MaxRequests   \* bound: requests the client sends

RtspConn == [up |-> "open", out |-> <<>>]

Idle(x) == x.senders[1] = "wait"

\* async_send of the reply to the current request; the error is ignored.
Reply(x) == IF x.chan THEN [x EXCEPT !.q = Append(@, x.cmds)] ELSE x

GoOn(x) == [x EXCEPT !.pc = "recv"]

\* return false: the receive coroutine ends and its completion handler stops
\* the session, behind the reply if that went to an idle send coroutine.
GiveUp(x) == stop([x EXCEPT !.pc = "ended", !.handed = ~x.closed /\ Idle(x) /\ Len(x.q) = 1])
RefuseAndGiveUp(x) ==
    LET y == GiveUp(Reply(x)) IN [y EXCEPT !.refusal = IF y.handed THEN <<x.cmds>> ELSE <<>>]

rtsp_start ==
    /\ s.kind = "rtsp" /\ s.pc = "begin"
    /\ s' = AddSender([s EXCEPT !.pc = "recv"])
    /\ UNCHANGED <<src, c>>

\* What a handler makes of session x: the sessions it may leave behind at its
\* next await or its end.
process_options_req(x)  == {GoOn(Reply(x))}
process_record_req(x)   == {GoOn(Reply(x))}
process_teardown_req(x) == {GoOn(Reply(x))}
process_unknown_req(x)  == {GoOn(Reply(x))}

\* DESCRIBE: a bad URI ends without a reply, no app with one; else on_play is
\* awaited.
process_describe_req(x) == {GiveUp(x), RefuseAndGiveUp(x), [x EXCEPT !.pc = "asked"]}

\* Then: no leave or no source, a reply and the end; no bridge, the end; else a
\* sink is made, in place of one that may still be in the source, and the
\* description awaited: it comes, or its time runs out (504).
describe_asked(x) ==
    {GiveUp(x), RefuseAndGiveUp(x),
     [x EXCEPT !.sink = "set", !.cbs = {"close"}, !.play = TRUE, !.joined = FALSE,
               !.linked = FALSE, !.orphan = @ \/ x.joined, !.pc = "sdp"]}
describe_sdp(x) == {GoOn(Reply(x))}

\* SETUP: the reply says whether the URI and the transport were understood; a
\* publisher's description is used without a look at whether there is one.
process_setup_req(x) ==
    {GoOn(Reply(x)),
     IF x.media = "bare" THEN Crash(x) ELSE GoOn(Reply([x EXCEPT !.tcp = TRUE]))}

\* PLAY: without a source 404; else the sink joins, then the reply is queued.
process_play_req(x) ==
    {IF ~x.play THEN GoOn(Reply(x))
     ELSE GoOn(Reply(add_media_sink([x EXCEPT !.cbs = @ \cup {"data"}])))}

\* ANNOUNCE: a bad URI ends the session; no app, or a source of another kind
\* (without a reply), leave it going; else rtsp_media_source_ is set, to a new
\* source or to one that has a description, and on_publish awaited.
process_announce_req(x) ==
    {GiveUp(x), GoOn(x), GoOn(Reply(x)), [x EXCEPT !.media = "bare", !.pc = "asking"],
     [x EXCEPT !.media = "sdp", !.pc = "asking"]}

\* Then: no leave, a description that is not understood, success, or a source
\* that cannot be registered once the reply is queued.
announce_asked(x) ==
    {GoOn(Reply(x)), GoOn(Reply([x EXCEPT !.media = "bare"])),
     GoOn(Reply([x EXCEPT !.media = "sdp"])), GiveUp(Reply([x EXCEPT !.media = "sdp"]))}

\* on_rtsp_request()
on_rtsp_request(x) ==
    UNION {process_options_req(x), process_record_req(x), process_teardown_req(x),
           process_unknown_req(x), process_describe_req(x), process_setup_req(x),
           process_play_req(x), process_announce_req(x)}

\* start_recv_coroutine(): the peer leaves, or a request comes.
rtsp_recv ==
    /\ s.kind = "rtsp" /\ s.pc = "recv"
    /\ \/ c.up # "open" /\ s' = GiveUp(s)
       \/ /\ c.up = "open" /\ s.cmds < MaxRequests
          /\ s' \in on_rtsp_request([s EXCEPT !.cmds = @ + 1])
    /\ UNCHANGED <<src, c>>

\* A handler goes on behind its await.
rtsp_resume ==
    /\ s.kind = "rtsp"
    /\ \/ s.pc = "asked" /\ s' \in describe_asked(s)
       \/ s.pc = "sdp" /\ s' \in describe_sdp(s)
       \/ s.pc = "asking" /\ s' \in announce_asked(s)
    /\ UNCHANGED <<src, c>>

\* send_rtp_over_tcp_pkts() needs the transport and the sink.
Sendable(x, item) == item = 0 => x.tcp /\ x.sink = "set"

\* The send coroutine; its completion handler is wg_.done() and stop().
rtsp_sender(i) ==
    /\ s.kind = "rtsp"
    /\ \/ /\ s.senders[i] = "wait" /\ s.q # <<>>
          /\ LET x == [s EXCEPT !.q = Tail(@), !.handed = FALSE]
             IN  IF Sendable(s, Head(s.q))
                 THEN s' = SetSender(x, i, "write") /\ c' = Wrote(c, Head(s.q))
                 ELSE s' = SetSender(x, i, "failed") /\ UNCHANGED c
       \/ /\ s.senders[i] = "write"
          /\ \E ok \in WriteEnds(c) : s' = SetSender(s, i, IF ok THEN "wait" ELSE "failed")
          /\ UNCHANGED c
       \/ /\ s.senders[i] = "failed" \/ (s.senders[i] = "wait" /\ ~s.chan)
          /\ s' = stop(SetSender(s, i, "end"))
          /\ UNCHANGED c
    /\ UNCHANGED src

\* stop(): the socket and the channel; then the publisher's source is let go
\* (see PublishLifecycle) and the player's sink leaves its source.
rtsp_stop ==
    /\ s.kind = "rtsp"
    /\ \/ /\ s.stopper = "queued" /\ ~s.handed
          /\ s' = [s EXCEPT !.chan = FALSE, !.stopper = "wait"]
          /\ c' = [c EXCEPT !.up = "closed"]
       \/ /\ s.stopper = "wait"
          /\ s' = IF s.sink # "set" THEN [s EXCEPT !.stopper = "done"]
                  ELSE [MediaSink_close(remove_media_sink([s EXCEPT !.cbs = {}])) EXCEPT
                           !.sink = "null", !.stopper = "done"]
          /\ UNCHANGED c
    /\ UNCHANGED src
=============================================================================
