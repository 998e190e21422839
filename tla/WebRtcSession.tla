--------------------------- MODULE WebRtcSession ---------------------------
(***************************************************************************)
(* WebRtcServerSession (webrtc_server_session.cpp) and what WebRtcServer   *)
(* and UdpServer do for it: the HTTP exchange that sets it up, the UDP     *)
(* receive loop of a worker, the DTLS handshake, the coroutines behind it  *)
(* and the maps the session is found in.                                   *)
(*                                                                         *)
(* kind:  "whep" a player, "whip" a publisher, whose source is src.        *)
(* c:     reg (ufrag_session_map_ has the session), route (endpoint_       *)
(*        session_map_ has it, and session_endpoint_map_ the pair), peer   *)
(*        (the browser is there), loop (the UDP loop: "free", "sending" to *)
(*        the session's channel, "dead"), udp (udp_msgs_channel_ is open), *)
(*        co (the coroutines of the session), dtls, timer (the coroutine   *)
(*        behind timeout_timer_), missed (history: close() cancelled a     *)
(*        timer that had already expired), active (last_active_time_ has   *)
(*        moved since the last look).                                      *)
(*                                                                         *)
(* None of the channels has a buffer: who sends waits until somebody       *)
(* receives.  A send to a closed channel throws; closing a channel does    *)
(* not wake those who wait to send, and whether what they offer can still  *)
(* be received is left open.                                               *)
(***************************************************************************)
EXTENDS HttpSession, TLC

CONSTANT
    MaxPackets    \* bound: UDP packets of the peer that are not STUN


\* The coroutines that send: "media" is the rtp sender of a player and the pli
\* timer of a publisher, "control" stands for the rtcp and the feedback sender,
\* two equal loops.
Helpers == {"media", "control"}

RtcStart(keep) ==
    HttpStart(keep) @@
    [reg |-> TRUE, route |-> FALSE, peer |-> TRUE, loop |-> "free", udp |-> TRUE,
     co |-> [r \in Helpers \cup {"recv", "alive"} |-> "off"],
     dtls |-> "none", timer |-> "none", missed |-> FALSE, active |-> FALSE]

-----------------------------------------------------------------------------
(* The HTTP exchange, which WebRtcServer::on_whip and on_whep begin by     *)
(* putting the session into ufrag_session_map_.                            *)

\* start_process_recv_udp_msg(): the handshake and the receive coroutine.
StartUdp(y) == [y EXCEPT !.co["recv"] = "wait", !.dtls = "shaking", !.timer = "armed"]

\* start(), once the answer is out: the alive checker.
Started(y) == [y EXCEPT !.co["alive"] = "on", !.active = TRUE]

\* The answer: 201 with the session description.
Heading == s' = [s EXCEPT !.pc = "heading"] /\ c' = Wrote(c, "ok")
Refused403 == s.pc = "begin" /\ Refuse("403")

\* The response is closed, inside the request's coroutine.
Answered(y) == LET r == response_close(s, y) IN Become([r EXCEPT !.s = Ended(@)])

BodyEnds ==
    /\ s.pc = "body"
    /\ \E ok \in WriteEnds(c) :
         Answered(IF ok THEN Started(c) ELSE c)

\* process_whip_req(): a description that cannot be used, or a stream that
\* exists, ends it without an answer and without stop().
process_whip_req ==
    /\ s.kind = "whip"
    /\ \/ Refused403
       \/ Refused /\ s' = stop(Ended(s)) /\ UNCHANGED c
       \/ s.pc = "begin" /\ s' = Ended(s) /\ UNCHANGED c
       \/ /\ s.pc = "begin"
          /\ s' = [s EXCEPT !.pc = "heading", !.media = "sdp"]
          /\ c' = Wrote(StartUdp(c), "ok")
       \/ /\ s.pc = "heading" /\ TRUE \in WriteEnds(c)
          /\ s' = [s EXCEPT !.pc = "body"] /\ c' = Wrote(c, "data")
       \/ HeaderFails /\ Answered(c)
       \/ BodyEnds
    /\ UNCHANGED src

\* process_whep_req(): no source is refused; no application or no bridge ends
\* it without an answer; the sink joins and a description is waited for.
process_whep_req ==
    /\ s.kind = "whep"
    /\ \/ Refused403
       \/ Refused /\ s' = stop(Ended(s)) /\ UNCHANGED c
       \/ s.pc \in {"begin", "asked"} /\ s' = Ended(s) /\ UNCHANGED c
       \/ s.pc = "begin" /\ s' = [s EXCEPT !.pc = "asked"] /\ UNCHANGED c
       \/ s.pc = "asked" /\ Refuse("404")
       \/ /\ s.pc = "asked"
          /\ s' = [Attach(s, {"close", "data"}) EXCEPT !.pc = "sdp"]
          /\ c' = StartUdp(c)
       \/ s.pc = "sdp" /\ (Refuse("404") \/ Heading)
       \/ /\ s.pc = "heading" /\ TRUE \in WriteEnds(c)
          /\ s' = [s EXCEPT !.pc = "body"] /\ c' = Wrote(c, "data")
       \/ HeaderFails /\ s' = Ended(s) /\ UNCHANGED c
       \/ BodyEnds
    /\ UNCHANGED src

-----------------------------------------------------------------------------
(* UDP.                                                                    *)

\* The browser of a publisher leaves; that of a player sends nothing more.
browser_leaves ==
    /\ s.kind = "whip" /\ c.peer /\ c.route
    /\ c' = [c EXCEPT !.peer = FALSE]
    /\ UNCHANGED <<src, s>>

\* WebRtcServer::process_stun_packet(): a peer that has the answer names the
\* session by its ufrag; the endpoint is noted under the lock of the maps.
process_stun_packet ==
    /\ s.kind \in Rtc /\ c.peer /\ c.loop = "free"
    /\ c.reg /\ c.co["recv"] # "off" /\ Len(c.out) = 2
    /\ c' = [c EXCEPT !.route = TRUE]
    /\ UNCHANGED <<src, s>>

\* on_udp_socket_recv(), a packet that is not STUN: it goes to the channel of
\* the session its endpoint is mapped to; a closed channel throws, which ends
\* the loop of this worker's socket.
on_udp_socket_recv ==
    /\ s.kind \in Rtc /\ c.peer /\ c.loop = "free" /\ c.route /\ s.cmds < MaxPackets
    /\ s' = [s EXCEPT !.cmds = @ + 1]
    /\ c' = [c EXCEPT !.loop = IF c.udp THEN "sending" ELSE "dead"]
    /\ UNCHANGED src

Shaken(y) == [y EXCEPT !.dtls = "done", !.timer = IF @ = "armed" THEN "end" ELSE @]

\* mutant of recv_udp_msg: a packet that ends the loop does not stop the session.
recv_udp_msg_unstopped ==
    /\ s.kind \in Rtc
    /\ \/ /\ c.co["recv"] = "wait" /\ c.udp /\ c.loop = "sending"
          /\ c' = [c EXCEPT !.co["recv"] = "busy", !.loop = "free", !.active = TRUE]
          /\ UNCHANGED s
       \/ /\ c.co["recv"] = "busy"
          /\ \/ c' = [c EXCEPT !.co["recv"] = "wait"] /\ UNCHANGED s
             \/ c.dtls = "shaking" /\ c' = Shaken([c EXCEPT !.co["recv"] = "wait"]) /\ UNCHANGED s
             \/ c' = [c EXCEPT !.co["recv"] = "end"] /\ UNCHANGED s
             \/ s.kind = "whip" /\ s.stopper = "done" /\ s' = Crash(s) /\ UNCHANGED c
       \/ /\ c.co["recv"] = "wait" /\ ~c.udp
          /\ c' = [c EXCEPT !.co["recv"] = "end"] /\ s' = stop(s)
    /\ UNCHANGED src

\* The receive coroutine: a packet is taken, dealt with, and may end the loop;
\* a DTLS packet may complete the handshake, an RTP packet goes to the source,
\* which stop() resets.
recv_udp_msg ==
    /\ s.kind \in Rtc
    /\ \/ /\ c.co["recv"] = "wait" /\ c.udp /\ c.loop = "sending"
          /\ c' = [c EXCEPT !.co["recv"] = "busy", !.loop = "free", !.active = TRUE]
          /\ UNCHANGED s
       \/ /\ c.co["recv"] = "busy"
          /\ \/ c' = [c EXCEPT !.co["recv"] = "wait"] /\ UNCHANGED s
             \/ c.dtls = "shaking" /\ c' = Shaken([c EXCEPT !.co["recv"] = "wait"]) /\ UNCHANGED s
             \/ c' = [c EXCEPT !.co["recv"] = "end"] /\ s' = stop(s)
             \/ s.kind = "whip" /\ s.stopper = "done" /\ s' = Crash(s) /\ UNCHANGED c
       \/ /\ c.co["recv"] = "wait" /\ ~c.udp
          /\ c' = [c EXCEPT !.co["recv"] = "end"] /\ s' = stop(s)
    /\ UNCHANGED src

\* The coroutine behind timeout_timer_: it looks again and again; too many
\* timeouts fail the handshake.
dtls_timer ==
    /\ s.kind \in Rtc
    /\ \/ c.timer = "armed" /\ c' = [c EXCEPT !.timer = "due"]
       \/ c.timer = "due" /\ c' = [c EXCEPT !.timer = "armed"]
       \/ c.timer = "due" /\ c.dtls # "done"
          /\ c' = [c EXCEPT !.timer = "end", !.dtls = "failed"]
    /\ UNCHANGED <<src, s>>

StartSenders(y) == [y EXCEPT !.co["media"] = "on", !.co["control"] = "on"]

\* do_handshake() returns: well, and the coroutines that send are started, or
\* because close() woke it.
do_handshake ==
    /\ s.kind \in Rtc
    /\ \/ c.dtls = "done" /\ c.co["media"] = "off" /\ c' = StartSenders(c)
       \/ c.dtls = "shaking" /\ ~c.udp /\ c' = [c EXCEPT !.dtls = "failed"]
    /\ UNCHANGED <<src, s>>

\* A sender ends when stop() has closed its channel or cancelled its timer...
helper_ends ==
    /\ s.kind \in Rtc /\ ~s.chan
    /\ \E r \in Helpers : c.co[r] = "on" /\ c' = [c EXCEPT !.co[r] = "end"]
    /\ s' = stop(s)
    /\ UNCHANGED src

\* ... or when it cannot protect or send a packet.
helper_fails ==
    /\ s.kind \in Rtc
    /\ \E r \in Helpers : c.co[r] = "on" /\ c' = [c EXCEPT !.co[r] = "end"]
    /\ s' = stop(s)
    /\ UNCHANGED src

\* start_alive_checker(): nothing since the last look, or cancelled.
alive_checker ==
    /\ s.kind \in Rtc /\ c.co["alive"] = "on"
    /\ IF s.chan /\ c.active THEN c' = [c EXCEPT !.active = FALSE] /\ UNCHANGED s
       ELSE c' = [c EXCEPT !.co["alive"] = "end"] /\ s' = stop(s)
    /\ UNCHANGED src

-----------------------------------------------------------------------------
(* Media for a player.  RtpMediaSource::on_video_packets holds sinks_mtx_  *)
(* (src.held) while it waits for the sink, which waits for the channel.    *)

on_video_packets ==
    /\ s.kind = "whep" /\ src.live /\ ~src.held /\ ~src.lost /\ src.frames < MaxFrames
    /\ s.joined /\ "data" \in s.cbs
    /\ src' = [src EXCEPT !.frames = @ + 1, !.held = s.chan, !.lost = ~s.chan]
    /\ UNCHANGED <<s, c>>

\* The rtp sender takes the packets; sending them counts as activity.
rtp_sender ==
    /\ s.kind = "whep" /\ c.co["media"] = "on" /\ src.held
    /\ src' = [src EXCEPT !.held = FALSE]
    /\ c' = [c EXCEPT !.active = TRUE]
    /\ UNCHANGED s

\* The source of a publisher is closed, by a DELETE request or by the
\* application: it stops its session.
whip_closed ==
    /\ s.kind = "whip" /\ src.live /\ s.media = "sdp"
    /\ src' = [src EXCEPT !.live = FALSE]
    /\ s' = stop(s)
    /\ UNCHANGED c

-----------------------------------------------------------------------------
Shaking == c.timer \in {"armed", "due"}

\* mutant of rtc_stop: the DTLS timer is not cancelled.
rtc_stop_uncancelled ==
    /\ s.kind \in Rtc
    /\ \/ /\ s.stopper = "queued"
          /\ s' = [s EXCEPT !.stopper = "dtls"]
          /\ c' = [c EXCEPT !.udp = FALSE]
          /\ UNCHANGED src
       \/ /\ s.stopper = "dtls" /\ ~Shaking
          /\ s' = [s EXCEPT !.chan = FALSE, !.stopper = "wait"]
          /\ UNCHANGED <<src, c>>
       \/ /\ s.stopper = "wait" /\ ~(s.sink = "set" /\ src.held)
          /\ s' = LET x == [s EXCEPT !.stopper = "done"]
                  IN  IF s.sink # "set" THEN x
                      ELSE [MediaSink_close([x EXCEPT !.cbs = {}]) EXCEPT !.sink = "null"]
          /\ src' = IF s.media = "sdp" THEN [src EXCEPT !.live = FALSE] ELSE src
          /\ c' = [c EXCEPT !.reg = FALSE, !.route = FALSE]

\* stop(): the UDP channel, then DtlsBoringSSLSession::close(), which cancels
\* the timer and waits for its coroutine; a timer that has expired does not
\* notice.  Then the other channels and timers, and (the wait group may let it
\* through early) the sink, the source, the maps.
rtc_stop ==
    /\ s.kind \in Rtc
    /\ \/ /\ s.stopper = "queued"
          /\ s' = [s EXCEPT !.stopper = "dtls"]
          /\ c' = [c EXCEPT !.udp = FALSE, !.missed = c.timer = "due",
                            !.timer = IF @ = "armed" THEN "end" ELSE @]
          /\ UNCHANGED src
       \/ /\ s.stopper = "dtls" /\ ~Shaking
          /\ s' = [s EXCEPT !.chan = FALSE, !.stopper = "wait"]
          /\ UNCHANGED <<src, c>>
       \/ /\ s.stopper = "wait" /\ ~(s.sink = "set" /\ src.held)
          /\ s' = LET x == [s EXCEPT !.stopper = "done"]
                  IN  IF s.sink # "set" THEN x
                      ELSE [MediaSink_close([x EXCEPT !.cbs = {}]) EXCEPT !.sink = "null"]
          /\ src' = IF s.media = "sdp" THEN [src EXCEPT !.live = FALSE] ELSE src
          /\ c' = [c EXCEPT !.reg = FALSE, !.route = FALSE]
=============================================================================
