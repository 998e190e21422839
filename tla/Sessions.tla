------------------------------ MODULE Sessions ------------------------------
(***************************************************************************)
(* The sessions side by side: one session of any kind, its source and its  *)
(* connection.                                                             *)
(***************************************************************************)
EXTENDS WebRtcSession, RtspSession, ClientSession

\* The source has no status yet, or OK.  A session without a callback for the
\* status does not hear of it: the WebRTC and RTSP sessions begin with none.
Init ==
    /\ \E st \in {"init", "ok"} : src = SourceStart(st)
    /\ \/ \E kind \in Long \cup Short, keep \in BOOLEAN :
            s = SessionStart(kind) /\ c = HttpStart(keep)
       \/ \E kind \in Rtc : src.status = "init" /\ s = SessionStart(kind) /\ c = RtcStart(FALSE)
       \/ s = SessionStart("rtmp") /\ c = RtmpStart
       \/ src.status = "init" /\ s = SessionStart("rtsp") /\ c = RtspConn
       \/ \E kind \in Pulls : src.status = "init" /\ s = SessionStart(kind) /\ c = ClientStart
       \/ src.status = "ok" /\ s = SessionStart("push") /\ c = ClientStart

\* What comes from outside: the source, which the short answers do not hang on
\* and whose status only three kinds have a callback for, and the peer.
Outside ==
    \/ s.kind \in {"flv", "ts", "rtmp"} /\ set_status
    \/ s.kind \notin Short \cup Pulls \cup {"whip"} /\ source_close
    \/ deliver \/ rtmp_deliver \/ peer_leaves \/ on_http_request
    \/ viewer_comes \/ viewer_leaves \/ pull_closed
    \/ browser_leaves \/ process_stun_packet \/ on_udp_socket_recv \/ on_video_packets
    \/ whip_closed \/ dtls_timer \/ helper_fails

Http ==
    \/ http_stop \/ flv_start \/ flv_status \/ flv_status_written \/ flv_stop \/ flv_stopped
    \/ ts_start \/ ts_status \/ ts_status_written \/ ts_stop \/ m4s_start \/ m4s_stop
    \/ m3u8_start \/ tsseg_start \/ mpd_start \/ m4sseg_start \/ static_fs_handler

Rtmp == rtmp_start \/ handle_amf0_play_command \/ send_rtmp_message \/ rtmp_status \/ do_stop
Rtsp == rtsp_start \/ rtsp_resume \/ rtsp_stop

Client ==
    \/ pull_start \/ pull_send \/ pull_status \/ pull_check_closable \/ pull_stop
    \/ pullflv_start \/ flv_check_closable \/ pullflv_stop
    \/ push_start \/ push_send \/ push_status \/ push_alive \/ push_stop

WebRtc ==
    \/ process_whip_req \/ process_whep_req \/ recv_udp_msg \/ do_handshake \/ helper_ends
    \/ alive_checker \/ rtp_sender \/ rtc_stop

Send(i) ==
    \/ send_flv_tags(i) \/ flv_sender_ends(i) \/ send_ts_seg(i) \/ ts_sender_ends(i)
    \/ send_fmp4_seg(i) \/ rtmp_sender(i) \/ rtsp_sender(i) \/ pull_sender(i) \/ push_sender(i)

Sink == notify_status \/ sink_close \/ status_dropped

\* What the workers run.
Inside == Http \/ Rtmp \/ Rtsp \/ Client \/ WebRtc \/ Sink \/ \E i \in DOMAIN s.senders : Send(i)

\* What the server has asked others for comes or does not come.
Receive == pull_recv \/ cycle_pull_flv_tag \/ push_recv

\* A process that used a null pointer is gone.
Next == ~s.crashed /\ (Outside \/ Inside \/ on_recv_rtmp_message \/ rtsp_recv \/ Receive)

Spec == Init /\ [][Next]_vars

\* A worker runs what is ready, and a write ends because the socket's
\* inactivity timer closes a connection that does not move.  The source, the
\* peer and its requests come or do not come.
FairSpec == Spec /\ WF_vars(~s.crashed /\ Inside)

-----------------------------------------------------------------------------
Heads(out) == SelectSeq(out, LAMBDA e : e \notin {"data", "flvhead"})
Before(out, a, b) == \A i \in DOMAIN out : out[i] = b => \E j \in 1..(i - 1) : out[j] = a

\* A player hears one answer, and media only behind it: an HTTP request gets one
\* status line whatever the source says and how often, RTMP media follow the
\* play messages, RTSP replies go out in the order of the requests.  With one
\* notification (a second one may start a second send coroutine) nothing is
\* written while something else is being written, and while the connection lasts
\* the request passes it on once (close_or_do_next_req).
OneAnswer ==
    /\ s.kind \in HttpKinds => /\ Len(Heads(c.out)) <= 1
                               /\ c.out # <<>> => Head(c.out) \notin {"data", "flvhead"}
    /\ s.kind = "rtmp" => Before(c.out, "sample", "data")
    /\ s.kind = "rtsp" => LET r == SelectSeq(c.out, LAMBDA e : e # 0)
                          IN  \A i, j \in DOMAIN r : i < j => r[i] < r[j]
    /\ s.told <= 1 => Writers(s) <= 1
    /\ s.kind \in HttpKinds /\ c.up = "open" /\ s.told <= 1 => c.turns <= 1

\* The server closes a connection on a player it refuses only when the refusal
\* has been written (RTSP: was given to an idle send coroutine).
RefusalIsHeard ==
    [][c.up = "open" /\ c'.up = "closed" /\ s.refusal # <<>>
         => \E i \in DOMAIN c.out : c.out[i] = s.refusal[1]]_vars

Released == s.stopper = "done" /\ ~s.joined /\ \A i \in DOMAIN s.senders : s.senders[i] = "end"

\* A WebRTC session that cannot finish stop(): close() cancelled a DTLS timer that
\* had expired, or the source holds sinks_mtx_ in the middle of giving it a packet.
Stuck == s.kind \in Rtc /\ (c.missed \/ (src.held /\ s.stopper = "wait"))

\* When a source closes, the session of every sink it had ends: its coroutines
\* return and it lets go of the sink.  A push, whose sink has no close callback,
\* ends by its alive checker.
StopsWithSource == s.closing > 0 ~> Released \/ s.crashed \/ Stuck

\* A session that stops gives the connection to the request behind it.  (Not
\* the transport stream, whose response is never closed, nor a flv session that
\* never got to send, nor a manifest or a segment that was sent.)
Yields == \/ s.kind \in {"m3u8", "tsseg", "file", "m4s"}
          \/ s.kind = "flv" /\ (s.refusal # <<>> \/ s.senders # <<>>)
Over == s.closed \/ (s.kind \in Short /\ s.pc = "ended")
Moved == s.kind \in Long \cup Short /\ (c.turns > 0 \/ c.up # "open")
NextRequestRuns == Yields /\ Over ~> Moved \/ s.crashed

\* A null pointer is used only in these cases: the source closes while the
\* answer to its OK is being written, or before the first tags of an flv stream
\* are; a file or a WebRTC answer is being sent when the client leaves; a packet
\* of a WebRTC publisher is dealt with when stop() is through; SETUP follows an
\* ANNOUNCE that was turned down; a pull is told to use an unknown protocol; an
\* HTTP pull is redirected to a server that does not answer, or gets an FLV
\* header; a push stops before the target has answered.
NullSafe ==
    s.crashed => \/ s.kind \in {"flv", "ts"} /\ s.sink = "null"
                 \/ s.kind \in {"file"} \cup Rtc /\ c.up = "closed"
                 \/ s.kind = "whip" /\ s.stopper = "done"
                 \/ s.kind = "rtsp" /\ s.media = "bare"
                 \/ s.kind = "pull" /\ s.pc = "begin"
                 \/ s.kind = "pullflv" /\ (c.moved \/ s.pc = "body")
                 \/ s.kind = "push" /\ s.sink = "null"

\* A pull nobody watches ends, and a pull that ends takes its source with it,
\* which is how the players that wait for a stream that never came are let go.
Watched == ~s.closed /\ c.viewers > 0
PullIsOver ==
    s.kind \in Pulls /\ ~Watched /\ (s.closed \/ c.checker = "on")
      ~> s.crashed \/ ~src.live \/ (s.kind \in Pulls /\ Watched)

\* A WebRTC session that stops, and a publisher whose browser has gone, leaves
\* the maps of the server, unless it is stuck.
LeavesTheServer ==
    s.kind \in Rtc /\ (s.closed \/ (s.kind = "whip" /\ c.co["alive"] = "on" /\ ~c.peer))
      ~> s.crashed \/ Stuck \/ (s.kind \in Rtc /\ ~c.reg /\ ~c.route)

\* Only a session that is stopping takes others with it: the UDP loop of a
\* worker, which a packet for a closed channel ends and one that nobody receives
\* holds up, and the coroutine that feeds the source, likewise.
HarmsInStopping ==
    s.kind \in Rtc => \/ s.closed
                      \/ c.loop # "dead" /\ ~src.lost /\ ~(c.loop = "sending" /\ c.co["recv"] = "end")
=============================================================================
