---------------------------- MODULE HttpSession ----------------------------
(***************************************************************************)
(* One HTTP request of a keep-alive connection and the session that        *)
(* answers it, with the requests queued behind it.                         *)
(*                                                                         *)
(* kind:  "flv", "ts", "m4s"  a stream that lasts (http_flv_, http_long_   *)
(*        ts_ and http_long_m4s_server_session.cpp);                       *)
(*        "m3u8", "mpd", "tsseg", "m4sseg", "file"  an answer of its own;  *)
(*        "whep", "whip"  see WebRtcSession.                               *)
(* c:     curr (curr_req_ is set), waiting (requests in reqs_), keep (the  *)
(*        request says Connection: Keep-Alive), sock (sock_ is not null),  *)
(*        turns (history: how often this request let the next one start).  *)
(***************************************************************************)
EXTENDS SessionCore

CONSTANT
    MaxWaiting    \* bound: requests the client pipelines behind this one

Long == {"flv", "ts", "m4s"}
Short == {"m3u8", "mpd", "tsseg", "m4sseg", "file"}
Rtc == {"whep", "whip"}           \* the exchange that sets a WebRTC session up
HttpKinds == Long \cup Short \cup Rtc

HttpStart(keep) ==
    [up |-> "open", out |-> <<>>, curr |-> TRUE, waiting |-> 0, keep |-> keep,
     sock |-> TRUE, turns |-> 0]

-----------------------------------------------------------------------------
(* HttpServerSession.                                                      *)

\* on_http_request() while another request is current: it waits.
on_http_request ==
    /\ s.kind \in Long \cup Short
    /\ c.up = "open" /\ c.sock /\ c.curr /\ c.turns + c.waiting < MaxWaiting
    /\ c' = [c EXCEPT !.waiting = @ + 1]
    /\ UNCHANGED <<src, s>>

\* The receive loop ends, or the socket was closed under it: stop() closes
\* the socket and drops it.
http_stop ==
    /\ s.kind \in HttpKinds
    /\ c.up # "open" /\ c.sock
    /\ c' = [c EXCEPT !.up = "closed", !.sock = FALSE]
    /\ UNCHANGED <<src, s>>

\* The handlers of a file and of WebRTC run inside the request's coroutine,
\* which keeps the HttpServerSession alive; the others return at once and the
\* response holds a weak pointer.
Held(x) == x.kind \in {"file"} \cup Rtc /\ x.pc # "ended"

\* close_or_do_next_req() through HttpResponse::close(): no current request or
\* no session, nothing; no Keep-Alive, the socket is closed (crash when it was
\* already dropped); else the next request starts, or none is current.
NextTurn(x, y) ==
    IF ~y.curr \/ (~y.sock /\ ~Held(x)) THEN y
    ELSE IF ~y.keep THEN [y EXCEPT !.up = "closed"]
    ELSE IF y.waiting = 0 THEN [y EXCEPT !.curr = FALSE, !.turns = @ + 1]
    ELSE [y EXCEPT !.waiting = @ - 1, !.turns = @ + 1]

NoSocket(x, y) == y.curr /\ ~y.sock /\ Held(x) /\ ~y.keep

\* HttpResponse::close()
response_close(x, y) == IF NoSocket(x, y) THEN [s |-> Crash(x), c |-> y]
                        ELSE [s |-> x, c |-> NextTurn(x, y)]

\* close(true) of a session: the response, then stop().
close(x, y) == LET r == response_close(x, y) IN [r EXCEPT !.s = stop(@)]

-----------------------------------------------------------------------------
(* What start() of the sessions shares: the outcome of the look-ups and    *)
(* the refusal they end in.                                                *)

Become(r) == s' = r.s /\ c' = r.c

\* write_header of a refusal begins.
Refuse(code) ==
    /\ s' = [s EXCEPT !.pc = "refusing", !.refusal = <<code>>]
    /\ c' = Wrote(c, code)

Refused == s.pc = "refusing"      \* and written, well or not
Ended(x) == [x EXCEPT !.pc = "ended"]

\* find_and_set_app, then on_play, which awaits the answer of a callback.
Authorise(noApp) ==
    /\ s.pc = "begin"
    /\ \/ Refuse(noApp)
       \/ s' = [s EXCEPT !.pc = "asked"] /\ UNCHANGED c

\* The source is looked up, a pull is tried, a bridge is made.
LookUp(from) ==
    /\ s.pc = from
    /\ \E code \in {"403", "404", "415"} : Refuse(code)

\* make_shared of the sink, its callbacks, add_media_sink.
Attach(x, cbs) ==
    add_media_sink([x EXCEPT !.pc = "ended", !.sink = "set", !.cbs = cbs])

-----------------------------------------------------------------------------
(* HttpFlvServerSession.                                                   *)

flv_start ==
    /\ s.kind = "flv"
    /\ \/ Authorise("403")
       \/ LookUp("asked")
       \/ s.pc = "asked" /\ s' = Attach(s, {"close", "status"}) /\ UNCHANGED c
       \/ Refused /\ Become(close(Ended(s), c))
    /\ UNCHANGED src

\* The data callback of an OK status, and the send coroutine before it.
StartSending(x) ==
    LET y == AddSender(x)
    IN  IF x.sink = "null" THEN Crash(y) ELSE [y EXCEPT !.cbs = @ \cup {"data"}]

\* mutant of flv_status: the flag is set when the header is out.
flv_status_late ==
    /\ s.kind = "flv" /\ NextStatus
    /\ LET st == Head(s.posted)
           x  == Notified(s)
       IN  IF ~s.asked
           THEN s' = [x EXCEPT !.heads = Append(@, st)] /\ c' = Wrote(c, st)
           ELSE s' = (IF st = "ok" THEN StartSending(x) ELSE x) /\ UNCHANGED c
    /\ UNCHANGED src

\* process_source_status() up to the header's await, or all of it when a
\* header was sent before.
StatusBegins ==
    /\ NextStatus
    /\ LET st == Head(s.posted)
           x  == Notified(s)
       IN  IF ~s.asked
           THEN s' = [x EXCEPT !.asked = TRUE, !.heads = Append(@, st)] /\ c' = Wrote(c, st)
           ELSE s' = (IF st = "ok" THEN StartSending(x) ELSE x) /\ UNCHANGED c
    /\ UNCHANGED src

\* The rest, once write_header returns.
StatusEnds ==
    /\ s.heads # <<>>
    /\ \E ok \in WriteEnds(c) :
         LET st == Head(s.heads)
             x  == [s EXCEPT !.asked = TRUE, !.heads = Tail(@)]
         IN  IF ~ok THEN Become(close(x, c))
             ELSE s' = (IF st = "ok" THEN StartSending(x) ELSE x) /\ UNCHANGED c
    /\ UNCHANGED src

flv_status == s.kind = "flv" /\ StatusBegins
flv_status_written == s.kind = "flv" /\ StatusEnds

\* A send coroutine takes a function from the channel.
Takes(i) == s.senders[i] = "wait" /\ s.q # <<>>
Taken(x) == [x EXCEPT !.q = Tail(@)]

\* send_flv_tags(): the flv header needs the sink's source; then the tags.
send_flv_tags(i) ==
    /\ s.kind = "flv"
    /\ \/ /\ Takes(i)
          /\ IF s.flvhead
             THEN s' = SetSender(Taken(s), i, "write") /\ c' = Wrote(c, "data")
             ELSE IF s.sink = "null" \/ ~s.linked
             THEN s' = Crash(Taken(s)) /\ UNCHANGED c
             ELSE s' = SetSender(Taken(s), i, "head") /\ c' = Wrote(c, "flvhead")
       \/ /\ s.senders[i] = "head"
          /\ \E ok \in WriteEnds(c) :
               IF ok THEN /\ s' = SetSender([s EXCEPT !.flvhead = TRUE], i, "write")
                          /\ c' = Wrote(c, "data")
               ELSE Become(close(SetSender(s, i, "failed"), c))
       \/ /\ s.senders[i] = "write"
          /\ \E ok \in WriteEnds(c) :
               IF ok THEN s' = SetSender(s, i, "wait") /\ UNCHANGED c
               ELSE Become(close(SetSender(s, i, "failed"), c))
    /\ UNCHANGED src

\* The loop breaks on a closed channel or a failed send.
LoopEnds(i) == \/ s.senders[i] = "failed"
               \/ s.senders[i] = "wait" /\ ~s.chan

\* start_send_coroutine(), its completion handler: close(true), wg_.done().
flv_sender_ends(i) ==
    /\ s.kind = "flv" /\ LoopEnds(i)
    /\ Become(close(SetSender(s, i, "end"), c))
    /\ UNCHANGED src

\* mutant of StopBegins: the channel stays open.
StopBegins_open ==
    /\ s.stopper = "queued"
    /\ s' = [s EXCEPT !.stopper = "wait"]
    /\ UNCHANGED <<src, c>>

\* stop()'s coroutine: close the channel; wait for the send coroutines (the
\* WaitGroup's timer has no expiry, so the wait may end before they do).
StopBegins ==
    /\ s.stopper = "queued"
    /\ s' = [s EXCEPT !.chan = FALSE, !.stopper = "wait"]
    /\ UNCHANGED <<src, c>>

\* Out of the source, the sink closed, its callbacks cleared, the sink reset.
flv_stopped ==
    /\ s.kind = "flv" /\ s.stopper = "wait"
    /\ s' = LET x == [s EXCEPT !.stopper = "done"]
            IN  IF s.sink # "set" THEN x
                ELSE [remove_media_sink(x) EXCEPT !.cbs = {}, !.sink = "null"]
    /\ UNCHANGED <<src, c>>

flv_stop == s.kind = "flv" /\ StopBegins

-----------------------------------------------------------------------------
(* HttpLongTsServerSession: refusals and the end of a send coroutine stop  *)
(* the session and leave the response open.                                *)

ts_start ==
    /\ s.kind = "ts"
    /\ \/ Authorise("404")
       \/ LookUp("asked")
       \/ s.pc = "asked" /\ s' = Attach(s, {"close", "status"}) /\ UNCHANGED c
       \/ Refused /\ s' = stop(Ended(s)) /\ UNCHANGED c
    /\ UNCHANGED src

ts_status == s.kind = "ts" /\ StatusBegins
ts_status_written == s.kind = "ts" /\ StatusEnds

\* send_ts_seg(): the packets of the batch in one write.
send_ts_seg(i) ==
    /\ s.kind = "ts"
    /\ \/ Takes(i) /\ s' = SetSender(Taken(s), i, "write") /\ c' = Wrote(c, "data")
       \/ /\ s.senders[i] = "write"
          /\ \E ok \in WriteEnds(c) :
               IF ok THEN s' = SetSender(s, i, "wait") /\ UNCHANGED c
               ELSE Become(close(SetSender(s, i, "failed"), c))
    /\ UNCHANGED src

ts_sender_ends(i) ==
    /\ s.kind = "ts" /\ LoopEnds(i)
    /\ s' = stop(SetSender(s, i, "end"))
    /\ UNCHANGED <<src, c>>

\* The callbacks are cleared only while the sink knows its source.
ts_stop ==
    /\ s.kind = "ts"
    /\ \/ StopBegins
       \/ /\ s.stopper = "wait"
          /\ s' = LET x == [s EXCEPT !.stopper = "done"]
                  IN  IF s.sink # "set" THEN x
                      ELSE [remove_media_sink(x) EXCEPT
                               !.cbs = IF s.linked THEN {} ELSE @, !.sink = "null"]
          /\ UNCHANGED <<src, c>>

-----------------------------------------------------------------------------
(* HttpLongM4sServerSession: the send coroutine starts before the header,  *)
(* the sink joins after it.                                                *)

m4s_start ==
    /\ s.kind = "m4s"
    /\ \/ LookUp("begin")
       \/ /\ s.pc = "begin"
          /\ s' = AddSender([s EXCEPT !.pc = "heading", !.sink = "set",
                                      !.cbs = {"close", "data"}])
          /\ c' = Wrote(c, "ok")
       \/ /\ s.pc = "heading"
          /\ \E ok \in WriteEnds(c) :
               s' = IF ok THEN add_media_sink(Ended(s)) ELSE stop(Ended(s))
          /\ UNCHANGED c
       \/ Refused /\ s' = stop(Ended(s)) /\ UNCHANGED c
    /\ UNCHANGED src

\* The send coroutine: a segment in one write; a failed write and the end of
\* the loop stop the session.
send_fmp4_seg(i) ==
    /\ s.kind = "m4s"
    /\ \/ Takes(i) /\ s' = SetSender(Taken(s), i, "write") /\ c' = Wrote(c, "data")
       \/ /\ s.senders[i] = "write"
          /\ \E ok \in WriteEnds(c) :
               s' = IF ok THEN SetSender(s, i, "wait") ELSE stop(SetSender(s, i, "failed"))
          /\ UNCHANGED c
       \/ LoopEnds(i) /\ s' = stop(SetSender(s, i, "end")) /\ UNCHANGED c
    /\ UNCHANGED src

\* mutant of m4s_stop: the response is not closed.
m4s_stop_open ==
    /\ s.kind = "m4s"
    /\ \/ StopBegins
       \/ /\ s.stopper = "wait"
          /\ s' = [remove_media_sink(s) EXCEPT !.stopper = "done"]
          /\ UNCHANGED <<src, c>>

m4s_stop ==
    /\ s.kind = "m4s"
    /\ \/ StopBegins
       \/ /\ s.stopper = "wait"
          /\ LET x == [s EXCEPT !.stopper = "done"]
             IN  Become(response_close(IF s.sink # "set" THEN x
                                       ELSE [remove_media_sink(x) EXCEPT
                                                !.cbs = IF s.linked THEN {} ELSE @, !.sink = "null"],
                                       c))
          /\ UNCHANGED src

-----------------------------------------------------------------------------
(* The sessions with an answer of their own.  stop() closes the response,  *)
(* once.                                                                   *)

ShortStop(x, y) ==
    IF x.closed THEN [s |-> x, c |-> y] ELSE response_close([x EXCEPT !.closed = TRUE], y)

\* The header of the answer is written, then its body.
Answering ==
    \/ s.pc = "begin" /\ s' = [s EXCEPT !.pc = "heading"] /\ c' = Wrote(c, "ok")
    \/ /\ s.pc = "heading" /\ TRUE \in WriteEnds(c)
       /\ s' = [s EXCEPT !.pc = "body"] /\ c' = Wrote(c, "data")

HeaderFails == s.pc = "heading" /\ FALSE \in WriteEnds(c)

\* Every path of the coroutine ends in the completion handler's stop().
m3u8_start ==
    /\ s.kind = "m3u8"
    /\ \/ LookUp("begin") \/ Answering
       \/ s.pc = "begin" /\ \E code \in {"401", "500"} : Refuse(code)
       \/ Refused /\ Become(ShortStop(Ended(s), c))
       \/ HeaderFails /\ Become(ShortStop(Ended(s), c))
       \/ s.pc = "body" /\ Become(ShortStop(Ended(s), c))
    /\ UNCHANGED src

tsseg_start ==
    /\ s.kind = "tsseg"
    /\ \/ LookUp("begin") \/ Answering
       \/ Refused /\ Become(ShortStop(Ended(s), c))
       \/ HeaderFails /\ Become(ShortStop(Ended(s), c))
       \/ s.pc = "body" /\ Become(ShortStop(Ended(s), c))
    /\ UNCHANGED src

\* A manifest or a segment that was sent leaves the response open.
mpd_start ==
    /\ s.kind = "mpd"
    /\ \/ LookUp("begin") \/ Answering
       \/ Refused /\ Become(ShortStop(Ended(s), c))
       \/ HeaderFails /\ Become(ShortStop(Ended(s), c))
       \/ s.pc = "body" /\ s' = Ended(s) /\ UNCHANGED c
    /\ UNCHANGED src

m4sseg_start ==
    /\ s.kind = "m4sseg"
    /\ \/ LookUp("begin") \/ Answering
       \/ Refused /\ Become(ShortStop(Ended(s), c))
       \/ HeaderFails /\ Become(ShortStop(Ended(s), c))
       \/ s.pc = "body" /\ s' = Ended(s) /\ UNCHANGED c
    /\ UNCHANGED src

\* static_fs_handler(): every path closes the response, inside the coroutine.
static_fs_handler ==
    /\ s.kind = "file"
    /\ \/ s.pc = "begin" /\ \E code \in {"403", "404"} : Refuse(code)
       \/ Answering
       \/ /\ Refused \/ HeaderFails \/ s.pc = "body"
          /\ LET r == response_close(s, c) IN Become([r EXCEPT !.s = Ended(@)])
    /\ UNCHANGED src
=============================================================================
