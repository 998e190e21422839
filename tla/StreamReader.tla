----------------------------- MODULE StreamReader -----------------------------
(***************************************************************************)
(* A connection read message by message: bytes arrive in segments that     *)
(* have nothing to do with the messages in them, and the receive loop      *)
(* parses what its buffer holds.  One module for the four receive loops:   *)
(*   "rtmp"  RtmpChunkProtocol::cycle_recv_rtmp_message                     *)
(*   "http"  HttpServerSession::cycle_recv with HttpParser                  *)
(*   "rtsp"  RtspServerSession::start_recv_coroutine                        *)
(*   "hook"  HttpResponse::recv_http_header and cycle_recv_body             *)
(***************************************************************************)
EXTENDS RtmpChunk, TextProto

CONSTANTS
    Scripts,    \* what a peer sends: [proto, msgs, plan]
    FirstCap,   \* the buffer each loop begins with, by protocol
    MaxCap      \* the bound at which it is no longer doubled

VARIABLES
    script,     \* the script that is played
    sent,       \* its messages as the handler should see them
    wire,       \* what has not arrived yet
    buf,        \* the receive buffer
    cap,        \* its size
    p,          \* the state of the parser
    delivered,  \* what the handler was given
    status,     \* "reading", "parsing" or "ended"
    lossy       \* the code is known not to keep the messages apart from here on

vars == <<script, sent, wire, buf, cap, p, delivered, status, lossy>>

-----------------------------------------------------------------------------
(* The sender of RTMP messages.  Without a plan the messages are sent by     *)
(* send_rtmp_messages, one after the other; with one the peer sends a chunk  *)
(* of message plan[k] in its k-th step, so that chunk streams are mixed.     *)

CapLimit(proto) ==
    LET grown[c \in 1..MaxCap[proto]] == IF 2 * c < MaxCap[proto] THEN grown[2 * c] ELSE c
    IN  grown[FirstCap[proto]]

\* The messages the server sends to itself as control messages: size and abort.
Resized(m, size) == IF m.csid = 2 /\ m.type = "chunk_size" THEN m.id ELSE size

\* In the place of a time the receiver is known not to reproduce.
Adrift == TsMod

\* One chunk more.  lossy: the receiver will read these fields differently.
\* adrift: the time of the chunk stream is no longer the sender's.
SendStep(s, m, i) ==
    LET prev == s.prev[m.csid]
        c == send_chunk(prev, m, s.pos[i], s.size)
        f == fmt(prev, m)
        step == IF prev = NoChunk THEN 0 ELSE Signed(m.ts - prev.ts)
        wrong == \/ f = 3 /\ step % TsMod >= Escape
                 \/ f = 0 /\ m.ts < 0 /\ m.ts % Low = Escape
                 \/ f # 0 /\ m.csid \in s.aborted
                 \/ Len(c.fields) > CapLimit("rtmp")
                 \/ m.len >= MaxMessage
        adrift == CASE f = 0 -> m.ts < 0
                    [] f = 3 -> s.adrift[m.csid] \/ (s.pos[i] = 0 /\ step # 0)
                    [] OTHER -> s.adrift[m.csid]
        done == c.pos = m.len /\ ~IsControl(m)
        data == [k \in 1..m.len |-> Field("data", <<m.id, k>>)]
    IN  [fields |-> s.fields \o c.fields,
         prev |-> [s.prev EXCEPT ![m.csid] = c.prev],
         pos |-> [s.pos EXCEPT ![i] = c.pos],
         size |-> Resized(m, s.size),
         aborted |-> (IF f = 0 THEN s.aborted \ {m.csid} ELSE s.aborted)
                        \cup (IF IsControl(m) /\ m.type = "abort" THEN {m.id} ELSE {}),
         adrift |-> [s.adrift EXCEPT ![m.csid] = adrift],
         lossy |-> s.lossy \/ wrong,
         sent |-> IF done
                  THEN Append(s.sent, [csid |-> m.csid, type |-> m.type, msid |-> m.msid,
                                       len |-> m.len, body |-> data,
                                       ts |-> IF adrift THEN Adrift ELSE m.ts])
                  ELSE s.sent]

Csids(msgs) == {msgs[i].csid : i \in DOMAIN msgs} \cup {msgs[i].id : i \in DOMAIN msgs}

RtmpSent(msgs, plan) ==
    LET total == Len(plan)
        start == [fields |-> <<>>, prev |-> [c \in Csids(msgs) |-> NoChunk],
                  pos |-> [i \in DOMAIN msgs |-> 0], size |-> FirstSize, aborted |-> {},
                  adrift |-> [c \in Csids(msgs) |-> FALSE], lossy |-> FALSE, sent |-> <<>>]
        after[k \in 0..total] ==
            IF k = 0 THEN start ELSE SendStep(after[k - 1], msgs[plan[k]], plan[k])
    IN  after[total]

\* The plan of send_rtmp_messages; it ends before a message of too many chunks.
OwnPlan(msgs) ==
    LET from[i \in 1..(Len(msgs) + 1), size \in Nat] ==
            LET m == msgs[i]
                n == (m.len + size - 1) \div size
            IN  IF i > Len(msgs) \/ n > MaxChunks THEN <<>>
                ELSE [k \in 1..n |-> i] \o from[i + 1, Resized(m, size)]
    IN  from[1, FirstSize]

-----------------------------------------------------------------------------
(* What the peer puts on the wire, by protocol, and what should be seen.     *)

Tokens(proto, m) ==
    CASE proto = "http" -> http_request(m)
      [] proto = "rtsp" -> rtsp_message(m)
      [] proto = "hook" -> http_answer(m)

Joined(proto, msgs) ==
    LET upto[i \in 0..Len(msgs)] == IF i = 0 THEN <<>> ELSE upto[i - 1] \o Tokens(proto, msgs[i])
    IN  upto[Len(msgs)]

Seen(proto, m) ==
    CASE proto = "http" -> [id |-> m.id, method |-> m.method,
                            body |-> IF m.length > 0 THEN Body(m.id, m.length) ELSE <<>>]
      [] proto = "rtsp" -> [id |-> m.id, kind |-> m.kind, body |-> Body(m.id, m.length)]
      [] proto = "hook" -> [id |-> m.id, body |-> Body(m.id, m.length), code |-> m.code]

\* The messages of a text protocol that its parser is known not to tell apart,
\* whatever the segments: a POST of length 0, or with no length and more behind
\* it, a GET with a body; an RTSP message that does not parse, or does not fit.
Untellable(proto, msgs) ==
    CASE proto = "http" ->
            \E i \in DOMAIN msgs :
                \/ msgs[i].method # "GET" /\ msgs[i].length = 0
                \/ msgs[i].method # "GET" /\ msgs[i].length = -1 /\ i < Len(msgs)
                \/ msgs[i].method = "GET" /\ msgs[i].length > 0
      [] proto = "rtsp" ->
            \E i \in DOMAIN msgs :
                \/ ~msgs[i].ok
                \/ Len(Tokens(proto, msgs[i])) > CapLimit("rtsp")
                \/ msgs[i].kind = "packet" /\ ~\E j \in 1..(i - 1) : msgs[j].setup
      [] proto = "hook" -> \E i \in DOMAIN msgs : Len(Tokens(proto, msgs[i])) > CapLimit("hook")

InitStream(s) ==
    /\ script = s
    /\ IF s.proto = "rtmp"
       THEN LET out == RtmpSent(s.msgs, IF s.plan = <<>> THEN OwnPlan(s.msgs) ELSE s.plan)
            IN  wire = out.fields /\ sent = out.sent /\ lossy = out.lossy
       ELSE /\ wire = Joined(s.proto, s.msgs)
            /\ sent = [i \in DOMAIN s.msgs |-> Seen(s.proto, s.msgs[i])]
            /\ lossy = Untellable(s.proto, s.msgs)
    /\ p = CASE s.proto = "rtmp" -> RtmpStart
             [] s.proto = "http" -> HttpStart
             [] s.proto = "rtsp" -> RtspStart
             [] s.proto = "hook" -> AnswerStart
    /\ buf = <<>>
    /\ cap = FirstCap[s.proto]
    /\ delivered = <<>>
    /\ status = "reading"

Init == \E s \in Scripts : InitStream(s)

-----------------------------------------------------------------------------
Read(b) ==
    CASE script.proto = "rtmp" -> process_recv_buffer(b, p)
      [] script.proto = "http" -> http_read(b, p)
      [] script.proto = "rtsp" -> rtsp_read(b, p)
      [] script.proto = "hook" -> answer_read(b, p)

\* The buffer the next segment is read into: doubled when it is full.
NextCap == IF Len(buf) < cap THEN cap ELSE 2 * cap

\* mutant of CanRead: the buffer does not grow.
CanRead_fixed == Len(buf) < cap

CanRead == Len(buf) < cap \/ 2 * cap < MaxCap[script.proto]

\* A segment of n tokens arrives.
Arrive(n) ==
    /\ status = "reading"
    /\ CanRead
    /\ n <= NextCap - Len(buf)
    /\ buf' = buf \o SubSeq(wire, 1, n)
    /\ wire' = SubSeq(wire, n + 1, Len(wire))
    /\ cap' = NextCap
    /\ status' = "parsing"
    /\ UNCHANGED <<script, sent, p, delivered, lossy>>

\* The buffer is full and has grown as far as it may.
Overflow ==
    /\ status = "reading"
    /\ ~CanRead
    /\ status' = "ended"
    /\ UNCHANGED <<script, sent, wire, buf, cap, p, delivered, lossy>>

\* The parser of HTTP requests is about to lose its place: a body that came in
\* two segments, bytes behind a body in its segment.
LosesPlace == script.proto = "http" /\ p.state = "BODY" /\ Len(buf) # p.length

\* One call of the parser, and what the loop does with its result.
Parse ==
    /\ status = "parsing"
    /\ LET r == Read(buf)
           rest == SubSeq(buf, r.used + 1, Len(buf)) IN
        /\ p' = r.p
        /\ buf' = rest
        /\ delivered' = delivered \o r.out
        /\ status' = CASE r.code \in {"fail", "done"} -> "ended"
                       [] r.code = "more" -> "reading"
                       [] r.code = "ok" -> IF rest = <<>> THEN "reading" ELSE "parsing"
    /\ lossy' = (lossy \/ LosesPlace)
    /\ UNCHANGED <<script, sent, wire, cap>>

Next == (\E n \in 1..Len(wire) : Arrive(n)) \/ Overflow \/ Parse

Spec == Init /\ [][Next]_vars

\* The peer's bytes arrive sooner or later, and the loop runs on.
FairSpec == Spec /\ WF_vars(\E n \in 1..Len(wire) : Arrive(n)) /\ WF_vars(Overflow) /\ WF_vars(Parse)

-----------------------------------------------------------------------------
\* A message without its time.
Untimed(m) == IF script.proto = "rtmp" THEN [m EXCEPT !.ts = 0] ELSE m

Untimes(ms) == [i \in DOMAIN ms |-> Untimed(ms[i])]

Promise == INSTANCE OrderedDelivery WITH
                sent <- Untimes(sent), got <- Untimes(delivered), kept <- ~lossy

(* However the bytes of a connection are cut into segments, and however chunk *)
(* streams are mixed, the handler gets the messages that were sent, whole,    *)
(* once and in order: the receive loops implement OrderedDelivery, as long as *)
(* none of the listed weaknesses of the parsers is met.                       *)
MessagesInOrder == Promise!Spec

(* Everything that was sent is handed over in the end: no receive loop stops  *)
(* parsing with a whole message in its buffer, runs out of buffer for one     *)
(* that fits, or takes a remainder for a broken message.                      *)
AllDelivered == <>(lossy \/ Len(delivered) = Len(sent))

(* The receiver of an RTMP stream computes the sender's timestamps from the   *)
(* deltas, also across extended and wrapping ones, for messages of several    *)
(* chunks and for a header that is read twice because its payload was late.   *)
(* (A chunk stream is adrift once a message began with fmt 3: the code does   *)
(* not add the repeated delta; or with a negative time in fmt 0.)             *)
TimesArrive ==
    script.proto = "rtmp" /\ ~lossy =>
        \A i \in DOMAIN delivered :
            i \in DOMAIN sent /\ sent[i].ts # Adrift => delivered[i].ts = sent[i].ts
=============================================================================
