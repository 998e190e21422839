------------------------------ MODULE TextProto ------------------------------
(***************************************************************************)
(* The parsers of the text protocols, as functions of what has arrived:    *)
(* HttpParser::read for the HTTP server, RtspServerSession's receive loop  *)
(* with RtspRequest, RtspResponse and the interleaved RTP packets, and     *)
(* HttpResponse for the HTTP client that asks the on_publish hook.         *)
(*                                                                         *)
(* A token is what a parser takes as a whole or not at all: a line with    *)
(* its CRLF, one part of the four bytes "RTSP", the header of an           *)
(* interleaved packet, one byte of a body.                                 *)
(* A parser returns how it went ("ok", "more" or "fail"), the tokens used, *)
(* its new state and what it handed to its handler.                        *)
(***************************************************************************)
EXTENDS Integers, Sequences

Token(kind, id, value) == [kind |-> kind, id |-> id, value |-> value]

Result(code, used, p, out) == [code |-> code, used |-> used, p |-> p, out |-> out]

Body(id, n) == [i \in 1..n |-> Token("data", id, i)]

\* Where the first token of that kind is, 0 when it has not arrived.
Find(buf, kind) ==
    LET at == {i \in DOMAIN buf : buf[i].kind = kind}
    IN  IF at = {} THEN 0 ELSE CHOOSE i \in at : \A j \in at : i <= j

-----------------------------------------------------------------------------
(* HTTP requests: [method, length (-1: no Content-Length), colon, id].     *)

http_request(m) ==
    <<Token("line", m.id, m)>>
      \o (IF m.length >= 0 THEN <<Token("header", m.id, m.length)>> ELSE <<>>)
      \o <<Token("blank", m.id, 0)>>
      \o (IF m.length > 0 THEN Body(m.id, m.length) ELSE <<>>)

HttpStart == [state |-> "REQUEST_LINE", method |-> "none", length |-> -1, id |-> 0]

Request(p, body) == [id |-> p.id, method |-> p.method, body |-> body]

\* parse_request_line: method, path and version, or an error.
parse_request_line(t) == t.kind = "line"

\* parse_header: any line with a colon.
parse_header(t) == t.kind = "header" \/ (t.kind = "line" /\ t.value.colon)

\* parse_body takes the whole buffer, or nothing when it is shorter than the
\* Content-Length.
parse_body(buf, p) == IF Len(buf) < p.length THEN <<>> ELSE buf

wait_request_line(buf, p) ==
    LET m == buf[1].value
    IN  IF parse_request_line(buf[1])
        THEN Result("ok", 1, [state |-> "HEADER", method |-> m.method, length |-> -1, id |-> m.id], <<>>)
        ELSE Result("fail", 0, [p EXCEPT !.state = "ERROR"], <<>>)

\* A request line in the place of a header passes for one when it has a colon.
wait_header(buf, p) ==
    LET t == buf[1]
    IN  CASE t.kind = "blank" /\ p.method = "GET" ->
                Result("ok", 1, [p EXCEPT !.state = "REQUEST_LINE"], <<Request(p, <<>>)>>)
          [] t.kind = "blank" /\ p.method # "GET" /\ p.length = -1 ->
                Result("ok", 1, p, <<Request(p, <<>>)>>)
          [] t.kind = "blank" /\ p.method # "GET" /\ p.length # -1 ->
                Result("ok", 1, [p EXCEPT !.state = "BODY"], <<>>)
          [] t.kind # "blank" /\ parse_header(t) ->
                Result("ok", 1, [p EXCEPT !.length = IF t.kind = "header" THEN t.value ELSE @], <<>>)
          [] t.kind # "blank" /\ ~parse_header(t) ->
                Result("fail", 0, [p EXCEPT !.state = "ERROR"], <<>>)

\* The request is handed over whether or not parse_body found its body.
request_body(buf, p) ==
    LET body == parse_body(buf, p)
    IN  Result(IF body = <<>> THEN "more" ELSE "ok", Len(body),
               [p EXCEPT !.state = "REQUEST_LINE"], <<Request(p, body)>>)

http_read(buf, p) ==
    CASE p.state = "REQUEST_LINE" -> wait_request_line(buf, p)
      [] p.state = "HEADER" -> wait_header(buf, p)
      [] p.state = "BODY" -> request_body(buf, p)
      [] p.state = "ERROR" -> Result("more", 0, p, <<>>)

-----------------------------------------------------------------------------
(* RTSP: requests [kind "request", length, ok, id], responses, and packets  *)
(* [kind "packet", length, id] between them.                                *)

rtsp_message(m) ==
    CASE m.kind = "request" ->
            <<Token("line", m.id, m), Token("blank", m.id, 0)>> \o Body(m.id, m.length)
      [] m.kind = "response" ->
            <<Token("RT", m.id, m), Token("SP", m.id, m), Token("blank", m.id, 0)>>
              \o Body(m.id, m.length)
      [] m.kind = "packet" ->
            <<Token("$", m.id, m), Token("length", m.id, m.length)>> \o Body(m.id, m.length)

RtspStart == [tcp |-> FALSE, refused |-> FALSE]

\* parse_rtsp_header: 0 before the blank line, -1 when a line of it is not one of
\* a request or a response, else the tokens it takes.
parse_rtsp_header(buf) ==
    LET n == Find(buf, "blank") IN IF n # 0 /\ ~buf[1].value.ok THEN -1 ELSE n

\* What follows a header of n tokens: the body is taken when all of it is there.
parse_content(buf, n) ==
    LET m == buf[1].value
    IN  IF n <= 0 THEN n ELSE IF Len(buf) < n + m.length THEN 0 ELSE n + m.length

request_parse(buf) == parse_content(buf, parse_rtsp_header(buf))
response_parse(buf) == parse_content(buf, parse_rtsp_header(buf))

\* What the loop does with the result: an error is answered with 406, but its
\* bytes stay in the buffer.
take_message(buf, p, n) ==
    LET m == buf[1].value
    IN  CASE n < 0 -> Result("more", 0, [p EXCEPT !.refused = TRUE], <<>>)
          [] n = 0 -> Result("more", 0, p, <<>>)
          [] n > 0 -> Result("ok", n, [p EXCEPT !.tcp = @ \/ m.setup],
                             <<[id |-> m.id, kind |-> m.kind, body |-> SubSeq(buf, n + 1 - m.length, n)]>>)

\* An interleaved packet: 4 bytes of header, then its payload; refused before a
\* SETUP that chose TCP.
parse_interleaved(buf, p) ==
    LET size == buf[2].value
    IN  CASE ~p.tcp -> Result("fail", 0, [p EXCEPT !.refused = TRUE], <<>>)
          [] p.tcp /\ (Len(buf) < 2 \/ Len(buf) - 2 < size) -> Result("more", 0, p, <<>>)
          [] p.tcp /\ Len(buf) >= 2 /\ Len(buf) - 2 >= size ->
                Result("ok", 2 + size, p,
                       <<[id |-> buf[1].id, kind |-> "packet", body |-> SubSeq(buf, 3, 2 + size)]>>)

\* One turn of the loop of start_recv_coroutine.  A buffer that holds only a part
\* of "RTSP" goes the way of a request, which does not find its end.
rtsp_read(buf, p) ==
    CASE buf[1].kind = "RT" /\ Len(buf) > 1 -> take_message(buf, p, response_parse(buf))
      [] buf[1].kind = "$" -> parse_interleaved(buf, p)
      [] OTHER -> take_message(buf, p, request_parse(buf))

-----------------------------------------------------------------------------
(* The answer of an HTTP hook: [form, length, cut, id] with form "length",   *)
(* "chunked" or "raw" (neither); a chunked body comes in two chunks, the      *)
(* first of cut bytes.  The body is JSON and says "code" when m.code.         *)

http_answer(m) ==
    LET part(from, to) == [i \in 1..(to - from) |-> Token("data", m.id, from + i)]
        chunk(from, to) == <<Token("size", m.id, to - from)>> \o part(from, to)
                             \o <<Token("crlf", m.id, 0)>>
    IN  <<Token("line", m.id, m), Token("blank", m.id, 0)>>
          \o (IF m.form = "chunked"
              THEN (IF m.cut > 0 THEN chunk(0, m.cut) ELSE <<>>)
                     \o (IF m.cut < m.length THEN chunk(m.cut, m.length) ELSE <<>>)
                     \o chunk(m.length, m.length)
              ELSE part(0, m.length))

AnswerStart == [state |-> "HEADER", m |-> [form |-> "none"], chunks |-> <<>>]

\* The hook's callback: JSON that is not complete is left in the buffer.
on_publish_callback(m, data) ==
    IF Len(data) < m.length THEN <<>>
    ELSE <<[id |-> m.id, body |-> data, code |-> m.code]>>

\* recv_http_header: nothing happens before the blank line.
parse_http_header(buf) == Find(buf, "blank")

recv_http_header(buf, p) ==
    LET n == parse_http_header(buf)
    IN  IF n = 0 THEN Result("more", 0, p, <<>>)
        ELSE Result("ok", n, [p EXCEPT !.state = "BODY", !.m = buf[1].value], <<>>)

\* The chunks that have arrived in full: the tokens they take, their bytes, and
\* whether the last of them is the empty one.
extract_chunks(buf) ==
    LET more(k) == [used |-> k, data |-> <<>>, last |-> FALSE]
        from[k \in 0..Len(buf)] ==
            LET n == buf[k + 1].value
                rest == from[k + n + 2]
            IN  IF k = Len(buf) \/ Len(buf) < k + n + 2 THEN more(k)
                ELSE [used |-> rest.used,
                      data |-> SubSeq(buf, k + 2, k + 1 + n) \o rest.data,
                      last |-> n = 0 \/ rest.last]
    IN  from[0]

\* cycle_recv_body with a Content-Length: the callback sees the whole body.
recv_length_body(buf, p) ==
    IF Len(buf) < p.m.length THEN Result("more", 0, p, <<>>)
    ELSE Result("done", Len(buf), p, on_publish_callback(p.m, buf))

\* ... in chunks: the callback sees what the chunks so far hold.
recv_chunked_body(buf, p) ==
    LET got == extract_chunks(buf)
        data == p.chunks \o got.data
        out == IF data = <<>> THEN <<>> ELSE on_publish_callback(p.m, data)
    IN  Result(IF got.last THEN "done" ELSE "more", got.used,
               [p EXCEPT !.chunks = IF out = <<>> THEN data ELSE <<>>], out)

\* ... with neither: the callback sees what has arrived, until the peer closes.
recv_raw_body(buf, p) ==
    LET out == on_publish_callback(p.m, buf)
    IN  Result("more", IF out = <<>> THEN 0 ELSE Len(buf), p, out)

cycle_recv_body(buf, p) ==
    CASE p.m.form = "length" /\ p.m.length > 0 -> recv_length_body(buf, p)
      [] p.m.form = "chunked" -> recv_chunked_body(buf, p)
      [] OTHER -> recv_raw_body(buf, p)

answer_read(buf, p) ==
    IF p.state = "HEADER" THEN recv_http_header(buf, p) ELSE cycle_recv_body(buf, p)
=============================================================================
