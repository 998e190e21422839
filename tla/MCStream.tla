------------------------------- MODULE MCStream -------------------------------
(* What peers send in the model-checked instance of StreamReader.             *)
EXTENDS StreamReader

MCFirstCap == [rtmp |-> 4, http |-> 2, rtsp |-> 6, hook |-> 10]
MCMaxCap == [rtmp |-> 20, http |-> 8, rtsp |-> 6, hook |-> 10]

Script(proto, msgs, plan) == [proto |-> proto, msgs |-> msgs, plan |-> plan]

Media(csid, type, ts, len, id) ==
    [csid |-> csid, type |-> type, msid |-> 1, ts |-> ts, len |-> len, id |-> id]

Control(type, value) ==
    [csid |-> 2, type |-> type, msid |-> 0, ts |-> 0, len |-> 1, id |-> value]

\* Three messages of the server's own sender on one or two chunk streams: steps
\* of time that repeat, wrap, need the extended field; lengths of one to three
\* chunks.
OwnScripts ==
    {Script("rtmp", <<Media(c, "video", t1, l1, 1), Media(d, y, t2, l2, 2), Media(c, "video", t3, l1, 3)>>, <<>>) :
        c \in {4}, d \in {4, 5}, y \in {"video", "audio"}, t1 \in {0, 7},
        t2 \in {1, 3}, t3 \in {2, 6, 8}, l1 \in {1, 3}, l2 \in {0, 1, 3}}

\* Basic headers of two and three bytes, a new chunk size, a message of too many
\* chunks or beyond the buffer, an unsigned time beyond the signed range.
WideScripts ==
    {Script("rtmp", <<Media(c, "video", 1, 2, 1), Media(c, "video", 5, 2, 2)>>, <<>>) :
        c \in {2, 63, 64, 319, 320, 575}}
    \cup {Script("rtmp", <<Control("window", 9), Control("chunk_size", z), Media(6, "video", t, n, 1),
                           Media(6, "audio", -6, 1, 2)>>, <<>>) :
            z \in {1, 3, 12}, n \in {4, 7, 11}, t \in {2, -7}}

\* A peer that mixes two chunk streams, and may abort a message.
MixedScripts ==
    LET a == Media(4, "audio", 1, 3, 1)
        v == Media(6, "video", 2, 4, 2)
        w == Media(6, "video", 7, 4, 3)
    IN  {Script("rtmp", <<a, v, w>>, plan) :
            plan \in {<<1, 2, 1, 2, 3, 3>>, <<2, 1, 2, 3, 1, 3>>, <<2, 1, 2, 1, 3, 3>>}}
        \cup {Script("rtmp", <<a, v, w, Control("abort", 6)>>, plan) :
                plan \in {<<1, 2, 4, 1>>, <<2, 4, 1, 1>>, <<1, 1, 2, 4, 3, 3>>}}
        \cup {Script("rtmp", <<a, v, w, Control("abort", 4)>>, <<1, 2, 4, 2, 3, 3>>)}

Http(method, length, colon, id) == [method |-> method, length |-> length, colon |-> colon, id |-> id]

HttpScripts ==
    {Script("http", <<Http("GET", -1, FALSE, 1), Http(y, n, FALSE, 2), Http(z, k, colon, 3)>>, <<>>) :
        y \in {"POST"}, n \in {-1, 0, 1, 2}, z \in {"GET", "POST"}, k \in {-1, 2}, colon \in BOOLEAN}

Rtsp(kind, length, ok, setup, id) ==
    [kind |-> kind, length |-> length, ok |-> ok, setup |-> setup, id |-> id]

RtspScripts ==
    {Script("rtsp", <<Rtsp("request", n, TRUE, s, 1), Rtsp("packet", 2, TRUE, FALSE, 2),
                      Rtsp(y, k, ok, FALSE, 3), Rtsp("packet", 1, TRUE, FALSE, 4)>>, <<>>) :
        n \in {0, 2}, s \in BOOLEAN, y \in {"request", "response"}, k \in {0, 3, 5}, ok \in BOOLEAN}

HookScripts ==
    {Script("hook", <<[form |-> f, length |-> n, cut |-> c, code |-> k, id |-> 1]>>, <<>>) :
        f \in {"length", "chunked", "raw"}, n \in {1, 3, 5}, c \in 0..1, k \in BOOLEAN}

MCScripts == OwnScripts \cup WideScripts \cup MixedScripts \cup HttpScripts \cup RtspScripts \cup HookScripts
=============================================================================
