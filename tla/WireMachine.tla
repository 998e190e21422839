----------------------------- MODULE WireMachine ----------------------------
(***************************************************************************)
(* One message on its way through a buffer (NetBuffer, or a pointer and a  *)
(* length): the caller allocates what size() says, encode() writes the     *)
(* fields one after the other, decode() reads the same buffer from its     *)
(* beginning.                                                              *)
(***************************************************************************)
EXTENDS WireFormat

CONSTANTS
    Formats,    \* the messages that are tried
    Stale,      \* boxes whose encode() does not set the size field
    Unsized,    \* messages whose encode() is known not to write what size() says
    Unread      \* messages whose decode() is known not to restore them

VARIABLES
    fmt,      \* the message
    phase,    \* "encode", "decode", "done" or "failed"
    todo,     \* the fields still to be written or read
    buf,      \* the bytes written
    pos,      \* the position of decode()
    fields    \* the fields decode() has set, with the bytes they were set from

vars == <<fmt, phase, todo, buf, pos, fields>>

Init ==
    /\ fmt \in Formats
    /\ phase = "encode"
    /\ todo = fmt.writes
    /\ buf = <<>>
    /\ pos = 0
    /\ fields = {}

write ==
    /\ phase = "encode"
    /\ todo # <<>>
    /\ buf' = buf \o FieldBytes(Head(todo))
    /\ todo' = Tail(todo)
    /\ UNCHANGED <<fmt, phase, pos, fields>>

encoded ==
    /\ phase = "encode"
    /\ todo = <<>>
    /\ phase' = "decode"
    /\ todo' = fmt.reads
    /\ UNCHANGED <<fmt, buf, pos, fields>>

\* What w bytes at pos hold; behind the end of the buffer nothing is known.
Peek(w) == [k \in 1..w |-> IF pos + k <= Len(buf) THEN buf[pos + k] ELSE <<"?", 0, 0>>]

read ==
    /\ phase = "decode"
    /\ todo # <<>>
    /\ LET f == Head(todo) IN
        /\ fields' = IF f.name = "-" THEN fields
                     ELSE fields \cup {[name |-> f.name, i |-> f.i, lost |-> f.lost,
                                        bytes |-> Peek(f.w)]}
        /\ pos' = pos + f.w
    /\ todo' = Tail(todo)
    /\ UNCHANGED <<fmt, phase, buf>>

decoded ==
    /\ phase = "decode"
    /\ todo = <<>>
    /\ phase' = IF fmt.ok THEN "done" ELSE "failed"
    /\ UNCHANGED <<fmt, todo, buf, pos, fields>>

Next == write \/ encoded \/ read \/ decoded

Spec == Init /\ [][Next]_vars

\* The cursors stay within the lists of fields and the position never runs
\* backwards past the beginning (NetBuffer::skip and the reads).
TypeOK ==
    /\ fmt \in Formats
    /\ phase \in {"encode", "decode", "done", "failed"}
    /\ todo = (IF phase = "encode" THEN SubSeq(fmt.writes, Len(fmt.writes) - Len(todo) + 1, Len(fmt.writes))
               ELSE SubSeq(fmt.reads, Len(fmt.reads) - Len(todo) + 1, Len(fmt.reads)))
    /\ pos \in Nat

\* Sizes are worked out before the bytes are written, and hold: encode() never
\* writes past the buffer that was allocated by size() (the assertions of
\* NetBuffer::write_*, net_buffer.cpp:73 and after) and fills it, so no stale
\* bytes are sent behind the message; and the size field of every box says how
\* many bytes the box takes, so that a player that walks the boxes finds each of
\* them (Box::update_size).
SizeTells ==
    /\ fmt.name \notin Unsized => /\ Len(buf) <= fmt.size
                                  /\ phase # "encode" => Len(buf) = fmt.size
    /\ phase # "encode" => \A p \in fmt.parts : p.type \in Stale \/ p.field = p.bytes

\* A decode() that reports success has consumed what encode() wrote and set every
\* field to the bytes written for it, fields it is known to lose excepted.
ReadsBack ==
    phase = "done" /\ fmt.name \notin Unread =>
        /\ pos = Len(buf)
        /\ \A f \in {g \in Range(fmt.writes) : g.name # "-"} :
            \E r \in fields :
                r.name = f.name /\ r.i = f.i /\ (r.lost \/ r.bytes = FieldBytes(f))

=============================================================================
