--------------------------- MODULE OrderedDelivery ---------------------------
(***************************************************************************)
(* What a byte stream promises to the handler of its messages: it gets     *)
(* them whole, in the order they were sent, each of them once.  The        *)
(* promise ends when the stream is given up.                               *)
(***************************************************************************)
EXTENDS Naturals, Sequences

VARIABLES
    sent,   \* the messages, in order
    got,    \* what has been handed over
    kept    \* the promise still holds

vars == <<sent, got, kept>>

Init == got = <<>> /\ kept \in BOOLEAN

Deliver ==
    /\ kept /\ kept'
    /\ Len(got) < Len(sent)
    /\ got' = Append(got, sent[Len(got) + 1])
    /\ UNCHANGED sent

GiveUp == ~kept' /\ UNCHANGED sent

Spec == Init /\ [][Deliver \/ GiveUp]_vars
=============================================================================
