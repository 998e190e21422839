----------------------------- MODULE WireFormat -----------------------------
(***************************************************************************)
(* What a message, box or header looks like on the wire, and the machine   *)
(* that writes one field by field into the buffer its size() announced and *)
(* then reads it back the way its decode() does.                           *)
(*                                                                         *)
(* A field is a name, an index (for repeated fields) and a width in bytes. *)
(* The bytes of a field are known by that name and index and their place   *)
(* in it, so that a byte read in the wrong place or order is told apart.   *)
(***************************************************************************)
EXTENDS Naturals, Sequences, SequencesExt, FiniteSetsExt

Field(name, w) == [name |-> name, i |-> 0, w |-> w, lost |-> FALSE]

\* Bytes that are skipped: written as they are in the buffer, read by nobody.
Pad(w) == Field("-", w)

\* A field whose read yields something else than the bytes written.
Lost(name, w) == [Field(name, w) EXCEPT !.lost = TRUE]

When(b, fs) == IF b THEN fs ELSE <<>>

Width(fs) == FoldLeft(LAMBDA n, f : n + f.w, 0, fs)

\* The fields of the k-th entry of a list.
Entry(fs, k) == [j \in 1..Len(fs) |-> [fs[j] EXCEPT !.i = k]]

Repeat(fs, n) == FlattenSeq([k \in 1..n |-> Entry(fs, k)])

\* A format: what size() says, what encode() writes, what decode() reads and
\* whether decode() reports success; how long it is and the boxes in it.
Format(name, size, writes, reads, ok) ==
    [name |-> name, size |-> size, writes |-> writes, reads |-> reads, ok |-> ok,
     bytes |-> 0, parts |-> {}]

FieldBytes(f) == [k \in 1..f.w |-> <<f.name, f.i, k>>]
=============================================================================
