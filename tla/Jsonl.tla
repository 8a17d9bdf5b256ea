------------------------------- MODULE Jsonl -------------------------------
(***************************************************************************)
(* The event log of a session as a file (shared/jsonl.rs, session/store.rs). *)
(* A file is its complete lines and what stands behind the last newline: a  *)
(* write may stop at any byte.  A line is an event, told by its sequence    *)
(* number (1, 2, ... here), or Bad, bytes that are not JSON.                *)
(***************************************************************************)
EXTENDS Naturals, Sequences, SequencesExt

Bad == 0
Empty == [lines |-> << >>, tail |-> << >>]
File == [lines : Seq(Nat), tail : {s \in Seq(Nat) : Len(s) <= 1}]

\* The tail is JSON that merely lacks its newline.
Whole(f) == f.tail # << >> /\ f.tail # <<Bad>>

\* read_checked, then Store::open: the records before the first complete line
\* that is malformed or out of sequence; a tail counts if it is whole.
Records(f) == IF Whole(f) /\ Bad \notin Range(f.lines) THEN f.lines \o f.tail ELSE f.lines
Good(f, n) == \A i \in 1 .. n : Records(f)[i] = i
Prefix(f) == CHOOSE n \in 0 .. Len(Records(f)) :
                 Good(f, n) /\ (n < Len(Records(f)) => ~Good(f, n + 1))
LoadError(f) == Prefix(f) < Len(Records(f))

\* (Mutant of RepairTail: a torn tail is left.)
NoRepair(f) == f

\* repair_tail: a torn tail is cut off; a whole one needs a newline in front of
\* the next record.
RepairTail(f) == IF Whole(f) THEN f ELSE [f EXCEPT !.tail = << >>]

\* What bytes behind the tail make of it.
Line(f, e) == IF f.tail = << >> THEN e ELSE Bad
Newline(f) == IF f.tail = << >> THEN f ELSE [lines |-> f.lines \o f.tail, tail |-> << >>]
Torn(f) == [f EXCEPT !.tail = <<Bad>>]
Unended(f, e) == [f EXCEPT !.tail = <<Line(f, e)>>]
Ended(f, e) == [lines |-> Append(f.lines, Line(f, e)), tail |-> << >>]

\* Appender::append: where the write of one record starts, what it leaves when
\* it succeeds, and what it may leave when it or the sync behind it fails.
Start(f, prefix) == IF prefix THEN Newline(f) ELSE f
Written(f, prefix, e) == Ended(Start(f, prefix), e)
Failures(f, prefix, e) ==
    LET g == Start(f, prefix)
    IN  {f, g, Torn(g), Unended(g, e), Ended(g, e)}
=============================================================================
