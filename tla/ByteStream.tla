----------------------------- MODULE ByteStream -----------------------------
(***************************************************************************)
(* What one direction of a stream promises the applications at its ends:   *)
(* Stream::write takes bytes, Stream::read returns them once each, in      *)
(* order and without a gap, and end of file is read only after everything  *)
(* written before the FIN, unless the stream was broken off.  A byte is    *)
(* named by its offset in what was written; a chunk is the bytes lo+1..hi. *)
(***************************************************************************)
EXTENDS Naturals, Sequences

CONSTANT MaxBytes   \* bytes written in all

VARIABLES
  written,   \* bytes the writing application has handed over
  fin,       \* it has ended its half of the stream
  upto,      \* how many bytes came before that
  got,       \* the chunks the reading application was given, in order
  eof,       \* it was given end of file
  broken     \* the stream was reset, or removed at one end

avars == <<written, fin, upto, got, eof, broken>>

Chunk == [lo : 0 .. MaxBytes, hi : 0 .. MaxBytes]

ChunkOf(l, h) == [lo |-> l, hi |-> h]

\* Where the chunks of q, which start at offset e, end.
End(q, e) == IF q = << >> THEN e ELSE q[Len(q)].hi

Init == /\ written = 0 /\ fin = FALSE /\ upto = 0
        /\ got = << >> /\ eof = FALSE /\ broken = FALSE

Write ==
  /\ written' \in written + 1 .. MaxBytes
  /\ UNCHANGED <<fin, upto, got, eof, broken>>

Fin ==
  /\ ~fin /\ fin' = TRUE /\ upto' = written
  /\ UNCHANGED <<written, got, eof, broken>>

Break == /\ broken' = TRUE /\ UNCHANGED <<written, fin, upto, got, eof>>

Read ==
  /\ ~eof
  /\ \E h \in End(got, 0) + 1 .. written : got' = Append(got, ChunkOf(End(got, 0), h))
  /\ UNCHANGED <<written, fin, upto, eof, broken>>

Eof ==
  /\ broken \/ (fin /\ End(got, 0) >= upto)
  /\ eof' = TRUE
  /\ UNCHANGED <<written, fin, upto, got, broken>>

Next == Write \/ Fin \/ Break \/ Read \/ Eof

Spec == Init /\ [][Next]_avars
=============================================================================
