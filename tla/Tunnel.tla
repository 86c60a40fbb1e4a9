------------------------------- MODULE Tunnel -------------------------------
(***************************************************************************)
(* A proxied connection from end to end: the local peer and the target at  *)
(* the ends of two TCP connections, the client's and the server's relay    *)
(* (copy_bidirectional in handle_socks5 and relay_stream), and the stream  *)
(* between them as the relays use it through StreamIo.                     *)
(*                                                                         *)
(* The stream is what StreamData shows it to be: bytes in order, end of    *)
(* file behind a FIN, and end of file too, early, when it is broken off.   *)
(* TCP is external: it delivers, ends, or is reset.                        *)
(***************************************************************************)
EXTENDS Naturals, Sequences

CONSTANTS UpBytes, DownBytes   \* what is sent in each direction, at most

ASSUME TunnelAssumption == UpBytes \in Nat /\ DownBytes \in Nat

VARIABLES
  src,    \* what peer ("up") and target ("down") send
  cp,     \* the two copy_direction of each relay
  rel,    \* where each relay stands
  str,    \* the two directions of the stream
  out,    \* what target ("up") and peer ("down") have received
  count,  \* CountedIo of the server's relay
  lost    \* history: a relay failed or the stream was broken off

tunVars == <<src, cp, rel, str, out, count, lost>>

Dirs == {"up", "down"}
Relays == {"client", "server"}
Other(d) == IF d = "up" THEN "down" ELSE "up"

\* The relay that reads direction d from TCP, and the one that writes it to TCP.
Entry(d) == IF d = "up" THEN "client" ELSE "server"
Exit(d) == IF d = "up" THEN "server" ELSE "client"

TunnelBytes == IF UpBytes >= DownBytes THEN UpBytes ELSE DownBytes
Piece == [lo : 0 .. TunnelBytes, hi : 0 .. TunnelBytes]
PieceOf(l, h) == [lo |-> l, hi |-> h]

CopyType ==
  [pc  : {"read", "write", "done"},
   buf : Piece,       \* what is left in the buffer
   fut : BOOLEAN]     \* StreamIo holds a write_future: its frame is queued

TunInit ==
  /\ src = [d \in Dirs |-> [sent |-> 0, fin |-> FALSE]]
  /\ cp = [x \in Relays |-> [d \in Dirs |->
            [pc |-> "read", buf |-> PieceOf(0, 0), fut |-> FALSE]]]
  /\ rel = [x \in Relays |-> "run"]
  /\ str = [d \in Dirs |-> [q |-> <<>>, in |-> 0, fin |-> FALSE, brk |-> FALSE]]
  /\ out = [d \in Dirs |-> [got |-> <<>>, eof |-> FALSE]]
  /\ count = [d \in Dirs |-> 0]
  /\ lost = FALSE

-----------------------------------------------------------------------------
(* Peer and target, and the session.                                       *)

Sends(d) ==
  /\ ~src[d].fin /\ src[d].sent < (IF d = "up" THEN UpBytes ELSE DownBytes)
  /\ src' = [src EXCEPT ![d].sent = @ + 1]
  /\ UNCHANGED <<cp, rel, str, out, count, lost>>

HalfCloses(d) ==
  /\ ~src[d].fin
  /\ src' = [src EXCEPT ![d].fin = TRUE]
  /\ UNCHANGED <<cp, rel, str, out, count, lost>>

\* The session ends, or the stream goes over a limit: both ends are removed, and what had not
\* come to the reader by then never does.
StreamBreaks ==
  /\ ~str["up"].brk
  /\ \E n \in [Dirs -> 0 .. TunnelBytes] :
       /\ \A d \in Dirs : n[d] <= Len(str[d].q)
       /\ str' = [d \in Dirs |-> [str[d] EXCEPT !.q = SubSeq(@, 1, n[d]), !.brk = TRUE]]
  /\ lost' = TRUE
  /\ UNCHANGED <<src, cp, rel, out, count>>

-----------------------------------------------------------------------------
(* copy_direction.                                                         *)

Copies(x, d, pc) == rel[x] = "run" /\ cp[x][d].pc = pc

Holds(x, d, lo, hi) ==
  cp' = [cp EXCEPT ![x][d] = [pc |-> IF lo < hi THEN "write" ELSE "read",
                              buf |-> PieceOf(lo, hi), fut |-> FALSE]]

\* From TCP: some of what was sent and not read.
TcpRead(d) ==
  LET x == Entry(d)
  IN  /\ Copies(x, d, "read")
      /\ \E h \in cp[x][d].buf.hi + 1 .. src[d].sent : Holds(x, d, cp[x][d].buf.hi, h)
      /\ UNCHANGED <<src, rel, str, out, count, lost>>

\* Mutant: what the caller's buffer has no room for is dropped.
StreamReadCut(d) ==
  LET x == Exit(d)
      p == Head(str[d].q)
  IN  /\ Copies(x, d, "read") /\ str[d].q # <<>>
      /\ \E h \in p.lo + 1 .. p.hi : Holds(x, d, p.lo, h)
      /\ str' = [str EXCEPT ![d].q = Tail(@)]
      /\ UNCHANGED <<src, rel, out, count, lost>>

\* From the stream: StreamIo::poll_read copies what its read_future returns.
StreamRead(d) ==
  LET x == Exit(d)
      p == Head(str[d].q)
  IN  /\ Copies(x, d, "read") /\ str[d].q # <<>>
      /\ \E h \in p.lo + 1 .. p.hi :
           /\ Holds(x, d, p.lo, h)
           /\ str' = [str EXCEPT ![d].q = IF h = p.hi THEN Tail(@) ELSE <<PieceOf(h, p.hi)>> \o Tail(@)]
      /\ UNCHANGED <<src, rel, out, count, lost>>

\* Mutant: every poll starts a write of its own.
PollWriteAgain(d) ==
  LET x == Entry(d)
      b == cp[x][d].buf
  IN  /\ Copies(x, d, "write") /\ ~str[d].fin /\ ~str[d].brk /\ Len(str[d].q) < 2
      /\ cp' = [cp EXCEPT ![x][d].fut = TRUE]
      /\ str' = [str EXCEPT ![d].q = Append(@, b), ![d].in = b.hi]
      /\ UNCHANGED <<src, rel, out, count, lost>>

\* StreamIo::poll_write: the first poll makes a future of the bytes, which queues a frame and
\* is kept; it is Pending until the frame is written.
PollWrite(d) ==
  LET x == Entry(d)
      b == cp[x][d].buf
  IN  /\ Copies(x, d, "write") /\ ~cp[x][d].fut /\ ~str[d].fin /\ ~str[d].brk
      /\ cp' = [cp EXCEPT ![x][d].fut = TRUE]
      /\ str' = [str EXCEPT ![d].q = Append(@, b), ![d].in = b.hi]
      /\ UNCHANGED <<src, rel, out, count, lost>>

\* CountedIo::poll_write adds what was written when that is known.
Counted(x, d, n) == IF x = "server" THEN [count EXCEPT ![d] = @ + n] ELSE count

\* ... and Ready with all of them; write_all is satisfied.
WriteReady(d) ==
  LET x == Entry(d)
      b == cp[x][d].buf
  IN  /\ Copies(x, d, "write") /\ cp[x][d].fut
      /\ Holds(x, d, b.hi, b.hi)
      /\ count' = Counted(x, d, b.hi - b.lo)
      /\ UNCHANGED <<src, rel, str, out, lost>>

\* To TCP: write_all writes what the socket takes, again and again.
TcpWrite(d) ==
  LET x == Exit(d)
      b == cp[x][d].buf
  IN  /\ Copies(x, d, "write")
      /\ \E h \in b.lo + 1 .. b.hi :
           /\ Holds(x, d, h, b.hi)
           /\ out' = [out EXCEPT ![d].got = Append(@, PieceOf(b.lo, h))]
           /\ count' = Counted(x, d, h - b.lo)
      /\ UNCHANGED <<src, rel, str, lost>>

\* A read returns nothing: the end of the TCP connection's input, or of the stream's, which
\* is also what a stream that was broken off gives.
AtEnd(x, d) ==
  /\ Copies(x, d, "read")
  /\ IF x = Entry(d) THEN src[d].fin /\ cp[x][d].buf.hi = src[d].sent
     ELSE str[d].q = <<>> /\ (str[d].fin \/ str[d].brk)

\* Mutant: the end of one direction waits for the end of the other.
ShutdownAtEnd(x, d) ==
  /\ AtEnd(x, d)
  /\ cp' = [cp EXCEPT ![x][d].pc = "done"]
  /\ UNCHANGED <<src, rel, str, out, count, lost>>

\* writer.shutdown: the FIN of the stream, once (poll_shutdown), or the end of the output.
Shutdown(x, d) ==
  /\ AtEnd(x, d)
  /\ IF x = Entry(d) THEN ~str[d].brk /\ str' = [str EXCEPT ![d].fin = TRUE] /\ UNCHANGED out
     ELSE out' = [out EXCEPT ![d].eof = TRUE] /\ UNCHANGED str
  /\ cp' = [cp EXCEPT ![x][d].pc = "done"]
  /\ UNCHANGED <<src, rel, count, lost>>

-----------------------------------------------------------------------------
(* copy_bidirectional, and what comes after it.                            *)

\* try_join drops the other direction where it is.
Fails(x) ==
  /\ rel' = [rel EXCEPT ![x] = "failed"] /\ lost' = TRUE
  /\ UNCHANGED <<src, cp, str, out, count>>

\* A TCP connection that is being read, written or shut down is reset.
TcpFails(x) ==
  /\ \E d \in Dirs : IF x = Entry(d) THEN Copies(x, d, "read")
                    ELSE Copies(x, d, "write") \/ AtEnd(x, d)
  /\ Fails(x)

\* A write, or a FIN, meets a stream that is no more.
StreamFails(x) ==
  /\ \E d \in Dirs : x = Entry(d) /\ str[d].brk /\ (Copies(x, d, "write") \/ AtEnd(x, d))
  /\ Fails(x)

Finished(x) == rel[x] = "failed" \/ (rel[x] = "run" /\ \A d \in Dirs : cp[x][d].pc = "done")

\* Both ends are shut down, by relay_stream or, in handle_socks5 after a failure, by being
\* dropped: a FIN if there was none, and nothing more is read from the stream.
RelayOver(x) ==
  /\ Finished(x)
  /\ rel' = [rel EXCEPT ![x] = "over"]
  /\ LET d == CHOOSE e \in Dirs : Exit(e) = x
     IN  /\ out' = [out EXCEPT ![d].eof = TRUE]
         /\ str' = [str EXCEPT ![Other(d)].fin = TRUE]
  /\ UNCHANGED <<src, cp, count, lost>>

CopyStep(d) ==
  \/ TcpRead(d) \/ StreamRead(d) \/ PollWrite(d) \/ WriteReady(d) \/ TcpWrite(d)
  \/ \E x \in Relays : Shutdown(x, d)

RelayStep(x) == StreamFails(x) \/ RelayOver(x)

TunNext ==
  \/ \E d \in Dirs : Sends(d) \/ HalfCloses(d) \/ CopyStep(d)
  \/ \E x \in Relays : TcpFails(x) \/ RelayStep(x)
  \/ StreamBreaks

TunSpec == TunInit /\ [][TunNext]_tunVars

\* Tasks run, and the sockets take what is written to them: peer and target read.  Neither
\* has to send or to end.
TunFairness ==
  /\ \A d \in Dirs : WF_tunVars(CopyStep(d))
  /\ \A x \in Relays : WF_tunVars(RelayStep(x))

-----------------------------------------------------------------------------
(* Properties.                                                             *)

\* A write future is held only while a buffer is being written to the stream (StreamIo).
TunTypeOK ==
  /\ src \in [Dirs -> [sent : 0 .. TunnelBytes, fin : BOOLEAN]]
  /\ cp \in [Relays -> [Dirs -> CopyType]]
  /\ rel \in [Relays -> {"run", "failed", "over"}]
  /\ str \in [Dirs -> [q : Seq(Piece), in : 0 .. TunnelBytes, fin : BOOLEAN, brk : BOOLEAN]]
  /\ out \in [Dirs -> [got : Seq(Piece), eof : BOOLEAN]]
  /\ count \in [Dirs -> 0 .. TunnelBytes]
  /\ lost \in BOOLEAN
  /\ \A x \in Relays, d \in Dirs : cp[x][d].fut => x = Entry(d) /\ cp[x][d].pc = "write"

\* Where the pieces of q end.
Reached(q) == IF q = <<>> THEN 0 ELSE q[Len(q)].hi

\* The tunnel is a byte stream in each direction, as one stream is: relays, their buffers and
\* the futures StreamIo keeps between polls neither lose, repeat nor reorder a byte, and who
\* reads end of file has everything, unless something was lost on the way (copy_direction,
\* StreamIo, handle_socks5, relay_stream).
Up == INSTANCE ByteStream WITH
  MaxBytes <- TunnelBytes, written <- src["up"].sent, fin <- src["up"].fin,
  upto <- IF src["up"].fin THEN src["up"].sent ELSE 0,
  got <- out["up"].got, eof <- out["up"].eof, broken <- lost

Down == INSTANCE ByteStream WITH
  MaxBytes <- TunnelBytes, written <- src["down"].sent, fin <- src["down"].fin,
  upto <- IF src["down"].fin THEN src["down"].sent ELSE 0,
  got <- out["down"].got, eof <- out["down"].eof, broken <- lost

TunnelDelivers == Up!Spec /\ Down!Spec

\* What the server counts is what it has written to the target, and to the stream but for one
\* write that is still pending, or was when the relay was given up (CountedIo, relay_stream).
CountedIsWritten ==
  LET c == cp["server"]["down"]
  IN  /\ count["up"] = Reached(out["up"].got)
      /\ str["down"].in = count["down"] + (IF c.fut THEN c.buf.hi - c.buf.lo ELSE 0)

\* An end passes through both relays although the other direction goes on: when one side has
\* ended its output, or anything failed on the way, the other reads end of file.  What has
\* ended or failed stays so (copy_direction, poll_shutdown, relay_stream).
EndIsMet == []<>(\A d \in Dirs : src[d].fin \/ lost => out[d].eof)
=============================================================================
