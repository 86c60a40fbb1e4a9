---------------------------- MODULE TunnelProofs ----------------------------
(***************************************************************************)
(* A tunnel, for every number of bytes: each direction is a ByteStream,    *)
(* and what the server counts is what it has written.                      *)
(*                                                                         *)
(* A direction is in order for itself: what was received, the buffer of    *)
(* the relay that writes it, the stream, and the buffer of the relay that  *)
(* reads it follow one another without a gap.                              *)
(***************************************************************************)
EXTENDS Tunnel, TLAPS

-----------------------------------------------------------------------------
(* Sequences of pieces.                                                     *)

\* The pieces of q follow one another from l on, none is empty and none goes beyond n.
Follows(q, l, n) ==
  \A i \in 1 .. Len(q) : /\ q[i].lo = (IF i = 1 THEN l ELSE q[i - 1].hi)
                         /\ q[i].lo < q[i].hi /\ q[i].hi <= n

\* Where they end.
Until(q, l) == IF q = <<>> THEN l ELSE q[Len(q)].hi

\* The bound on the bytes of a direction, and so on both ends of a piece.
LEMMA BytesBound ==
  /\ TunnelBytes \in Nat /\ UpBytes <= TunnelBytes /\ DownBytes <= TunnelBytes
  /\ \A p \in Piece : p.lo \in Nat /\ p.hi \in Nat
<1>1. TunnelBytes \in Nat /\ UpBytes <= TunnelBytes /\ DownBytes <= TunnelBytes
  BY TunnelAssumption DEF TunnelBytes
<1> QED  BY <1>1 DEF Piece

\* What PollWrite appends continues what is queued, and is then the end of it.
LEMMA PieceAppended ==
  ASSUME NEW q \in Seq(Piece), NEW p \in Piece, NEW l \in Nat, NEW n \in Nat,
         Follows(q, l, n), Until(q, l) = p.lo, p.lo < p.hi, n <= p.hi
  PROVE  /\ Append(q, p) \in Seq(Piece)
         /\ Follows(Append(q, p), l, p.hi)
         /\ Until(Append(q, p), l) = p.hi
<1> DEFINE z == Append(q, p)
<1>1. z \in Seq(Piece) /\ Len(z) = Len(q) + 1 /\ z[Len(q) + 1] = p /\ z # <<>>
  OBVIOUS
<1>2. \A i \in 1 .. Len(q) : z[i] = q[i]
  OBVIOUS
<1>3. Len(q) \in Nat /\ p.hi \in Nat /\ p.lo \in Nat
  BY BytesBound
<1>4. \A i \in 1 .. Len(q) : q[i].hi \in Nat /\ q[i].lo \in Nat
  BY BytesBound
<1>5. Until(z, l) = p.hi
  BY <1>1 DEF Until
<1>6. q = <<>> <=> Len(q) = 0
  OBVIOUS
<1> HIDE DEF z
<1>7. ASSUME NEW i \in 1 .. Len(z)
      PROVE  /\ z[i].lo = (IF i = 1 THEN l ELSE z[i - 1].hi)
             /\ z[i].lo < z[i].hi /\ z[i].hi <= p.hi
  <2>1. CASE i \in 1 .. Len(q)
    <3>1. /\ q[i].lo = (IF i = 1 THEN l ELSE q[i - 1].hi)
          /\ q[i].lo < q[i].hi /\ q[i].hi <= n
      BY <2>1 DEF Follows
    <3>2. i # 1 => i - 1 \in 1 .. Len(q)
      BY <2>1, <1>3
    <3>3. z[i] = q[i] /\ (i # 1 => z[i - 1] = q[i - 1])
      BY <2>1, <3>2, <1>2
    <3>4. q[i].hi \in Nat
      BY <2>1, <1>4
    <3>5. q[i].hi <= p.hi
      BY <3>1, <3>4, <1>3
    <3> QED  BY <3>1, <3>3, <3>5
  <2>2. CASE i = Len(q) + 1
    <3>1. z[i] = p
      BY <2>2, <1>1
    <3>2. CASE i = 1
      BY <3>1, <3>2, <2>2, <1>3, <1>6 DEF Until
    <3>3. CASE i # 1
      <4>1. i - 1 = Len(q) /\ Len(q) \in 1 .. Len(q) /\ q # <<>>
        BY <3>3, <2>2, <1>3, <1>6
      <4>2. z[i - 1].hi = p.lo
        BY <4>1, <1>2 DEF Until
      <4> QED  BY <3>1, <3>3, <4>2, <1>3
    <3> QED  BY <3>2, <3>3
  <2> QED  BY <1>1, <1>3, <2>1, <2>2
<1> QED  BY <1>1, <1>5, <1>7 DEF Follows, z

\* What StreamRead leaves when it reads up to h.
Rest(q, h) == IF h = Head(q).hi THEN Tail(q) ELSE <<PieceOf(h, Head(q).hi)>> \o Tail(q)

\* What StreamRead takes is the first piece or the front of it; the rest follows it.
LEMMA PieceTaken ==
  ASSUME NEW q \in Seq(Piece), NEW l \in Nat, NEW n \in Nat, Follows(q, l, n), q # <<>>,
         NEW h \in Nat, Head(q).lo < h, h <= Head(q).hi
  PROVE  /\ Head(q) \in Piece /\ Head(q).lo = l /\ h <= n
         /\ Rest(q, h) \in Seq(Piece)
         /\ Follows(Rest(q, h), h, n) /\ Until(Rest(q, h), h) = Until(q, l)
<1> DEFINE p == Head(q)
           t == Tail(q)
           z == Rest(q, h)
<1>1. Len(q) \in Nat /\ 1 \in 1 .. Len(q) /\ p = q[1] /\ p \in Piece
  OBVIOUS
<1>2. p.lo = l /\ p.hi <= n /\ p.lo \in Nat /\ p.hi \in 0 .. TunnelBytes /\ p.hi \in Nat
  BY <1>1, BytesBound DEF Follows, Piece
<1>3. t \in Seq(Piece) /\ Len(t) = Len(q) - 1 /\ \A i \in 1 .. Len(t) : t[i] = q[i + 1]
  OBVIOUS
<1>4. \A i \in 1 .. Len(q) : q[i].hi \in Nat /\ q[i].lo \in Nat
  BY BytesBound
<1>5. \A i \in 2 .. Len(q) : q[i].lo = q[i - 1].hi /\ q[i].lo < q[i].hi /\ q[i].hi <= n
  BY <1>1 DEF Follows
<1> HIDE DEF p, t, z
<1>6. Follows(t, p.hi, n)
  <2> SUFFICES ASSUME NEW i \in 1 .. Len(t)
               PROVE  /\ t[i].lo = (IF i = 1 THEN p.hi ELSE t[i - 1].hi)
                      /\ t[i].lo < t[i].hi /\ t[i].hi <= n
    BY DEF Follows
  <2>1. i + 1 \in 2 .. Len(q) /\ (i + 1) - 1 = i /\ t[i] = q[i + 1]
    BY <1>1, <1>3
  <2>2. t[i].lo = q[i].hi /\ t[i].lo < t[i].hi /\ t[i].hi <= n
    BY <2>1, <1>5
  <2>3. i # 1 => t[i - 1] = q[i]
    <3>1. i # 1 => i - 1 \in 1 .. Len(t) /\ (i - 1) + 1 = i
      BY <1>1, <1>3
    <3> QED  BY <3>1, <1>3
  <2> QED  BY <2>2, <2>3, <1>1
<1>7. t = <<>> <=> Len(t) = 0
  BY <1>3
<1>8. Until(t, p.hi) = Until(q, l)
  <2>1. CASE t = <<>>
    <3>1. Len(q) = 1
      BY <2>1, <1>1, <1>3, <1>7
    <3> QED  BY <2>1, <3>1, <1>1 DEF Until
  <2>2. CASE t # <<>>
    <3>1. Len(t) \in 1 .. Len(t) /\ Len(t) + 1 = Len(q)
      BY <2>2, <1>1, <1>3, <1>7
    <3> QED  BY <2>2, <3>1, <1>3 DEF Until
  <2> QED  BY <2>1, <2>2
<1>9. CASE h = p.hi
  <2>1. z = t
    BY <1>9 DEF p, t, z, Rest
  <2> QED  BY <1>1, <1>2, <1>3, <1>6, <1>8, <1>9, <2>1 DEF p, z
<1>10. CASE h # p.hi
  <2> DEFINE w == PieceOf(h, p.hi)
  <2>1. h < p.hi /\ h \in 0 .. TunnelBytes
    BY <1>10, <1>2, BytesBound DEF p
  <2>2. w \in Piece /\ w.lo = h /\ w.hi = p.hi
    BY <1>2, <2>1 DEF PieceOf, Piece
  <2>3. z = <<w>> \o t
    BY <1>10 DEF p, t, z, Rest
  <2> HIDE DEF w
  <2>4. /\ z \in Seq(Piece) /\ Len(z) = Len(t) + 1 /\ z[1] = w /\ z # <<>>
        /\ \A i \in 2 .. Len(z) : z[i] = t[i - 1]
    BY <2>2, <2>3, <1>3
  <2>5. Len(t) \in Nat
    BY <1>3
  <2>6. Follows(z, h, n)
    <3> SUFFICES ASSUME NEW i \in 1 .. Len(z)
                 PROVE  /\ z[i].lo = (IF i = 1 THEN h ELSE z[i - 1].hi)
                        /\ z[i].lo < z[i].hi /\ z[i].hi <= n
      BY DEF Follows
    <3>1. CASE i = 1
      BY <3>1, <2>1, <2>2, <2>4, <1>2
    <3>2. CASE i # 1
      <4>1. i \in 2 .. Len(z) /\ i - 1 \in 1 .. Len(t)
        BY <3>2, <2>4, <2>5
      <4>2. z[i] = t[i - 1]
        BY <4>1, <2>4
      <4>3. /\ t[i - 1].lo = (IF i - 1 = 1 THEN p.hi ELSE t[(i - 1) - 1].hi)
            /\ t[i - 1].lo < t[i - 1].hi /\ t[i - 1].hi <= n
        BY <4>1, <1>6 DEF Follows
      <4>4. z[i - 1].hi = (IF i - 1 = 1 THEN p.hi ELSE t[(i - 1) - 1].hi)
        <5>1. CASE i = 2
          BY <5>1, <2>2, <2>4
        <5>2. CASE i # 2
          <6>1. i - 1 \in 2 .. Len(z) /\ i - 1 # 1
            BY <4>1, <5>2
          <6> QED  BY <6>1, <2>4
        <5> QED  BY <5>1, <5>2
      <4> QED  BY <3>2, <4>2, <4>3, <4>4
    <3> QED  BY <3>1, <3>2
  <2>7. Until(z, h) = Until(t, p.hi)
    <3>1. CASE t = <<>>
      BY <3>1, <2>2, <2>4, <1>7 DEF Until
    <3>2. CASE t # <<>>
      <4>1. Len(z) \in 2 .. Len(z) /\ Len(z) - 1 = Len(t)
        BY <3>2, <2>4, <2>5, <1>7
      <4> QED  BY <3>2, <4>1, <2>4 DEF Until
    <3> QED  BY <3>1, <3>2
  <2> QED  BY <1>1, <1>2, <1>8, <2>1, <2>4, <2>6, <2>7 DEF p, z
<1> QED  BY <1>9, <1>10

\* What StreamBreaks leaves still follows.
LEMMA PiecesLeft ==
  ASSUME NEW q \in Seq(Piece), NEW l \in Nat, NEW n \in Nat, Follows(q, l, n),
         NEW m \in Nat, m <= Len(q)
  PROVE  SubSeq(q, 1, m) \in Seq(Piece) /\ Follows(SubSeq(q, 1, m), l, n)
<1> DEFINE z == SubSeq(q, 1, m)
<1>1. z \in Seq(Piece) /\ Len(z) = m /\ \A i \in 1 .. m : z[i] = q[i]
  <2>1. \A i \in 1 .. m : q[i] \in Piece
    OBVIOUS
  <2> QED  BY <2>1
<1> HIDE DEF z
<1>2. ASSUME NEW i \in 1 .. Len(z)
      PROVE  /\ z[i].lo = (IF i = 1 THEN l ELSE z[i - 1].hi)
             /\ z[i].lo < z[i].hi /\ z[i].hi <= n
  <2>1. i \in 1 .. Len(q) /\ i \in 1 .. m /\ (i # 1 => i - 1 \in 1 .. m)
    BY <1>1
  <2>2. z[i] = q[i] /\ (i # 1 => z[i - 1] = q[i - 1])
    BY <2>1, <1>1
  <2> QED  BY <2>1, <2>2 DEF Follows
<1> QED  BY <1>1, <1>2 DEF Follows, z

-----------------------------------------------------------------------------
(* One direction: a is the copier that reads it from TCP, b the one that    *)
(* writes it to TCP, s the stream between them, r what was sent, o what was *)
(* received, t where the relay of b stands, k whether something was lost.   *)

StrType == [q : Seq(Piece), in : 0 .. TunnelBytes, fin : BOOLEAN, brk : BOOLEAN]
OutType == [got : Seq(Piece), eof : BOOLEAN]
SrcType == [sent : 0 .. TunnelBytes, fin : BOOLEAN]

\* A buffer is empty unless it is being written.
Buffer(c) == c.buf.lo <= c.buf.hi /\ (c.pc = "write" <=> c.buf.lo < c.buf.hi)

\* The bytes that were sent and not received: the buffer of b, the stream, the buffer of a,
\* without a gap as long as the stream is not broken.
Line(a, b, s, o, r) ==
  /\ Reached(o.got) = b.buf.lo
  /\ Follows(s.q, b.buf.hi, s.in)
  /\ b.buf.hi <= s.in
  /\ ~s.brk => Until(s.q, b.buf.hi) = s.in
  /\ s.in = (IF a.fut THEN a.buf.hi ELSE a.buf.lo)
  /\ a.buf.hi <= r.sent

\* An end is passed on by who has met it, and has everything before it if nothing was lost.
Ends(a, b, s, o, r, t, k) ==
  /\ s.brk => k
  /\ a.pc = "done" => s.fin
  /\ b.pc = "done" => o.eof
  /\ o.eof => b.pc = "done" \/ t = "over"
  /\ s.fin /\ ~k => r.fin /\ s.in = r.sent
  /\ o.eof /\ ~k => r.fin /\ Reached(o.got) = r.sent

Direction(a, b, s, o, r, t, k) ==
  /\ a \in CopyType /\ b \in CopyType /\ s \in StrType /\ o \in OutType /\ r \in SrcType
  /\ k \in BOOLEAN
  /\ (a.fut => a.pc = "write") /\ ~b.fut
  /\ Buffer(a) /\ Buffer(b) /\ Line(a, b, s, o, r) /\ Ends(a, b, s, o, r, t, k)

\* What Holds puts into a copier.
Held(l, h) == [pc |-> IF l < h THEN "write" ELSE "read", buf |-> PieceOf(l, h), fut |-> FALSE]

\* It is a copier that has something to write, or reads.
LEMMA HeldFacts ==
  ASSUME NEW l \in 0 .. TunnelBytes, NEW h \in 0 .. TunnelBytes, l <= h
  PROVE  /\ Held(l, h) \in CopyType /\ Buffer(Held(l, h))
         /\ Held(l, h).buf.lo = l /\ Held(l, h).buf.hi = h /\ ~Held(l, h).fut
         /\ Held(l, h).pc # "done"
<1>1. PieceOf(l, h) \in Piece /\ PieceOf(l, h).lo = l /\ PieceOf(l, h).hi = h
  BY DEF PieceOf, Piece
<1>2. /\ Held(l, h).buf = PieceOf(l, h) /\ ~Held(l, h).fut
      /\ Held(l, h).pc = (IF l < h THEN "write" ELSE "read")
  BY DEF Held
<1>3. Held(l, h) \in CopyType
  BY <1>1 DEF Held, CopyType
<1> QED  BY <1>1, <1>2, <1>3 DEF Buffer

\* The types of what Direction is about.
LEMMA DirectionTypes ==
  ASSUME NEW a, NEW b, NEW s, NEW o, NEW r, NEW t, NEW k, Direction(a, b, s, o, r, t, k)
  PROVE  /\ \A c \in {a, b} : /\ c \in CopyType /\ c.buf \in Piece /\ c.fut \in BOOLEAN
                              /\ c.buf.lo \in 0 .. TunnelBytes /\ c.buf.hi \in 0 .. TunnelBytes
                              /\ c.buf.lo \in Nat /\ c.buf.hi \in Nat
                              /\ c.pc \in {"read", "write", "done"}
         /\ s.q \in Seq(Piece) /\ s.in \in 0 .. TunnelBytes /\ s.in \in Nat
         /\ s.fin \in BOOLEAN /\ s.brk \in BOOLEAN
         /\ o.got \in Seq(Piece) /\ o.eof \in BOOLEAN
         /\ r.sent \in 0 .. TunnelBytes /\ r.sent \in Nat /\ r.fin \in BOOLEAN
<1>1. a \in CopyType /\ b \in CopyType /\ s \in StrType /\ o \in OutType /\ r \in SrcType
  BY DEF Direction
<1>2. ASSUME NEW c \in CopyType
      PROVE  /\ c.buf \in Piece /\ c.fut \in BOOLEAN
             /\ c.buf.lo \in 0 .. TunnelBytes /\ c.buf.hi \in 0 .. TunnelBytes
             /\ c.buf.lo \in Nat /\ c.buf.hi \in Nat
             /\ c.pc \in {"read", "write", "done"}
  <2>1. c.buf \in Piece /\ c.fut \in BOOLEAN /\ c.pc \in {"read", "write", "done"}
    BY DEF CopyType
  <2>2. c.buf.lo \in 0 .. TunnelBytes /\ c.buf.hi \in 0 .. TunnelBytes
    BY <2>1 DEF Piece
  <2> QED  BY <2>1, <2>2, BytesBound
<1>3. /\ s.q \in Seq(Piece) /\ s.in \in 0 .. TunnelBytes
      /\ s.fin \in BOOLEAN /\ s.brk \in BOOLEAN
  BY <1>1 DEF StrType
<1>4. o.got \in Seq(Piece) /\ o.eof \in BOOLEAN /\ r.sent \in 0 .. TunnelBytes /\ r.fin \in BOOLEAN
  BY <1>1 DEF OutType, SrcType
<1>5. s.in \in Nat /\ r.sent \in Nat
  BY <1>3, <1>4, BytesBound
<1> QED  BY <1>1, <1>2, <1>3, <1>4, <1>5

\* TcpRead: what was read is in a buffer that was empty.
LEMMA DirectionTcpRead ==
  ASSUME NEW a, NEW b, NEW s, NEW o, NEW r, NEW t, NEW k, Direction(a, b, s, o, r, t, k),
         a.pc = "read", NEW h \in a.buf.hi + 1 .. r.sent
  PROVE  Direction(Held(a.buf.hi, h), b, s, o, r, t, k)
<1> DEFINE c == Held(a.buf.hi, h)
<1>1. a.buf.hi \in 0 .. TunnelBytes /\ a.buf.lo \in Nat /\ a.buf.hi \in Nat /\ r.sent \in 0 .. TunnelBytes
  BY DirectionTypes
<1>2. h \in 0 .. TunnelBytes /\ h \in Nat /\ a.buf.hi <= h /\ h <= r.sent
  BY <1>1, BytesBound
<1>3. /\ c \in CopyType /\ Buffer(c) /\ c.buf.lo = a.buf.hi /\ c.buf.hi = h /\ ~c.fut
      /\ c.pc # "done"
  BY <1>1, <1>2, HeldFacts
<1> HIDE DEF c
<1>4. a.fut => a.pc = "write"
  BY DEF Direction
<1>5. a.buf.lo = a.buf.hi
  BY <1>1 DEF Direction, Buffer
<1>6. Line(c, b, s, o, r)
  BY <1>2, <1>3, <1>4, <1>5 DEF Direction, Line
<1>7. Ends(c, b, s, o, r, t, k)
  BY <1>3 DEF Direction, Ends
<1>8. c.fut => c.pc = "write"
  BY <1>3
<1>9. Direction(c, b, s, o, r, t, k)
  BY Zenon, <1>3, <1>6, <1>7, <1>8 DEF Direction
<1> QED  BY <1>9 DEF c

\* What StreamRead finds at the front of the stream starts where its buffer ends.
LEMMA DirectionFront ==
  ASSUME NEW a, NEW b, NEW s, NEW o, NEW r, NEW t, NEW k, Direction(a, b, s, o, r, t, k),
         b.pc = "read", s.q # <<>>, NEW h \in Head(s.q).lo + 1 .. Head(s.q).hi
  PROVE  Rest(s.q, h) \in Seq(Piece) /\ Head(s.q).lo = b.buf.lo
<1>1. s.q \in Seq(Piece) /\ s.in \in Nat /\ b.buf.lo \in Nat /\ b.buf.hi \in Nat
  BY Zenon, DirectionTypes
<1>2. Head(s.q) \in Piece
  BY <1>1
<1>3. h \in Nat /\ Head(s.q).lo < h /\ h <= Head(s.q).hi
  BY <1>2, BytesBound
<1>4. Follows(s.q, b.buf.hi, s.in) /\ b.buf.lo = b.buf.hi
  BY <1>1 DEF Direction, Line, Buffer
<1>5. Rest(s.q, h) \in Seq(Piece) /\ Head(s.q).lo = b.buf.hi
  BY <1>1, <1>3, <1>4, PieceTaken
<1> QED  BY <1>4, <1>5

\* StreamRead: what was read is in a buffer that was empty, the rest still in the stream.
LEMMA DirectionStreamRead ==
  ASSUME NEW a, NEW b, NEW s, NEW o, NEW r, NEW t, NEW k, Direction(a, b, s, o, r, t, k),
         b.pc = "read", s.q # <<>>, NEW h \in Head(s.q).lo + 1 .. Head(s.q).hi,
         NEW v \in StrType, v.in = s.in, v.fin <=> s.fin, v.brk <=> s.brk,
         v.q = Rest(s.q, h)
  PROVE  Direction(a, Held(Head(s.q).lo, h), v, o, r, t, k)
<1> DEFINE p == Head(s.q)
           c == Held(p.lo, h)
<1>1. /\ s.q \in Seq(Piece) /\ s.in \in Nat /\ b.buf.lo \in Nat /\ b.buf.hi \in Nat
      /\ p \in Piece
  <2>1. s.q \in Seq(Piece) /\ s.in \in Nat /\ b.buf.lo \in Nat /\ b.buf.hi \in Nat
    BY Zenon, DirectionTypes
  <2> QED  BY <2>1
<1>2. Follows(s.q, b.buf.hi, s.in) /\ b.buf.lo = b.buf.hi
  BY <1>1 DEF Direction, Line, Buffer
<1>3. p.lo \in Nat /\ p.hi \in Nat /\ p.lo \in 0 .. TunnelBytes /\ p.hi \in 0 .. TunnelBytes
  BY <1>1, BytesBound DEF Piece
<1>4. h \in 0 .. TunnelBytes /\ h \in Nat /\ p.lo < h /\ h <= p.hi /\ p.lo <= h
  BY <1>3, BytesBound
<1>5. /\ p.lo = b.buf.hi /\ h <= s.in
      /\ Follows(v.q, h, s.in) /\ Until(v.q, h) = Until(s.q, b.buf.hi)
  BY <1>1, <1>2, <1>4, PieceTaken
<1>6. c \in CopyType /\ Buffer(c) /\ c.buf.lo = p.lo /\ c.buf.hi = h /\ ~c.fut /\ c.pc # "done"
  BY Zenon, <1>3, <1>4, HeldFacts
<1> HIDE DEF c, p
<1>7. Line(a, c, v, o, r)
  BY <1>2, <1>5, <1>6 DEF Direction, Line
<1>8. Ends(a, c, v, o, r, t, k)
  BY Zenon, <1>6 DEF Direction, Ends
<1>9. Direction(a, c, v, o, r, t, k)
  BY Zenon, <1>6, <1>7, <1>8 DEF Direction
<1> QED  BY <1>9 DEF c, p

\* PollWrite: the frame that is queued is what the buffer holds, and follows what was queued.
LEMMA DirectionPollWrite ==
  ASSUME NEW a, NEW b, NEW s, NEW o, NEW r, NEW t, NEW k, Direction(a, b, s, o, r, t, k),
         a.pc = "write", ~a.fut, ~s.fin, ~s.brk,
         NEW c \in CopyType, c.pc = a.pc, c.buf = a.buf, c.fut,
         NEW v \in StrType, v.q = Append(s.q, a.buf), v.in = a.buf.hi, ~v.fin, ~v.brk
  PROVE  Direction(c, b, v, o, r, t, k)
<1>1. /\ s.q \in Seq(Piece) /\ s.in \in Nat /\ a.buf \in Piece
      /\ a.buf.lo \in Nat /\ a.buf.hi \in Nat /\ b.buf.hi \in Nat
  BY Zenon, DirectionTypes
<1>2. a.buf.lo < a.buf.hi
  BY DEF Direction, Buffer
<1>3. /\ Follows(s.q, b.buf.hi, s.in) /\ Until(s.q, b.buf.hi) = s.in /\ s.in = a.buf.lo
      /\ b.buf.hi <= s.in /\ a.buf.hi <= r.sent /\ Reached(o.got) = b.buf.lo
  BY DEF Direction, Line
<1>4. s.in <= a.buf.hi /\ b.buf.hi <= a.buf.hi
  BY <1>1, <1>2, <1>3
<1>5. Until(s.q, b.buf.hi) = a.buf.lo
  BY <1>3
<1>6. Follows(v.q, b.buf.hi, v.in) /\ Until(v.q, b.buf.hi) = v.in
  BY <1>1, <1>2, <1>3, <1>4, <1>5, PieceAppended
<1>7. Line(c, b, v, o, r)
  BY <1>3, <1>4, <1>6 DEF Line
<1>8. Ends(c, b, v, o, r, t, k)
  BY Zenon DEF Direction, Ends
<1>9. Buffer(c)
  BY Zenon DEF Direction, Buffer
<1> QED  BY Zenon, <1>7, <1>8, <1>9 DEF Direction

\* WriteReady: the buffer is empty.
LEMMA DirectionWriteReady ==
  ASSUME NEW a, NEW b, NEW s, NEW o, NEW r, NEW t, NEW k, Direction(a, b, s, o, r, t, k),
         a.pc = "write", a.fut
  PROVE  Direction(Held(a.buf.hi, a.buf.hi), b, s, o, r, t, k)
<1> DEFINE c == Held(a.buf.hi, a.buf.hi)
<1>1. a.buf.hi \in 0 .. TunnelBytes /\ a.buf.hi \in Nat
  BY Zenon, DirectionTypes
<1>2. a.buf.hi <= a.buf.hi
  BY <1>1
<1>3. /\ c \in CopyType /\ Buffer(c) /\ c.buf.lo = a.buf.hi /\ c.buf.hi = a.buf.hi /\ ~c.fut
      /\ c.pc # "done"
  BY <1>1, <1>2, HeldFacts
<1> HIDE DEF c
<1>4. Line(c, b, s, o, r)
  BY <1>3 DEF Direction, Line
<1>5. Ends(c, b, s, o, r, t, k)
  BY Zenon, <1>3 DEF Direction, Ends
<1>6. Direction(c, b, s, o, r, t, k)
  BY Zenon, <1>3, <1>4, <1>5 DEF Direction
<1> QED  BY <1>6 DEF c

\* TcpWrite: what was received grows by the front of the buffer.
LEMMA DirectionTcpWrite ==
  ASSUME NEW a, NEW b, NEW s, NEW o, NEW r, NEW t, NEW k, Direction(a, b, s, o, r, t, k),
         b.pc = "write", t = "run", NEW h \in b.buf.lo + 1 .. b.buf.hi,
         NEW w \in OutType, w.got = Append(o.got, PieceOf(b.buf.lo, h)), w.eof <=> o.eof
  PROVE  Direction(a, Held(h, b.buf.hi), s, w, r, t, k)
<1> DEFINE c == Held(h, b.buf.hi)
<1>1. /\ b.buf.lo \in Nat /\ b.buf.hi \in Nat /\ b.buf.hi \in 0 .. TunnelBytes
      /\ o.got \in Seq(Piece)
  BY Zenon, DirectionTypes
<1>2. h \in 0 .. TunnelBytes /\ h <= b.buf.hi
  BY <1>1, BytesBound
<1>3. /\ c \in CopyType /\ Buffer(c) /\ c.buf.lo = h /\ c.buf.hi = b.buf.hi /\ ~c.fut
      /\ c.pc # "done"
  BY <1>1, <1>2, HeldFacts
<1> HIDE DEF c
<1>4. Reached(w.got) = h
  <2>1. PieceOf(b.buf.lo, h).hi = h
    BY DEF PieceOf
  <2>2. Len(w.got) = Len(o.got) + 1 /\ w.got[Len(o.got) + 1] = PieceOf(b.buf.lo, h) /\ w.got # <<>>
    BY <1>1
  <2> QED  BY <2>1, <2>2 DEF Reached
<1>5. Line(a, c, s, w, r)
  BY <1>3, <1>4 DEF Direction, Line
<1>6. ~o.eof
  BY DEF Direction, Ends
<1>7. Ends(a, c, s, w, r, t, k)
  BY Zenon, <1>3, <1>6 DEF Direction, Ends
<1>8. Direction(a, c, s, w, r, t, k)
  BY Zenon, <1>3, <1>5, <1>7 DEF Direction
<1> QED  BY <1>8 DEF c

\* Shutdown of the stream: everything sent was written to it.
LEMMA DirectionFin ==
  ASSUME NEW a, NEW b, NEW s, NEW o, NEW r, NEW t, NEW k, Direction(a, b, s, o, r, t, k),
         a.pc = "read", r.fin, a.buf.hi = r.sent,
         NEW c \in CopyType, c.pc = "done", c.buf = a.buf, c.fut <=> a.fut,
         NEW v \in StrType, v.q = s.q, v.in = s.in, v.fin, v.brk <=> s.brk
  PROVE  Direction(c, b, v, o, r, t, k)
<1>1. a.buf.lo \in Nat /\ a.buf.hi \in Nat
  BY Zenon, DirectionTypes
<1>2. a.buf.lo = a.buf.hi /\ ~a.fut
  BY <1>1 DEF Direction, Buffer
<1>3. s.in = r.sent
  BY <1>2 DEF Direction, Line
<1>4. Buffer(c)
  BY <1>1, <1>2 DEF Buffer
<1>5. Line(c, b, v, o, r)
  BY Zenon DEF Direction, Line
<1>6. Ends(c, b, v, o, r, t, k)
  BY Zenon, <1>3 DEF Direction, Ends
<1> QED  BY Zenon, <1>2, <1>4, <1>5, <1>6 DEF Direction

\* When the stream is read to its end everything that was sent has come, unless it was broken.
LEMMA DirectionComplete ==
  ASSUME NEW a, NEW b, NEW s, NEW o, NEW r, NEW t, NEW k, Direction(a, b, s, o, r, t, k),
         b.pc = "read", s.q = <<>>, s.fin \/ s.brk
  PROVE  k \/ (r.fin /\ Reached(o.got) = r.sent)
<1>1. b.buf.lo \in Nat /\ b.buf.hi \in Nat
  BY Zenon, DirectionTypes
<1>2. b.buf.lo = b.buf.hi
  BY <1>1 DEF Direction, Buffer
<1>3. ~s.brk => Reached(o.got) = s.in
  BY <1>2 DEF Direction, Line, Until
<1> QED  BY Zenon, <1>3 DEF Direction, Ends

\* Shutdown of the output, at the end of the stream.
LEMMA DirectionEof ==
  ASSUME NEW a, NEW b, NEW s, NEW o, NEW r, NEW t, NEW k, Direction(a, b, s, o, r, t, k),
         b.pc = "read", s.q = <<>>, s.fin \/ s.brk,
         NEW c \in CopyType, c.pc = "done", c.buf = b.buf, c.fut <=> b.fut,
         NEW w \in OutType, w.got = o.got, w.eof
  PROVE  Direction(a, c, s, w, r, t, k)
<1>1. k \/ (r.fin /\ Reached(o.got) = r.sent)
  BY DirectionComplete
<1>2. b.buf.lo \in Nat /\ b.buf.hi \in Nat
  BY Zenon, DirectionTypes
<1>3. Buffer(c)
  BY <1>2 DEF Direction, Buffer
<1>4. Line(a, c, s, w, r)
  BY Zenon DEF Direction, Line
<1>5. Ends(a, c, s, w, r, t, k)
  BY Zenon, <1>1 DEF Direction, Ends
<1> QED  BY Zenon, <1>3, <1>4, <1>5 DEF Direction

\* StreamBreaks: what is left of the stream still follows what was read.
LEMMA DirectionBreaks ==
  ASSUME NEW a, NEW b, NEW s, NEW o, NEW r, NEW t, NEW k, Direction(a, b, s, o, r, t, k),
         NEW m \in Nat, m <= Len(s.q),
         NEW v \in StrType, v.q = SubSeq(s.q, 1, m), v.in = s.in, v.fin <=> s.fin, v.brk
  PROVE  Direction(a, b, v, o, r, t, TRUE)
<1>1. s.q \in Seq(Piece) /\ s.in \in Nat /\ b.buf.hi \in Nat
  BY Zenon, DirectionTypes
<1>2. Follows(s.q, b.buf.hi, s.in)
  BY DEF Direction, Line
<1>3. Follows(v.q, b.buf.hi, s.in)
  BY Zenon, <1>1, <1>2, PiecesLeft
<1>4. Line(a, b, v, o, r)
  BY Zenon, <1>3 DEF Direction, Line
<1>5. Ends(a, b, v, o, r, t, TRUE)
  BY Zenon DEF Direction, Ends
<1>6. TRUE \in BOOLEAN
  OBVIOUS
<1> QED  BY Zenon, <1>4, <1>5, <1>6 DEF Direction

\* A relay fails.
LEMMA DirectionFails ==
  ASSUME NEW a, NEW b, NEW s, NEW o, NEW r, NEW t, NEW k, Direction(a, b, s, o, r, t, k),
         NEW u, t = "over" => u = "over"
  PROVE  Direction(a, b, s, o, r, u, TRUE)
<1>1. Ends(a, b, s, o, r, u, TRUE)
  BY Zenon DEF Direction, Ends
<1>2. TRUE \in BOOLEAN
  OBVIOUS
<1> QED  BY Zenon, <1>1, <1>2 DEF Direction

\* RelayOver of the relay that writes to the stream: there is a FIN now, and it was there
\* before unless something was lost.
LEMMA DirectionEntryOver ==
  ASSUME NEW a, NEW b, NEW s, NEW o, NEW r, NEW t, NEW k, Direction(a, b, s, o, r, t, k),
         k \/ a.pc = "done",
         NEW v \in StrType, v.q = s.q, v.in = s.in, v.fin, v.brk <=> s.brk
  PROVE  Direction(a, b, v, o, r, t, k)
<1>1. Line(a, b, v, o, r)
  BY Zenon DEF Direction, Line
<1>2. Ends(a, b, v, o, r, t, k)
  BY Zenon DEF Direction, Ends
<1> QED  BY Zenon, <1>1, <1>2 DEF Direction

\* RelayOver of the relay that reads from it: the output has ended, as it had before unless
\* something was lost.
LEMMA DirectionExitOver ==
  ASSUME NEW a, NEW b, NEW s, NEW o, NEW r, NEW t, NEW k, Direction(a, b, s, o, r, t, k),
         k \/ b.pc = "done",
         NEW w \in OutType, w.got = o.got, w.eof
  PROVE  Direction(a, b, s, w, r, "over", k)
<1>1. Line(a, b, s, w, r)
  BY Zenon DEF Direction, Line
<1>2. Ends(a, b, s, w, r, "over", k)
  BY Zenon DEF Direction, Ends
<1> QED  BY Zenon, <1>1, <1>2 DEF Direction

\* Sends and HalfCloses, which only who has not ended its output does.
LEMMA DirectionSource ==
  ASSUME NEW a, NEW b, NEW s, NEW o, NEW r, NEW t, NEW k, Direction(a, b, s, o, r, t, k),
         ~r.fin, NEW y \in SrcType, r.sent <= y.sent
  PROVE  Direction(a, b, s, o, y, t, k)
<1>1. a.buf.hi \in Nat /\ r.sent \in Nat
  BY Zenon, DirectionTypes
<1>2. y.sent \in Nat
  BY BytesBound DEF SrcType
<1>3. a.buf.hi <= r.sent
  BY DEF Direction, Line
<1>4. a.buf.hi <= y.sent
  BY <1>1, <1>2, <1>3
<1>5. Line(a, b, s, o, y)
  BY Zenon, <1>4 DEF Direction, Line
<1>6. Ends(a, b, s, o, y, t, k)
  BY Zenon DEF Direction, Ends
<1> QED  BY Zenon, <1>5, <1>6 DEF Direction

-----------------------------------------------------------------------------
(* The tunnel.                                                              *)

\* Direction d of the tunnel.
InDirection(d) ==
  Direction(cp[Entry(d)][d], cp[Exit(d)][d], str[d], out[d], src[d], rel[Exit(d)], lost)

\* The inductive invariant: each direction is in order, what the server counted is what it has
\* finished writing, and a relay that failed has lost something.
TunInv ==
  /\ TunTypeOK
  /\ \A d \in Dirs : InDirection(d)
  /\ \A d \in Dirs : count[d] = cp["server"][d].buf.lo
  /\ \A x \in Relays : rel[x] = "failed" => lost

\* The variables are functions of the right kind.
TunFunctions ==
  /\ src \in [Dirs -> SrcType] /\ cp \in [Relays -> [Dirs -> CopyType]]
  /\ rel \in [Relays -> {"run", "failed", "over"}]
  /\ str \in [Dirs -> StrType] /\ out \in [Dirs -> OutType]
  /\ count \in [Dirs -> Nat] /\ lost \in BOOLEAN

\* Every relay is the entry of one direction and the exit of the other.
LEMMA Sides ==
  ASSUME NEW d \in Dirs
  PROVE  /\ Entry(d) \in Relays /\ Exit(d) \in Relays /\ Entry(d) # Exit(d)
         /\ \A x \in Relays : x = Entry(d) \/ x = Exit(d)
         /\ Other(d) \in Dirs /\ Other(d) # d /\ \A e \in Dirs : e = d \/ e = Other(d)
         /\ Entry(Other(d)) = Exit(d) /\ Exit(Other(d)) = Entry(d)
BY DEF Dirs, Relays, Entry, Exit, Other

\* They are, by TunTypeOK.
LEMMA TunFunctionsHold ==
  ASSUME TunInv
  PROVE  TunFunctions
<1>1. TunnelBytes \in Nat
  BY BytesBound
<1>2. count \in [Dirs -> Nat]
  BY <1>1 DEF TunInv, TunTypeOK
<1> QED  BY Zenon, <1>2 DEF TunInv, TunTypeOK, TunFunctions, SrcType, StrType, OutType

\* TunInv without the ranges of TunTypeOK, which follow from the directions.
TunParts ==
  /\ TunFunctions
  /\ \A d \in Dirs : InDirection(d)
  /\ \A d \in Dirs : count[d] = cp["server"][d].buf.lo
  /\ \A x \in Relays : rel[x] = "failed" => lost

\* What the buffers and CountedIo hold is within the bound because the pieces are.
LEMMA TunInvFrom == TunParts => TunInv
<1> SUFFICES ASSUME TunParts  PROVE TunInv
  OBVIOUS
<1> USE DEF TunParts
<1>1. \A d \in Dirs : count[d] \in 0 .. TunnelBytes
  <2> SUFFICES ASSUME NEW d \in Dirs  PROVE count[d] \in 0 .. TunnelBytes
    OBVIOUS
  <2>1. "server" \in Relays
    BY DEF Relays
  <2>2. cp["server"][d] \in CopyType
    BY <2>1 DEF TunFunctions
  <2>3. cp["server"][d].buf \in Piece
    BY <2>2 DEF CopyType
  <2> QED  BY <2>3 DEF Piece
<1>2. count \in [Dirs -> 0 .. TunnelBytes]
  BY <1>1 DEF TunFunctions
<1>3. ASSUME NEW x \in Relays, NEW d \in Dirs, cp[x][d].fut
      PROVE  x = Entry(d) /\ cp[x][d].pc = "write"
  <2>1. x = Entry(d) \/ x = Exit(d)
    BY Sides
  <2>2. (cp[Entry(d)][d].fut => cp[Entry(d)][d].pc = "write") /\ ~cp[Exit(d)][d].fut
    BY Zenon DEF InDirection, Direction
  <2> QED  BY <1>3, <2>1, <2>2
<1>4. TunTypeOK
  BY Zenon, <1>2, <1>3 DEF TunFunctions, TunTypeOK, SrcType, StrType, OutType
<1> QED  BY Zenon, <1>4 DEF TunInv

\* A step of one direction.
LEMMA OneDirection ==
  ASSUME TunInv, NEW d \in Dirs, TunFunctions', rel' = rel, lost' = lost,
         \A x \in Relays : cp'[x][Other(d)] = cp[x][Other(d)],
         str'[Other(d)] = str[Other(d)], out'[Other(d)] = out[Other(d)],
         src'[Other(d)] = src[Other(d)], count'[Other(d)] = count[Other(d)],
         InDirection(d)', count'[d] = cp'["server"][d].buf.lo
  PROVE  TunInv'
<1>1. "server" \in Relays
  BY DEF Relays
<1>2. ASSUME NEW e \in Dirs
      PROVE  InDirection(e)' /\ count'[e] = cp'["server"][e].buf.lo
  <2>1. CASE e = d
    BY Zenon, <2>1
  <2>2. CASE e = Other(d)
    <3>1. /\ cp'[Entry(e)][e] = cp[Entry(e)][e] /\ cp'[Exit(e)][e] = cp[Exit(e)][e]
          /\ cp'["server"][e] = cp["server"][e]
      BY Zenon, <1>1, <2>2, Sides
    <3>2. InDirection(e) /\ count[e] = cp["server"][e].buf.lo
      BY Zenon DEF TunInv
    <3> QED  BY Zenon, <2>2, <3>1, <3>2 DEF InDirection
  <2> QED  BY Zenon, <2>1, <2>2, Sides
<1>3. \A x \in Relays : rel'[x] = "failed" => lost'
  BY Zenon DEF TunInv
<1>4. \A e \in Dirs : InDirection(e)'
  BY Zenon, <1>2
<1>5. \A e \in Dirs : count'[e] = cp'["server"][e].buf.lo
  BY Zenon, <1>2
<1>6. TunParts'
  BY Zenon, <1>3, <1>4, <1>5 DEF TunParts
<1> QED  BY <1>6, TunInvFrom, PTL

\* An assignment to one copier, and what it leaves alone.
SetCopier(x, d, c) == cp' = [cp EXCEPT ![x][d] = c]

LEMMA CopierSet ==
  ASSUME TunFunctions, NEW x \in Relays, NEW d \in Dirs, NEW c \in CopyType, SetCopier(x, d, c)
  PROVE  /\ cp' \in [Relays -> [Dirs -> CopyType]]
         /\ cp'[x][d] = c
         /\ \A y \in Relays : y # x => cp'[y][d] = cp[y][d]
         /\ \A y \in Relays : cp'[y][Other(d)] = cp[y][Other(d)]
<1>1. Other(d) \in Dirs /\ Other(d) # d
  BY Sides
<1>2. cp \in [Relays -> [Dirs -> CopyType]]
  BY DEF TunFunctions
<1> QED  BY <1>1, <1>2 DEF SetCopier

\* CountedIo counts for the server.
LEMMA CountedFacts ==
  ASSUME TunFunctions, NEW x \in Relays, NEW d \in Dirs, NEW n \in Nat
  PROVE  /\ Counted(x, d, n) \in [Dirs -> Nat]
         /\ Counted(x, d, n)[d] = (IF x = "server" THEN count[d] + n ELSE count[d])
         /\ Counted(x, d, n)[Other(d)] = count[Other(d)]
<1>1. Other(d) \in Dirs /\ Other(d) # d
  BY Sides
<1> QED  BY <1>1 DEF TunFunctions, Counted

\* Peer and target send, and end their output.
LEMMA SendsInv ==
  ASSUME TunInv, NEW d \in Dirs, Sends(d) \/ HalfCloses(d)
  PROVE  TunInv'
<1> DEFINE y == src'[d]
<1>1. TunFunctions /\ InDirection(d)
  BY Zenon, TunFunctionsHold DEF TunInv
<1>2. Other(d) \in Dirs /\ Other(d) # d
  BY Sides
<1>3. src[d] \in SrcType /\ src \in [Dirs -> SrcType]
  BY <1>1 DEF TunFunctions
<1>4. src[d].sent \in Nat /\ src[d].sent \in 0 .. TunnelBytes /\ src[d].fin \in BOOLEAN
  BY <1>3, BytesBound DEF SrcType
<1>5. UNCHANGED <<cp, rel, str, out, count, lost>> /\ ~src[d].fin
  BY DEF Sends, HalfCloses
<1>6. y \in SrcType /\ src[d].sent <= y.sent /\ src' = [src EXCEPT ![d] = y]
  <2>1. CASE Sends(d)
    <3>1. src[d].sent + 1 \in 0 .. TunnelBytes
      BY <2>1, <1>4, BytesBound, TunnelAssumption DEF Sends
    <3>2. y = [src[d] EXCEPT !.sent = @ + 1] /\ src' = [src EXCEPT ![d] = y]
      BY <2>1, <1>3 DEF Sends
    <3>3. y \in SrcType /\ y.sent = src[d].sent + 1
      BY <3>1, <3>2, <1>3 DEF SrcType
    <3> QED  BY <3>2, <3>3, <1>4
  <2>2. CASE HalfCloses(d)
    <3>1. y = [src[d] EXCEPT !.fin = TRUE] /\ src' = [src EXCEPT ![d] = y]
      BY <2>2, <1>3 DEF HalfCloses
    <3>2. y \in SrcType /\ y.sent = src[d].sent
      BY Zenon, <3>1, <1>3 DEF SrcType
    <3> QED  BY <3>1, <3>2, <1>4
  <2> QED  BY <2>1, <2>2
<1>7. src' \in [Dirs -> SrcType] /\ src'[Other(d)] = src[Other(d)]
  BY <1>2, <1>3, <1>6
<1>8. TunFunctions'
  BY Zenon, <1>1, <1>5, <1>7 DEF TunFunctions
<1> HIDE DEF y
<1>9. Direction(cp[Entry(d)][d], cp[Exit(d)][d], str[d], out[d], y, rel[Exit(d)], lost)
  BY Zenon, <1>1, <1>5, <1>6, DirectionSource DEF InDirection
<1>10. InDirection(d)'
  BY Zenon, <1>5, <1>9 DEF InDirection, y
<1>11. count[d] = cp["server"][d].buf.lo
  BY Zenon DEF TunInv
<1> QED  BY Zenon, <1>5, <1>7, <1>8, <1>10, <1>11, OneDirection

\* TcpRead fills the buffer of the entry.
LEMMA TcpReadInv ==
  ASSUME TunInv, NEW d \in Dirs, TcpRead(d)
  PROVE  TunInv'
<1> DEFINE x == Entry(d)
           a == cp[x][d]
<1>1. TunFunctions /\ InDirection(d)
  BY Zenon, TunFunctionsHold DEF TunInv
<1>2. x \in Relays /\ Exit(d) \in Relays /\ Exit(d) # x
  BY Zenon, Sides
<1>3. UNCHANGED <<src, rel, str, out, count, lost>> /\ a.pc = "read"
  BY DEF TcpRead, Copies
<1>4. PICK h \in a.buf.hi + 1 .. src[d].sent : SetCopier(x, d, Held(a.buf.hi, h))
  BY Zenon DEF TcpRead, Holds, Held, SetCopier
<1> DEFINE c == Held(a.buf.hi, h)
<1>5. Direction(c, cp[Exit(d)][d], str[d], out[d], src[d], rel[Exit(d)], lost)
  BY Zenon, <1>1, <1>3, DirectionTcpRead DEF InDirection
<1>6. c \in CopyType
  BY Zenon, <1>5 DEF Direction
<1>7. c.buf.lo = a.buf.lo
  <2>1. a.buf.lo \in Nat /\ a.buf.hi \in Nat
    BY Zenon, <1>1, DirectionTypes DEF InDirection
  <2>2. a.buf.lo = a.buf.hi
    BY <1>1, <1>3, <2>1 DEF InDirection, Direction, Buffer
  <2> QED  BY <2>2 DEF Held, PieceOf
<1> HIDE DEF c
<1>8. /\ cp' \in [Relays -> [Dirs -> CopyType]] /\ cp'[x][d] = c
      /\ \A y \in Relays : y # x => cp'[y][d] = cp[y][d]
      /\ \A y \in Relays : cp'[y][Other(d)] = cp[y][Other(d)]
  BY <1>1, <1>2, <1>4, <1>6, CopierSet DEF c
<1>9. TunFunctions'
  BY Zenon, <1>1, <1>3, <1>8 DEF TunFunctions
<1>10. cp'[Exit(d)][d] = cp[Exit(d)][d]
  BY Zenon, <1>2, <1>8
<1>11. InDirection(d)'
  BY Zenon, <1>3, <1>5, <1>8, <1>10 DEF InDirection
<1>12. count'[d] = cp'["server"][d].buf.lo
  <2>1. count[d] = cp["server"][d].buf.lo
    BY Zenon DEF TunInv
  <2>2. "server" \in Relays
    BY DEF Relays
  <2> QED  BY <2>1, <2>2, <1>3, <1>7, <1>8
<1> QED  BY Zenon, <1>3, <1>8, <1>9, <1>11, <1>12, OneDirection

\* StreamRead moves the front of the stream into the buffer of the exit.
LEMMA StreamReadInv ==
  ASSUME TunInv, NEW d \in Dirs, StreamRead(d)
  PROVE  TunInv'
<1> DEFINE x == Exit(d)
           b == cp[x][d]
           s == str[d]
           v == str'[d]
<1>1. TunFunctions /\ InDirection(d)
  BY Zenon, TunFunctionsHold DEF TunInv
<1>2. x \in Relays /\ Entry(d) \in Relays /\ Entry(d) # x /\ Other(d) \in Dirs /\ Other(d) # d
  BY Zenon, Sides
<1>3. UNCHANGED <<src, rel, out, count, lost>> /\ b.pc = "read" /\ s.q # <<>>
  BY DEF StreamRead, Copies
<1>4. PICK h \in Head(s.q).lo + 1 .. Head(s.q).hi :
        /\ SetCopier(x, d, Held(Head(s.q).lo, h))
        /\ str' = [str EXCEPT ![d].q = Rest(s.q, h)]
  BY Zenon DEF StreamRead, Holds, Held, Rest, SetCopier
<1> DEFINE c == Held(Head(s.q).lo, h)
<1>5. str \in [Dirs -> StrType] /\ s \in StrType
  BY <1>1 DEF TunFunctions
<1>6. Rest(s.q, h) \in Seq(Piece) /\ Head(s.q).lo = b.buf.lo
  BY <1>1, <1>3, DirectionFront DEF InDirection
<1>7. v = [s EXCEPT !.q = Rest(s.q, h)] /\ str' = [str EXCEPT ![d] = v]
  BY <1>4, <1>5
<1>8. /\ v \in StrType /\ v.q = Rest(s.q, h) /\ v.in = s.in
      /\ (v.fin <=> s.fin) /\ (v.brk <=> s.brk)
  BY Zenon, <1>5, <1>6, <1>7 DEF StrType
<1>9. str' \in [Dirs -> StrType] /\ str'[Other(d)] = str[Other(d)]
  BY <1>2, <1>5, <1>7, <1>8
<1> HIDE DEF v
<1>10. Direction(cp[Entry(d)][d], c, v, out[d], src[d], rel[Exit(d)], lost)
  BY Zenon, <1>1, <1>3, <1>8, DirectionStreamRead DEF InDirection
<1>11. c \in CopyType
  BY Zenon, <1>10 DEF Direction
<1>12. c.buf.lo = b.buf.lo
  BY <1>6 DEF Held, PieceOf
<1> HIDE DEF c
<1>13. /\ cp' \in [Relays -> [Dirs -> CopyType]] /\ cp'[x][d] = c
       /\ \A y \in Relays : y # x => cp'[y][d] = cp[y][d]
       /\ \A y \in Relays : cp'[y][Other(d)] = cp[y][Other(d)]
  BY <1>1, <1>2, <1>4, <1>11, CopierSet DEF c
<1>14. TunFunctions'
  BY Zenon, <1>1, <1>3, <1>9, <1>13 DEF TunFunctions
<1>15. cp'[Entry(d)][d] = cp[Entry(d)][d]
  BY Zenon, <1>2, <1>13
<1>16. InDirection(d)'
  BY Zenon, <1>3, <1>10, <1>13, <1>15 DEF InDirection, v
<1>17. count'[d] = cp'["server"][d].buf.lo
  <2>1. count[d] = cp["server"][d].buf.lo
    BY Zenon DEF TunInv
  <2>2. "server" \in Relays
    BY DEF Relays
  <2> QED  BY <2>1, <2>2, <1>3, <1>12, <1>13
<1> QED  BY Zenon, <1>3, <1>9, <1>13, <1>14, <1>16, <1>17, OneDirection

\* PollWrite queues what the buffer of the entry holds.
LEMMA PollWriteInv ==
  ASSUME TunInv, NEW d \in Dirs, PollWrite(d)
  PROVE  TunInv'
<1> DEFINE x == Entry(d)
           a == cp[x][d]
           s == str[d]
           v == str'[d]
           c == [a EXCEPT !.fut = TRUE]
<1>1. TunFunctions /\ InDirection(d)
  BY Zenon, TunFunctionsHold DEF TunInv
<1>2. x \in Relays /\ Exit(d) \in Relays /\ Exit(d) # x /\ Other(d) \in Dirs /\ Other(d) # d
  BY Zenon, Sides
<1>3. /\ UNCHANGED <<src, rel, out, count, lost>> /\ a.pc = "write" /\ ~a.fut
      /\ ~s.fin /\ ~s.brk
  BY DEF PollWrite, Copies
<1>4. SetCopier(x, d, c)
  BY DEF PollWrite, SetCopier
<1>5. /\ str \in [Dirs -> StrType] /\ s \in StrType /\ a \in CopyType
      /\ cp \in [Relays -> [Dirs -> CopyType]]
  BY <1>1, <1>2 DEF TunFunctions
<1>6. s.q \in Seq(Piece) /\ a.buf \in Piece /\ a.buf.hi \in 0 .. TunnelBytes
  BY <1>1, DirectionTypes DEF InDirection
<1>7. v = [[s EXCEPT !.q = Append(s.q, a.buf)] EXCEPT !.in = a.buf.hi]
      /\ str' = [str EXCEPT ![d] = v]
  BY Zenon, <1>5 DEF PollWrite
<1>8. Append(s.q, a.buf) \in Seq(Piece)
  BY <1>6
<1>9. /\ v \in StrType /\ v.q = Append(s.q, a.buf) /\ v.in = a.buf.hi /\ ~v.fin /\ ~v.brk
  BY Zenon, <1>3, <1>5, <1>6, <1>7, <1>8 DEF StrType
<1>10. str' \in [Dirs -> StrType] /\ str'[Other(d)] = str[Other(d)]
  BY <1>2, <1>5, <1>7, <1>9
<1>11. c \in CopyType /\ c.pc = a.pc /\ c.buf = a.buf /\ c.fut
  BY Zenon, <1>5 DEF CopyType
<1> HIDE DEF v, c
<1>12. Direction(c, cp[Exit(d)][d], v, out[d], src[d], rel[Exit(d)], lost)
  BY Zenon, <1>1, <1>3, <1>9, <1>11, DirectionPollWrite DEF InDirection
<1>13. /\ cp' \in [Relays -> [Dirs -> CopyType]] /\ cp'[x][d] = c
       /\ \A y \in Relays : y # x => cp'[y][d] = cp[y][d]
       /\ \A y \in Relays : cp'[y][Other(d)] = cp[y][Other(d)]
  BY <1>1, <1>2, <1>4, <1>11, CopierSet
<1>14. TunFunctions'
  BY Zenon, <1>1, <1>3, <1>10, <1>13 DEF TunFunctions
<1>15. cp'[Exit(d)][d] = cp[Exit(d)][d]
  BY Zenon, <1>2, <1>13
<1>16. InDirection(d)'
  BY Zenon, <1>3, <1>12, <1>13, <1>15 DEF InDirection, v
<1>17. count'[d] = cp'["server"][d].buf.lo
  <2>1. count[d] = cp["server"][d].buf.lo
    BY Zenon DEF TunInv
  <2>2. "server" \in Relays
    BY DEF Relays
  <2> QED  BY <2>1, <2>2, <1>3, <1>11, <1>13
<1> QED  BY Zenon, <1>3, <1>10, <1>13, <1>14, <1>16, <1>17, OneDirection

\* WriteReady empties the buffer of the entry, and counts what was in it.
LEMMA WriteReadyInv ==
  ASSUME TunInv, NEW d \in Dirs, WriteReady(d)
  PROVE  TunInv'
<1> DEFINE x == Entry(d)
           a == cp[x][d]
           c == Held(a.buf.hi, a.buf.hi)
           n == a.buf.hi - a.buf.lo
<1>1. TunFunctions /\ InDirection(d)
  BY Zenon, TunFunctionsHold DEF TunInv
<1>2. x \in Relays /\ Exit(d) \in Relays /\ Exit(d) # x
  BY Zenon, Sides
<1>3. /\ UNCHANGED <<src, rel, str, out, lost>> /\ a.pc = "write" /\ a.fut
      /\ count' = Counted(x, d, n)
  BY DEF WriteReady, Copies
<1>4. SetCopier(x, d, c)
  BY DEF WriteReady, Holds, Held, SetCopier
<1>5. Direction(c, cp[Exit(d)][d], str[d], out[d], src[d], rel[Exit(d)], lost)
  BY Zenon, <1>1, <1>3, DirectionWriteReady DEF InDirection
<1>6. c \in CopyType
  BY Zenon, <1>5 DEF Direction
<1>7. a.buf.lo \in Nat /\ a.buf.hi \in Nat /\ a.buf.lo <= a.buf.hi
  BY Zenon, <1>1, DirectionTypes DEF InDirection, Direction, Buffer
<1>8. n \in Nat /\ a.buf.lo + n = a.buf.hi
  BY <1>7
<1>9. c.buf.lo = a.buf.hi
  BY DEF Held, PieceOf
<1> HIDE DEF c, n
<1>10. /\ cp' \in [Relays -> [Dirs -> CopyType]] /\ cp'[x][d] = c
       /\ \A y \in Relays : y # x => cp'[y][d] = cp[y][d]
       /\ \A y \in Relays : cp'[y][Other(d)] = cp[y][Other(d)]
  BY <1>1, <1>2, <1>4, <1>6, CopierSet
<1>11. /\ count' \in [Dirs -> Nat] /\ count'[Other(d)] = count[Other(d)]
       /\ count'[d] = (IF x = "server" THEN count[d] + n ELSE count[d])
  BY <1>1, <1>2, <1>3, <1>8, CountedFacts
<1>12. TunFunctions'
  BY Zenon, <1>1, <1>3, <1>10, <1>11 DEF TunFunctions
<1>13. cp'[Exit(d)][d] = cp[Exit(d)][d]
  BY Zenon, <1>2, <1>10
<1>14. InDirection(d)'
  BY Zenon, <1>3, <1>5, <1>10, <1>13 DEF InDirection
<1>15. count'[d] = cp'["server"][d].buf.lo
  <2>1. count[d] = cp["server"][d].buf.lo
    BY Zenon DEF TunInv
  <2>2. "server" \in Relays
    BY DEF Relays
  <2>3. CASE x = "server"
    BY <2>1, <2>3, <1>8, <1>9, <1>10, <1>11
  <2>4. CASE x # "server"
    BY <2>1, <2>2, <2>4, <1>10, <1>11
  <2> QED  BY <2>3, <2>4
<1> QED  BY Zenon, <1>3, <1>10, <1>11, <1>12, <1>14, <1>15, OneDirection

\* TcpWrite writes the front of the buffer of the exit, and counts it.
LEMMA TcpWriteInv ==
  ASSUME TunInv, NEW d \in Dirs, TcpWrite(d)
  PROVE  TunInv'
<1> DEFINE x == Exit(d)
           b == cp[x][d]
           w == out'[d]
<1>1. TunFunctions /\ InDirection(d)
  BY Zenon, TunFunctionsHold DEF TunInv
<1>2. x \in Relays /\ Entry(d) \in Relays /\ Entry(d) # x /\ Other(d) \in Dirs /\ Other(d) # d
  BY Zenon, Sides
<1>3. UNCHANGED <<src, rel, str, lost>> /\ b.pc = "write" /\ rel[x] = "run"
  BY DEF TcpWrite, Copies
<1>4. PICK h \in b.buf.lo + 1 .. b.buf.hi :
        /\ SetCopier(x, d, Held(h, b.buf.hi))
        /\ out' = [out EXCEPT ![d].got = Append(out[d].got, PieceOf(b.buf.lo, h))]
        /\ count' = Counted(x, d, h - b.buf.lo)
  BY Zenon DEF TcpWrite, Holds, Held, SetCopier
<1> DEFINE c == Held(h, b.buf.hi)
           n == h - b.buf.lo
           p == PieceOf(b.buf.lo, h)
<1>5. out \in [Dirs -> OutType] /\ out[d] \in OutType
  BY <1>1 DEF TunFunctions
<1>6. /\ b.buf.lo \in Nat /\ b.buf.hi \in Nat /\ b.buf.lo \in 0 .. TunnelBytes
      /\ b.buf.hi \in 0 .. TunnelBytes /\ out[d].got \in Seq(Piece)
  BY Zenon, <1>1, DirectionTypes DEF InDirection
<1>7. h \in Nat /\ n \in Nat /\ b.buf.lo + n = h /\ h \in 0 .. TunnelBytes
  <2> HIDE DEF b
  <2>1. h \in Nat /\ b.buf.lo < h /\ h <= b.buf.hi
    BY <1>6
  <2>2. h \in 0 .. TunnelBytes
    BY <2>1, <1>6, BytesBound
  <2>3. n \in Nat /\ b.buf.lo + n = h
    BY <2>1, <1>6
  <2> QED  BY <2>1, <2>2, <2>3
<1>8. p \in Piece
  BY <1>6, <1>7 DEF Piece, PieceOf
<1> HIDE DEF p
<1>9. Append(out[d].got, p) \in Seq(Piece)
  BY <1>6, <1>8
<1>10. w = [out[d] EXCEPT !.got = Append(out[d].got, p)] /\ out' = [out EXCEPT ![d] = w]
  BY <1>4, <1>5 DEF p
<1>11. w \in OutType /\ w.got = Append(out[d].got, p) /\ (w.eof <=> out[d].eof)
  BY Zenon, <1>5, <1>9, <1>10 DEF OutType
<1>12. out' \in [Dirs -> OutType] /\ out'[Other(d)] = out[Other(d)]
  BY Zenon, <1>2, <1>5, <1>10, <1>11
<1> HIDE DEF w
<1>13. Direction(cp[Entry(d)][d], c, str[d], w, src[d], rel[Exit(d)], lost)
  BY Zenon, <1>1, <1>3, <1>11, DirectionTcpWrite DEF InDirection, p
<1>14. c \in CopyType
  BY Zenon, <1>13 DEF Direction
<1>15. c.buf.lo = h
  BY DEF Held, PieceOf
<1> HIDE DEF c, n
<1>16. /\ cp' \in [Relays -> [Dirs -> CopyType]] /\ cp'[x][d] = c
       /\ \A y \in Relays : y # x => cp'[y][d] = cp[y][d]
       /\ \A y \in Relays : cp'[y][Other(d)] = cp[y][Other(d)]
  BY <1>1, <1>2, <1>4, <1>14, CopierSet DEF c
<1>17. /\ count' \in [Dirs -> Nat] /\ count'[Other(d)] = count[Other(d)]
       /\ count'[d] = (IF x = "server" THEN count[d] + n ELSE count[d])
  <2>1. count' = Counted(x, d, n)
    BY <1>4 DEF n
  <2> QED  BY <2>1, <1>1, <1>2, <1>7, CountedFacts
<1>18. TunFunctions'
  BY Zenon, <1>1, <1>3, <1>12, <1>16, <1>17 DEF TunFunctions
<1>19. cp'[Entry(d)][d] = cp[Entry(d)][d]
  BY Zenon, <1>2, <1>16
<1>20. InDirection(d)'
  BY Zenon, <1>3, <1>13, <1>16, <1>19 DEF InDirection, w
<1>21. count'[d] = cp'["server"][d].buf.lo
  <2>1. count[d] = cp["server"][d].buf.lo
    BY Zenon DEF TunInv
  <2>2. "server" \in Relays
    BY DEF Relays
  <2>3. CASE x = "server"
    BY <2>1, <2>3, <1>7, <1>15, <1>16, <1>17
  <2>4. CASE x # "server"
    BY <2>1, <2>2, <2>4, <1>16, <1>17
  <2> QED  BY <2>3, <2>4
<1> QED  BY Zenon, <1>3, <1>12, <1>16, <1>17, <1>18, <1>20, <1>21, OneDirection

\* Shutdown passes an end on: a FIN at the entry, the end of the output at the exit.
LEMMA ShutdownInv ==
  ASSUME TunInv, NEW d \in Dirs, NEW x \in Relays, Shutdown(x, d)
  PROVE  TunInv'
<1> DEFINE m == cp[x][d]
           c == [m EXCEPT !.pc = "done"]
           v == str'[d]
           w == out'[d]
<1>1. TunFunctions /\ InDirection(d)
  BY Zenon, TunFunctionsHold DEF TunInv
<1>2. /\ Entry(d) \in Relays /\ Exit(d) \in Relays /\ Entry(d) # Exit(d)
      /\ x = Entry(d) \/ x = Exit(d)
      /\ Other(d) \in Dirs /\ Other(d) # d
  BY Zenon, Sides
<1>3. UNCHANGED <<src, rel, count, lost>> /\ m.pc = "read"
  BY DEF Shutdown, AtEnd, Copies
<1>4. SetCopier(x, d, c)
  BY DEF Shutdown, SetCopier
<1>5. /\ str \in [Dirs -> StrType] /\ str[d] \in StrType /\ m \in CopyType
      /\ out \in [Dirs -> OutType] /\ out[d] \in OutType
  BY <1>1 DEF TunFunctions
<1>6. c \in CopyType /\ c.pc = "done" /\ c.buf = m.buf /\ (c.fut <=> m.fut)
  BY <1>5 DEF CopyType
<1> HIDE DEF c
<1>7. /\ cp' \in [Relays -> [Dirs -> CopyType]] /\ cp'[x][d] = c
      /\ \A y \in Relays : y # x => cp'[y][d] = cp[y][d]
      /\ \A y \in Relays : cp'[y][Other(d)] = cp[y][Other(d)]
  BY <1>1, <1>4, <1>6, CopierSet
<1>8. count'[d] = cp'["server"][d].buf.lo
  <2>1. count[d] = cp["server"][d].buf.lo
    BY Zenon DEF TunInv
  <2>2. "server" \in Relays
    BY DEF Relays
  <2> QED  BY <2>1, <2>2, <1>3, <1>6, <1>7
<1>9. CASE x = Entry(d)
  <2>1. /\ src[d].fin /\ m.buf.hi = src[d].sent
        /\ str' = [str EXCEPT ![d].fin = TRUE] /\ out' = out
    BY <1>9 DEF Shutdown, AtEnd
  <2>2. v = [str[d] EXCEPT !.fin = TRUE] /\ str' = [str EXCEPT ![d] = v]
    BY <2>1, <1>5
  <2>3. /\ v \in StrType /\ v.q = str[d].q /\ v.in = str[d].in /\ v.fin
        /\ (v.brk <=> str[d].brk)
    BY Zenon, <2>2, <1>5 DEF StrType
  <2>4. str' \in [Dirs -> StrType] /\ str'[Other(d)] = str[Other(d)]
    BY Zenon, <2>2, <2>3, <1>2, <1>5
  <2> HIDE DEF v
  <2>5. Direction(c, cp[Exit(d)][d], v, out[d], src[d], rel[Exit(d)], lost)
    BY Zenon, <1>1, <1>3, <1>6, <1>9, <2>1, <2>3, DirectionFin DEF InDirection
  <2>6. cp'[Exit(d)][d] = cp[Exit(d)][d]
    BY Zenon, <1>2, <1>7, <1>9
  <2>7. InDirection(d)'
    BY Zenon, <1>3, <1>7, <1>9, <2>1, <2>5, <2>6 DEF InDirection, v
  <2>8. TunFunctions'
    BY Zenon, <1>1, <1>3, <1>7, <2>1, <2>4 DEF TunFunctions
  <2> QED  BY Zenon, <1>3, <1>7, <1>8, <2>1, <2>4, <2>7, <2>8, OneDirection
<1>10. CASE x = Exit(d)
  <2>1. /\ str[d].q = <<>> /\ (str[d].fin \/ str[d].brk)
        /\ out' = [out EXCEPT ![d].eof = TRUE] /\ str' = str
    BY <1>2, <1>10 DEF Shutdown, AtEnd
  <2>2. w = [out[d] EXCEPT !.eof = TRUE] /\ out' = [out EXCEPT ![d] = w]
    BY <2>1, <1>5
  <2>3. w \in OutType /\ w.got = out[d].got /\ w.eof
    BY Zenon, <2>2, <1>5 DEF OutType
  <2>4. out' \in [Dirs -> OutType] /\ out'[Other(d)] = out[Other(d)]
    BY Zenon, <2>2, <2>3, <1>2, <1>5
  <2> HIDE DEF w
  <2>5. Direction(cp[Entry(d)][d], c, str[d], w, src[d], rel[Exit(d)], lost)
    BY Zenon, <1>1, <1>3, <1>6, <1>10, <2>1, <2>3, DirectionEof DEF InDirection
  <2>6. cp'[Entry(d)][d] = cp[Entry(d)][d]
    BY Zenon, <1>2, <1>7, <1>10
  <2>7. InDirection(d)'
    BY Zenon, <1>3, <1>7, <1>10, <2>1, <2>5, <2>6 DEF InDirection, w
  <2>8. TunFunctions'
    BY Zenon, <1>1, <1>3, <1>7, <2>1, <2>4 DEF TunFunctions
  <2> QED  BY Zenon, <1>3, <1>7, <1>8, <2>1, <2>4, <2>7, <2>8, OneDirection
<1> QED  BY <1>2, <1>9, <1>10

\* A relay that fails takes nothing back.
LEMMA FailsInv ==
  ASSUME TunInv, NEW x \in Relays, rel[x] = "run", Fails(x)
  PROVE  TunInv'
<1>1. TunFunctions
  BY Zenon, TunFunctionsHold
<1>2. UNCHANGED <<src, cp, str, out, count>> /\ lost' = TRUE
  BY DEF Fails
<1>3. /\ rel' \in [Relays -> {"run", "failed", "over"}]
      /\ \A y \in Relays : rel[y] = "over" => rel'[y] = "over"
  BY <1>1 DEF Fails, TunFunctions
<1>4. TunFunctions'
  BY Zenon, <1>1, <1>2, <1>3 DEF TunFunctions
<1>5. ASSUME NEW d \in Dirs
      PROVE  InDirection(d)' /\ count'[d] = cp'["server"][d].buf.lo
  <2>1. InDirection(d) /\ count[d] = cp["server"][d].buf.lo
    BY Zenon DEF TunInv
  <2>2. rel[Exit(d)] = "over" => rel'[Exit(d)] = "over"
    BY Zenon, <1>3, Sides
  <2>3. Direction(cp[Entry(d)][d], cp[Exit(d)][d], str[d], out[d], src[d], rel'[Exit(d)], TRUE)
    BY Zenon, <2>1, <2>2, DirectionFails DEF InDirection
  <2> QED  BY Zenon, <1>2, <2>1, <2>3 DEF InDirection
<1>6. TunParts'
  BY Zenon, <1>2, <1>4, <1>5 DEF TunParts
<1> QED  BY <1>6, TunInvFrom, PTL

\* StreamBreaks takes from the end of what is queued.
LEMMA StreamBreaksInv ==
  ASSUME TunInv, StreamBreaks
  PROVE  TunInv'
<1>1. TunFunctions
  BY Zenon, TunFunctionsHold
<1>2. UNCHANGED <<src, cp, rel, out, count>> /\ lost' = TRUE
  BY Zenon DEF StreamBreaks
<1>3. PICK n \in [Dirs -> 0 .. TunnelBytes] :
        /\ \A d \in Dirs : n[d] <= Len(str[d].q)
        /\ str' = [d \in Dirs |-> [str[d] EXCEPT !.q = SubSeq(str[d].q, 1, n[d]), !.brk = TRUE]]
  BY Zenon DEF StreamBreaks
<1>4. ASSUME NEW d \in Dirs
      PROVE  /\ str'[d] \in StrType /\ InDirection(d)'
             /\ count'[d] = cp'["server"][d].buf.lo
  <2> DEFINE s == str[d]
             v == str'[d]
             k == n[d]
  <2>1. InDirection(d) /\ count[d] = cp["server"][d].buf.lo
    BY Zenon DEF TunInv
  <2>2. k \in 0 .. TunnelBytes /\ k <= Len(s.q) /\ s \in StrType
    BY Zenon, <1>1, <1>3 DEF TunFunctions
  <2>3. k \in Nat
    BY <2>2, BytesBound
  <2>4. v = [[s EXCEPT !.q = SubSeq(s.q, 1, k)] EXCEPT !.brk = TRUE]
    BY Zenon, <1>3
  <2> HIDE DEF k, v
  <2>5. SubSeq(s.q, 1, k) \in Seq(Piece)
    <3>1. s.q \in Seq(Piece) /\ s.in \in Nat /\ cp[Exit(d)][d].buf.hi \in Nat
      BY Zenon, <2>1, DirectionTypes DEF InDirection
    <3>2. Follows(s.q, cp[Exit(d)][d].buf.hi, s.in)
      BY Zenon, <2>1 DEF InDirection, Direction, Line
    <3> QED  BY Zenon, <3>1, <3>2, <2>2, <2>3, PiecesLeft
  <2>6. /\ v \in StrType /\ v.q = SubSeq(s.q, 1, k) /\ v.in = s.in /\ (v.fin <=> s.fin) /\ v.brk
    BY Zenon, <2>2, <2>4, <2>5 DEF StrType
  <2>7. Direction(cp[Entry(d)][d], cp[Exit(d)][d], v, out[d], src[d], rel[Exit(d)], TRUE)
    BY Zenon, <2>1, <2>2, <2>3, <2>6, DirectionBreaks DEF InDirection
  <2>8. InDirection(d)'
    BY Zenon, <1>2, <2>7 DEF InDirection, v
  <2> QED  BY Zenon, <1>2, <2>1, <2>6, <2>8 DEF v
<1>5. str' \in [Dirs -> StrType]
  BY Zenon, <1>3, <1>4
<1>6. TunFunctions'
  BY Zenon, <1>1, <1>2, <1>5 DEF TunFunctions
<1>7. TunParts'
  BY Zenon, <1>2, <1>4, <1>6 DEF TunParts
<1> QED  BY <1>7, TunInvFrom, PTL

\* RelayOver ends the output of one direction and the stream of the other.
LEMMA RelayOverInv ==
  ASSUME TunInv, NEW x \in Relays, RelayOver(x)
  PROVE  TunInv'
<1> DEFINE d == CHOOSE e \in Dirs : Exit(e) = x
           f == Other(d)
           w == out'[d]
           v == str'[f]
<1>1. d \in Dirs /\ Exit(d) = x
  <2>1. \E e \in Dirs : Exit(e) = x
    BY DEF Dirs, Relays, Exit
  <2> QED  BY <2>1
<1>2. /\ UNCHANGED <<src, cp, count, lost>> /\ rel' = [rel EXCEPT ![x] = "over"]
      /\ out' = [out EXCEPT ![d].eof = TRUE] /\ str' = [str EXCEPT ![f].fin = TRUE]
  BY DEF RelayOver
<1> HIDE DEF d
<1>3. /\ f \in Dirs /\ f # d /\ \A e \in Dirs : e = d \/ e = f
      /\ Entry(f) = x /\ Exit(f) \in Relays /\ Exit(f) # x
  BY <1>1, Sides
<1>4. TunFunctions /\ InDirection(d) /\ InDirection(f)
  BY <1>1, <1>3, TunFunctionsHold DEF TunInv
<1>5. lost \/ \A e \in Dirs : cp[x][e].pc = "done"
  BY DEF RelayOver, Finished, TunInv
<1>6. /\ rel' \in [Relays -> {"run", "failed", "over"}] /\ rel'[x] = "over"
      /\ \A y \in Relays : y # x => rel'[y] = rel[y]
  BY <1>2, <1>4 DEF TunFunctions
<1>7. /\ str \in [Dirs -> StrType] /\ str[f] \in StrType
      /\ out \in [Dirs -> OutType] /\ out[d] \in OutType
  BY <1>1, <1>3, <1>4 DEF TunFunctions
<1>8. w = [out[d] EXCEPT !.eof = TRUE] /\ out' = [out EXCEPT ![d] = w]
  BY <1>1, <1>2, <1>7
<1>9. w \in OutType /\ w.got = out[d].got /\ w.eof
  BY Zenon, <1>7, <1>8 DEF OutType
<1>10. v = [str[f] EXCEPT !.fin = TRUE] /\ str' = [str EXCEPT ![f] = v]
  BY <1>2, <1>3, <1>7
<1>11. v \in StrType /\ v.q = str[f].q /\ v.in = str[f].in /\ v.fin /\ (v.brk <=> str[f].brk)
  BY Zenon, <1>7, <1>10 DEF StrType
<1>12. out' \in [Dirs -> OutType] /\ out'[f] = out[f]
  BY Zenon, <1>1, <1>3, <1>7, <1>8, <1>9
<1>13. str' \in [Dirs -> StrType] /\ str'[d] = str[d]
  BY Zenon, <1>1, <1>3, <1>7, <1>10, <1>11
<1> HIDE DEF v, w, f
<1>14. Direction(cp[Entry(d)][d], cp[Exit(d)][d], str[d], w, src[d], "over", lost)
  BY Zenon, <1>1, <1>4, <1>5, <1>9, DirectionExitOver DEF InDirection
<1>15. InDirection(d)'
  BY Zenon, <1>1, <1>2, <1>6, <1>13, <1>14 DEF InDirection, w
<1>16. Direction(cp[Entry(f)][f], cp[Exit(f)][f], v, out[f], src[f], rel[Exit(f)], lost)
  BY Zenon, <1>3, <1>4, <1>5, <1>11, DirectionEntryOver DEF InDirection
<1>17. InDirection(f)'
  BY Zenon, <1>2, <1>3, <1>6, <1>12, <1>16 DEF InDirection, v
<1>18. \A e \in Dirs : InDirection(e)'
  BY Zenon, <1>3, <1>15, <1>17
<1>19. TunFunctions'
  BY Zenon, <1>2, <1>4, <1>6, <1>12, <1>13 DEF TunFunctions
<1>20. \A e \in Dirs : count'[e] = cp'["server"][e].buf.lo
  BY Zenon, <1>2 DEF TunInv
<1>21. \A y \in Relays : rel'[y] = "failed" => lost'
  BY <1>2, <1>6 DEF TunInv
<1>22. TunParts'
  BY Zenon, <1>18, <1>19, <1>20, <1>21 DEF TunParts
<1> QED  BY <1>22, TunInvFrom, PTL

\* Nothing was sent yet.
LEMMA TunInitInv == TunInit => TunInv
<1> SUFFICES ASSUME TunInit  PROVE TunInv
  OBVIOUS
<1> DEFINE c == [pc |-> "read", buf |-> PieceOf(0, 0), fut |-> FALSE]
           s == [q |-> <<>>, in |-> 0, fin |-> FALSE, brk |-> FALSE]
           o == [got |-> <<>>, eof |-> FALSE]
           r == [sent |-> 0, fin |-> FALSE]
<1>1. TunnelBytes \in Nat
  BY BytesBound
<1>2. c \in CopyType /\ Buffer(c) /\ c.buf.lo = 0 /\ c.buf.hi = 0 /\ ~c.fut /\ c.pc = "read"
  <2>1. PieceOf(0, 0) \in Piece /\ PieceOf(0, 0).lo = 0 /\ PieceOf(0, 0).hi = 0
    BY <1>1 DEF PieceOf, Piece
  <2> QED  BY <2>1 DEF CopyType, Buffer
<1>3. s \in StrType /\ s.q = <<>> /\ s.in = 0 /\ ~s.fin /\ ~s.brk
  BY <1>1 DEF StrType
<1>4. o \in OutType /\ o.got = <<>> /\ ~o.eof /\ r \in SrcType /\ r.sent = 0 /\ ~r.fin
  BY <1>1 DEF OutType, SrcType
<1>5. /\ src = [d \in Dirs |-> r] /\ cp = [x \in Relays |-> [d \in Dirs |-> c]]
      /\ rel = [x \in Relays |-> "run"] /\ str = [d \in Dirs |-> s]
      /\ out = [d \in Dirs |-> o] /\ count = [d \in Dirs |-> 0] /\ lost = FALSE
  BY DEF TunInit
<1> HIDE DEF c, s, o, r
<1>6. TunFunctions
  BY Zenon, <1>2, <1>3, <1>4, <1>5 DEF TunFunctions
<1>7. Line(c, c, s, o, r)
  BY <1>2, <1>3, <1>4 DEF Line, Reached, Follows, Until
<1>8. Ends(c, c, s, o, r, "run", FALSE)
  BY <1>2, <1>3, <1>4 DEF Ends
<1>9. Direction(c, c, s, o, r, "run", FALSE)
  BY Zenon, <1>2, <1>3, <1>4, <1>7, <1>8 DEF Direction
<1>10. ASSUME NEW d \in Dirs
       PROVE  InDirection(d) /\ count[d] = cp["server"][d].buf.lo
  <2>1. Entry(d) \in Relays /\ Exit(d) \in Relays /\ "server" \in Relays
    BY Zenon, Sides DEF Relays
  <2>2. /\ cp[Entry(d)][d] = c /\ cp[Exit(d)][d] = c /\ cp["server"][d] = c /\ rel[Exit(d)] = "run"
        /\ str[d] = s /\ out[d] = o /\ src[d] = r /\ count[d] = 0
    BY <1>5, <2>1
  <2> QED  BY Zenon, <1>2, <1>5, <1>9, <2>2 DEF InDirection
<1>11. \A x \in Relays : rel[x] = "failed" => lost
  BY <1>5
<1> QED  BY Zenon, <1>6, <1>10, <1>11, TunInvFrom DEF TunParts

\* Every step keeps the invariant.
LEMMA TunNextInv == TunInv /\ [TunNext]_tunVars => TunInv'
<1> SUFFICES ASSUME TunInv, [TunNext]_tunVars  PROVE TunInv'
  OBVIOUS
<1>1. ASSUME NEW d \in Dirs, Sends(d) \/ HalfCloses(d)  PROVE TunInv'
  BY Zenon, <1>1, SendsInv
<1>2. ASSUME NEW d \in Dirs, CopyStep(d)  PROVE TunInv'
  BY Zenon, <1>2, TcpReadInv, StreamReadInv, PollWriteInv, WriteReadyInv, TcpWriteInv,
     ShutdownInv DEF CopyStep
<1>3. ASSUME NEW x \in Relays, TcpFails(x) \/ StreamFails(x)  PROVE TunInv'
  <2>1. rel[x] = "run" /\ Fails(x)
    BY <1>3 DEF TcpFails, StreamFails, Copies, AtEnd
  <2> QED  BY Zenon, <2>1, FailsInv
<1>4. ASSUME NEW x \in Relays, RelayOver(x)  PROVE TunInv'
  BY Zenon, <1>4, RelayOverInv
<1>5. ASSUME StreamBreaks  PROVE TunInv'
  BY Zenon, <1>5, StreamBreaksInv
<1>6. ASSUME UNCHANGED tunVars  PROVE TunInv'
  <2>1. UNCHANGED <<src, cp, rel, str, out, count, lost>>
    BY <1>6 DEF tunVars
  <2> QED  BY Zenon, <2>1 DEF TunInv, TunTypeOK, InDirection
<1> QED  BY Zenon, <1>1, <1>2, <1>3, <1>4, <1>5, <1>6 DEF TunNext, RelayStep

\* The invariant holds throughout.
LEMMA TunSafety == TunSpec => []TunInv
BY TunInitInv, TunNextInv, PTL DEF TunSpec

\* StreamIo holds a write_future only while a buffer is being written to the stream, and every
\* count and offset stays within what was sent (copy_direction, StreamIo).
THEOREM TunTypeCorrect == TunSpec => []TunTypeOK
<1>1. TunInv => TunTypeOK
  BY DEF TunInv
<1> QED  BY <1>1, TunSafety, PTL

\* The server's CountedIo counts what was written to the target, and to the stream but for one
\* pending write, whatever fails or breaks on the way (relay_stream).
THEOREM CountedIsWrittenHolds == TunSpec => []CountedIsWritten
<1>1. TunInv => CountedIsWritten
  <2> SUFFICES ASSUME TunInv  PROVE CountedIsWritten
    OBVIOUS
  <2> DEFINE c == cp["server"]["down"]
  <2>1. /\ InDirection("up") /\ InDirection("down")
        /\ count["up"] = cp["server"]["up"].buf.lo /\ count["down"] = c.buf.lo
    BY DEF TunInv, Dirs
  <2>2. Exit("up") = "server" /\ Entry("down") = "server"
    BY DEF Exit, Entry
  <2>3. Reached(out["up"].got) = cp["server"]["up"].buf.lo
    BY Zenon, <2>1, <2>2 DEF InDirection, Direction, Line
  <2>4. str["down"].in = (IF c.fut THEN c.buf.hi ELSE c.buf.lo)
    BY Zenon, <2>1, <2>2 DEF InDirection, Direction, Line
  <2>5. c.buf.lo \in Nat /\ c.buf.hi \in Nat
    BY Zenon, <2>1, <2>2, DirectionTypes DEF InDirection
  <2>6. str["down"].in = count["down"] + (IF c.fut THEN c.buf.hi - c.buf.lo ELSE 0)
    BY <2>1, <2>4, <2>5
  <2> QED  BY <2>1, <2>3, <2>6 DEF CountedIsWritten
<1> QED  BY <1>1, TunSafety, PTL

-----------------------------------------------------------------------------
(* Each direction of the tunnel is a ByteStream.                            *)

\* The steps of ByteStream, for direction d.
DirWrite(d) ==
  /\ ~src[d].fin /\ src'[d].sent \in src[d].sent + 1 .. TunnelBytes
  /\ UNCHANGED <<src[d].fin, out[d], lost>>

DirFin(d) ==
  /\ ~src[d].fin /\ src'[d].fin = TRUE
  /\ UNCHANGED <<src[d].sent, out[d], lost>>

DirBreak(d) == lost' = TRUE /\ UNCHANGED <<src[d], out[d]>>

DirRead(d) ==
  /\ ~out[d].eof
  /\ \E h \in Reached(out[d].got) + 1 .. src[d].sent :
       out'[d].got = Append(out[d].got, PieceOf(Reached(out[d].got), h))
  /\ UNCHANGED <<out[d].eof, src[d], lost>>

DirEof(d) ==
  /\ lost \/ (src[d].fin /\ Reached(out[d].got) >= src[d].sent)
  /\ out'[d].eof = TRUE
  /\ UNCHANGED <<out[d].got, src[d], lost>>

DirStep(d) == DirWrite(d) \/ DirFin(d) \/ DirBreak(d) \/ DirRead(d) \/ DirEof(d)

\* Every step of the tunnel is one of those, or leaves the direction alone: a relay delivers
\* what comes next and was sent, and an end only behind everything.
LEMMA TunnelStep ==
  ASSUME TunInv, TunNext, NEW d \in Dirs
  PROVE  DirStep(d) \/ UNCHANGED <<src[d], out[d], lost>>
<1>1. TunFunctions /\ InDirection(d)
  BY Zenon, TunFunctionsHold DEF TunInv
<1>2. /\ src \in [Dirs -> SrcType] /\ out \in [Dirs -> OutType]
      /\ src[d] \in SrcType /\ out[d] \in OutType
  BY <1>1 DEF TunFunctions
<1>3. src[d].sent \in Nat
  BY <1>2, BytesBound DEF SrcType
<1>4. ASSUME NEW e \in Dirs, Sends(e)  PROVE DirWrite(d) \/ UNCHANGED <<src[d], out[d], lost>>
  <2>1. CASE e = d
    <3>1. src'[d] = [src[d] EXCEPT !.sent = src[d].sent + 1] /\ out' = out /\ lost' = lost
      BY <1>2, <1>4, <2>1 DEF Sends
    <3>2. src'[d].sent = src[d].sent + 1 /\ src'[d].fin = src[d].fin
      BY <3>1, <1>2 DEF SrcType
    <3>3. ~src[d].fin /\ src[d].sent + 1 \in src[d].sent + 1 .. TunnelBytes
      BY <1>3, <1>4, <2>1, BytesBound, TunnelAssumption DEF Sends
    <3> QED  BY <3>1, <3>2, <3>3 DEF DirWrite
  <2>2. CASE e # d
    BY <1>2, <1>4, <2>2 DEF Sends
  <2> QED  BY <2>1, <2>2
<1>5. ASSUME NEW e \in Dirs, HalfCloses(e)  PROVE DirFin(d) \/ UNCHANGED <<src[d], out[d], lost>>
  <2>1. CASE e = d
    <3>1. src'[d] = [src[d] EXCEPT !.fin = TRUE] /\ out' = out /\ lost' = lost /\ ~src[d].fin
      BY <1>2, <1>5, <2>1 DEF HalfCloses
    <3>2. src'[d].sent = src[d].sent /\ src'[d].fin = TRUE
      BY <3>1, <1>2 DEF SrcType
    <3> QED  BY <3>1, <3>2 DEF DirFin
  <2>2. CASE e # d
    BY <1>2, <1>5, <2>2 DEF HalfCloses
  <2> QED  BY <2>1, <2>2
<1>6. ASSUME NEW e \in Dirs, TcpWrite(e)  PROVE DirRead(d) \/ UNCHANGED <<src[d], out[d], lost>>
  <2>1. CASE e = d
    <3> DEFINE b == cp[Exit(d)][d]
    <3>1. b.pc = "write" /\ rel[Exit(d)] = "run" /\ src' = src /\ lost' = lost
      BY <1>6, <2>1 DEF TcpWrite, Copies
    <3>2. PICK h \in b.buf.lo + 1 .. b.buf.hi :
            out' = [out EXCEPT ![d].got = Append(out[d].got, PieceOf(b.buf.lo, h))]
      BY Zenon, <1>6, <2>1 DEF TcpWrite
    <3>3. out'[d] = [out[d] EXCEPT !.got = Append(out[d].got, PieceOf(b.buf.lo, h))]
      BY <1>2, <3>2
    <3>4. /\ out'[d].got = Append(out[d].got, PieceOf(b.buf.lo, h))
          /\ out'[d].eof = out[d].eof
      BY <1>2, <3>3 DEF OutType
    <3>5. ~out[d].eof
      BY <1>1, <3>1 DEF InDirection, Direction, Ends
    <3>6. Reached(out[d].got) = b.buf.lo
      BY Zenon, <1>1 DEF InDirection, Direction, Line
    <3>7. b.buf.lo \in Nat /\ b.buf.hi \in Nat /\ b.buf.hi <= src[d].sent
      <4>1. /\ b.buf.lo \in Nat /\ b.buf.hi \in Nat /\ str[d].in \in Nat
            /\ cp[Entry(d)][d].buf.hi \in Nat /\ cp[Entry(d)][d].buf.lo \in Nat
        BY Zenon, <1>1, DirectionTypes DEF InDirection
      <4>2. b.buf.hi <= str[d].in /\ cp[Entry(d)][d].buf.hi <= src[d].sent
        BY Zenon, <1>1 DEF InDirection, Direction, Line
      <4>3. str[d].in = (IF cp[Entry(d)][d].fut THEN cp[Entry(d)][d].buf.hi
                         ELSE cp[Entry(d)][d].buf.lo)
        BY Zenon, <1>1 DEF InDirection, Direction, Line
      <4>4. cp[Entry(d)][d].buf.lo <= cp[Entry(d)][d].buf.hi
        BY Zenon, <1>1 DEF InDirection, Direction, Buffer
      <4> QED  BY <1>3, <4>1, <4>2, <4>3, <4>4
    <3>8. h \in b.buf.lo + 1 .. src[d].sent
      BY <1>3, <3>7
    <3> QED  BY <3>1, <3>4, <3>5, <3>6, <3>8 DEF DirRead
  <2>2. CASE e # d
    BY <1>2, <1>6, <2>2 DEF TcpWrite
  <2> QED  BY <2>1, <2>2
<1>7. ASSUME NEW e \in Dirs, NEW x \in Relays, Shutdown(x, e)
      PROVE  DirEof(d) \/ UNCHANGED <<src[d], out[d], lost>>
  <2>1. src' = src /\ lost' = lost
    BY <1>7 DEF Shutdown
  <2>2. CASE e = d /\ x # Entry(d)
    <3>1. x = Exit(d)
      BY <2>2, Sides
    <3>2. cp[Exit(d)][d].pc = "read" /\ str[d].q = <<>> /\ (str[d].fin \/ str[d].brk)
      BY <1>7, <2>2, <3>1 DEF Shutdown, AtEnd, Copies
    <3>3. out' = [out EXCEPT ![d].eof = TRUE]
      BY <1>7, <2>2 DEF Shutdown
    <3>4. out'[d].eof = TRUE /\ out'[d].got = out[d].got
      BY <1>2, <3>3 DEF OutType
    <3>5. lost \/ (src[d].fin /\ Reached(out[d].got) = src[d].sent)
      BY <1>1, <3>2, DirectionComplete DEF InDirection
    <3> QED  BY <1>3, <2>1, <3>4, <3>5 DEF DirEof
  <2>3. CASE ~(e = d /\ x # Entry(d))
    <3>1. out'[d] = out[d]
      BY <1>2, <1>7, <2>3 DEF Shutdown
    <3> QED  BY <2>1, <3>1
  <2> QED  BY <2>2, <2>3
<1>8. ASSUME NEW e \in Dirs, TcpRead(e) \/ StreamRead(e) \/ PollWrite(e) \/ WriteReady(e)
      PROVE  UNCHANGED <<src[d], out[d], lost>>
  BY Zenon, <1>8 DEF TcpRead, StreamRead, PollWrite, WriteReady
<1>9. ASSUME NEW x \in Relays, TcpFails(x) \/ StreamFails(x)  PROVE DirBreak(d)
  BY <1>9 DEF TcpFails, StreamFails, Fails, DirBreak
<1>10. ASSUME StreamBreaks  PROVE DirBreak(d)
  BY Zenon, <1>10 DEF StreamBreaks, DirBreak
<1>11. ASSUME NEW x \in Relays, RelayOver(x)
       PROVE  DirEof(d) \/ UNCHANGED <<src[d], out[d], lost>>
  <2> DEFINE f == CHOOSE e \in Dirs : Exit(e) = x
  <2>1. f \in Dirs /\ Exit(f) = x
    <3>1. \E e \in Dirs : Exit(e) = x
      BY DEF Dirs, Relays, Exit
    <3> QED  BY <3>1
  <2>2. src' = src /\ lost' = lost /\ out' = [out EXCEPT ![f].eof = TRUE]
    BY <1>11 DEF RelayOver
  <2> HIDE DEF f
  <2>3. CASE f # d
    BY <1>2, <2>2, <2>3
  <2>4. CASE f = d
    <3>1. out'[d].eof = TRUE /\ out'[d].got = out[d].got
      BY <1>2, <2>2, <2>4 DEF OutType
    <3>2. lost \/ cp[Exit(d)][d].pc = "done"
      BY <1>11, <2>1, <2>4 DEF RelayOver, Finished, TunInv
    <3>3. lost \/ (src[d].fin /\ Reached(out[d].got) = src[d].sent)
      BY Zenon, <1>1, <3>2 DEF InDirection, Direction, Ends
    <3> QED  BY <1>3, <2>2, <3>1, <3>3 DEF DirEof
  <2> QED  BY <2>3, <2>4
<1> QED  BY Zenon, <1>4, <1>5, <1>6, <1>7, <1>8, <1>9, <1>10, <1>11
         DEF TunNext, CopyStep, RelayStep, DirStep

\* What the peer sends comes to the target by steps of ByteStream.
LEMMA UpStep == [DirStep("up")]_<<src["up"], out["up"], lost>> => [Up!Next]_(Up!avars)
<1> SUFFICES ASSUME DirStep("up") \/ UNCHANGED <<src["up"], out["up"], lost>>
             PROVE  Up!Next \/ UNCHANGED Up!avars
  OBVIOUS
<1> USE DEF Up!avars
<1>1. CASE UNCHANGED <<src["up"], out["up"], lost>>
  BY Zenon, <1>1
<1>2. CASE DirWrite("up")
  BY <1>2 DEF DirWrite, Up!Next, Up!Write
<1>3. CASE DirFin("up")
  BY <1>3 DEF DirFin, Up!Next, Up!Fin
<1>4. CASE DirBreak("up")
  BY <1>4 DEF DirBreak, Up!Next, Up!Break
<1>5. CASE DirRead("up")
  BY Zenon, <1>5 DEF DirRead, Up!Next, Up!Read, Up!End, Up!ChunkOf, Reached, PieceOf
<1>6. CASE DirEof("up")
  BY <1>6 DEF DirEof, Up!Next, Up!Eof, Up!End, Reached
<1> QED  BY <1>1, <1>2, <1>3, <1>4, <1>5, <1>6 DEF DirStep

\* What the target sends comes to the peer by steps of ByteStream.
LEMMA DownStep == [DirStep("down")]_<<src["down"], out["down"], lost>> => [Down!Next]_(Down!avars)
<1> SUFFICES ASSUME DirStep("down") \/ UNCHANGED <<src["down"], out["down"], lost>>
             PROVE  Down!Next \/ UNCHANGED Down!avars
  OBVIOUS
<1> USE DEF Down!avars
<1>1. CASE UNCHANGED <<src["down"], out["down"], lost>>
  BY Zenon, <1>1
<1>2. CASE DirWrite("down")
  BY <1>2 DEF DirWrite, Down!Next, Down!Write
<1>3. CASE DirFin("down")
  BY <1>3 DEF DirFin, Down!Next, Down!Fin
<1>4. CASE DirBreak("down")
  BY <1>4 DEF DirBreak, Down!Next, Down!Break
<1>5. CASE DirRead("down")
  BY Zenon, <1>5 DEF DirRead, Down!Next, Down!Read, Down!End, Down!ChunkOf, Reached, PieceOf
<1>6. CASE DirEof("down")
  BY <1>6 DEF DirEof, Down!Next, Down!Eof, Down!End, Reached
<1> QED  BY <1>1, <1>2, <1>3, <1>4, <1>5, <1>6 DEF DirStep

\* The tunnel implements a byte stream in each direction, for any number of bytes: relays,
\* buffers and kept futures lose, repeat and reorder nothing, and end of file comes behind
\* everything unless something was lost (copy_direction, StreamIo, relay_stream).
THEOREM TunnelDeliversHolds == TunSpec => TunnelDelivers
<1>1. TunInit => Up!Init /\ Down!Init
  BY DEF TunInit, Dirs, Up!Init, Down!Init
<1>2. TunInv /\ [TunNext]_tunVars => [Up!Next]_(Up!avars) /\ [Down!Next]_(Down!avars)
  <2> SUFFICES ASSUME TunInv, [TunNext]_tunVars
               PROVE  [Up!Next]_(Up!avars) /\ [Down!Next]_(Down!avars)
    OBVIOUS
  <2>1. ASSUME NEW d \in Dirs  PROVE [DirStep(d)]_<<src[d], out[d], lost>>
    <3>1. CASE TunNext
      BY Zenon, <3>1, TunnelStep
    <3>2. CASE UNCHANGED tunVars
      BY <3>2 DEF tunVars
    <3> QED  BY <3>1, <3>2
  <2>2. "up" \in Dirs /\ "down" \in Dirs
    BY DEF Dirs
  <2> QED  BY Zenon, <2>1, <2>2, UpStep, DownStep
<1> QED  BY <1>1, <1>2, TunSafety, PTL DEF TunSpec, TunnelDelivers, Up!Spec, Down!Spec
=============================================================================
